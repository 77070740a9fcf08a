------------------------------ MODULE MCHoldem ------------------------------
(***************************************************************************)
(* Hold'em by itself.                                                       *)
(***************************************************************************)
EXTENDS Holdem

MCBaseBets == <<1>>

=============================================================================
