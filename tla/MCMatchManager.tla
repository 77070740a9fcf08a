--------------------------- MODULE MCMatchManager ---------------------------
(***************************************************************************)
(* Model checking of MatchManager: symmetry for the safety runs.            *)
(***************************************************************************)
EXTENDS MatchManager, TLC

\* Users are told apart only by the role a match gives them, and request
\* threads not at all.
Symmetry == Permutations(Users) \cup Permutations(Threads)

=============================================================================
