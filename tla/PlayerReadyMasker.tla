-------------------------- MODULE PlayerReadyMasker --------------------------
(***************************************************************************)
(* PlayerReadyMasker (game_framework/player_ready_masker.cc): who has acted  *)
(* in the current stage, who cannot act, and whether the stage still has to  *)
(* wait.  A masker is a record; each method is the operator that returns the *)
(* masker it leaves behind.                                                  *)
(***************************************************************************)
CONSTANT Players

\* PlayerReadyMasker::ActiveState.
ActiveState == {"ACTIVE", "TEMPORARILY_INACTIVE", "PERMANENTLY_INACTIVE"}

Masker == [active : [Players -> ActiveState],
           ready : [Players -> BOOLEAN],
           anyReady : BOOLEAN,
           allPermanent : BOOLEAN]

NewMasker == [active |-> [p \in Players |-> "ACTIVE"],
              ready |-> [p \in Players |-> FALSE],
              anyReady |-> FALSE,
              allPermanent |-> FALSE]

\* A computer acted: anyReady stays, so that hooked users keep their chance.
SilentlySetReady(m, p) == [m EXCEPT !.ready = [@ EXCEPT ![p] = TRUE]]

SetReady(m, p) == [m EXCEPT !.ready = [@ EXCEPT ![p] = TRUE], !.anyReady = TRUE]

UnsetReady(m, p) == [m EXCEPT !.ready = [@ EXCEPT ![p] = FALSE], !.anyReady = FALSE]

ClearReady(m) == [m EXCEPT !.ready = [p \in Players |-> FALSE], !.anyReady = FALSE]

\* Inactivate_ for every player of S: whatever state it was in is overwritten.
Inactivate(m, S, state) ==
    [m EXCEPT !.active = [p \in Players |-> IF p \in S THEN state ELSE m.active[p]],
              !.anyReady = @ \/ \E p \in S : m.active[p] = "ACTIVE"]

SetTemporaryInactive(m, S) == Inactivate(m, S, "TEMPORARILY_INACTIVE")

SetPermanentInactive(m, p) ==
    LET n == Inactivate(m, {p}, "PERMANENTLY_INACTIVE")
    IN  [n EXCEPT !.allPermanent =
            @ \/ \A q \in Players : n.active[q] = "PERMANENTLY_INACTIVE"]

SetActive(m, p) ==
    IF m.active[p] = "TEMPORARILY_INACTIVE"
    THEN [m EXCEPT !.active = [@ EXCEPT ![p] = "ACTIVE"]]
    ELSE m

\* No more players need to be waited for.
Ok(m) ==
    \/ m.allPermanent
    \/ \A p \in Players : m.ready[p] \/ m.active[p] = "PERMANENTLY_INACTIVE"
    \/ m.anyReady /\ \A p \in Players : m.ready[p] \/ m.active[p] # "ACTIVE"

=============================================================================
