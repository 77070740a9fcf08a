---------------------------- MODULE InterruptVote ----------------------------
(***************************************************************************)
(* The votes on interrupting a game (MatchRunning::UserInterrupt) against   *)
(* what else changes the electorate: users who leave, and the subprocess's  *)
(* frames that hook, activate or eliminate a player.  All of it happens     *)
(* under Match::data_, one operation at a time.                             *)
(***************************************************************************)
EXTENDS FiniteSets

CONSTANT Voters    \* users_, the users the match began with

\* A match begins with its host at least.
ASSUME VoteAssumption == Voters # {}

VARIABLES presence,  \* users who have not left
          status,    \* MatchPlayer::state_ of each
          wanting,   \* users with want_interrupt_
          ending,    \* how the match ended, or "none"
          quiet      \* history: nobody has left or been hooked since the last vote

voteVars == <<presence, status, wanting, ending, quiet>>

VoteTypeOK ==
    /\ presence \subseteq Voters
    /\ status \in [Voters -> {"ACTIVE", "HOOKED", "ELIMINATED"}]
    /\ wanting \subseteq Voters
    /\ ending \in {"none", "interrupted", "deserted", "over"}
    /\ quiet \in BOOLEAN

VoteInit ==
    /\ presence = Voters
    /\ status = [u \in Voters |-> "ACTIVE"]
    /\ wanting = {}
    /\ ending = "none"
    /\ quiet = TRUE

-----------------------------------------------------------------------------

\* Those that still have to agree, if the users in W want the interruption.
Remaining(W) == {u \in presence \ W : status[u] # "HOOKED"}

\* Slip: the votes are counted before the new one is stored.
UserInterruptLate(u, cancel) ==
    /\ ending = "none" /\ u \in presence
    /\ wanting' = IF cancel THEN wanting \ {u} ELSE wanting \cup {u}
    /\ ending' = IF Remaining(wanting) = {} THEN "interrupted" ELSE ending
    /\ quiet' = TRUE
    /\ UNCHANGED <<presence, status>>

\* A vote is stored and counted; cancelling one is a vote too.
UserInterrupt(u, cancel) ==
    /\ ending = "none" /\ u \in presence
    /\ wanting' = IF cancel THEN wanting \ {u} ELSE wanting \cup {u}
    /\ ending' = IF Remaining(wanting') = {} THEN "interrupted" ELSE ending
    /\ quiet' = TRUE
    /\ UNCHANGED <<presence, status>>

\* LeaveBeforeChild: nobody counts the votes again.
LeaveMatch(u) ==
    /\ ending = "none" /\ u \in presence
    /\ presence' = presence \ {u}
    /\ ending' = IF presence' = {} THEN "deserted" ELSE ending
    /\ quiet' = FALSE
    /\ UNCHANGED <<status, wanting>>

\* ApplyChildPlayerState: the subprocess hooks active players, activates hooked
\* ones and eliminates any.
PlayerState(u, s) ==
    /\ ending = "none"
    /\ \/ s = "HOOKED" /\ status[u] = "ACTIVE"
       \/ s = "ACTIVE" /\ status[u] = "HOOKED"
       \/ s = "ELIMINATED" /\ status[u] # "ELIMINATED"
    /\ status' = [status EXCEPT ![u] = s]
    /\ quiet' = (quiet /\ s # "HOOKED")
    /\ UNCHANGED <<presence, wanting, ending>>

\* The frame with the scores.
VoteGameOver ==
    /\ ending = "none"
    /\ ending' = "over"
    /\ UNCHANGED <<presence, status, wanting, quiet>>

VoteNext ==
    \/ \E u \in Voters, cancel \in BOOLEAN : UserInterrupt(u, cancel)
    \/ \E u \in Voters : LeaveMatch(u)
    \/ \E u \in Voters, s \in {"ACTIVE", "HOOKED", "ELIMINATED"} : PlayerState(u, s)
    \/ VoteGameOver

VoteSpec == VoteInit /\ [][VoteNext]_voteVars

-----------------------------------------------------------------------------

\* A vote ends the match exactly when it makes all of those agree who are there and
\* answer: an interrupted match has nobody left to ask, and in a match that goes on
\* everybody may only have come to agree by a leave or a hook that followed the
\* last vote.
InterruptedWhenUnanimous ==
    /\ ending = "interrupted" => Remaining(wanting) = {}
    /\ ending = "none" /\ quiet => Remaining(wanting) # {}

=============================================================================
