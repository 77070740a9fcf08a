----------------------------- MODULE MatchLife ------------------------------
(***************************************************************************)
(* What the bot promises about a match, whoever commands it and whenever:   *)
(* it opens with a host, people come and go while it is open, it begins at  *)
(* most once, from then on its roster is fixed and people can only quit,    *)
(* and once it is over nothing about it changes again.                      *)
(***************************************************************************)
CONSTANTS Matches, Users

VARIABLES life,   \* "unborn", "open", "playing" or "over"
          roster, \* the users a match counts as its own
          quit    \* the users of the roster who left while it was played

vars == <<life, roster, quit>>

Init ==
    /\ life = [m \in Matches |-> "unborn"]
    /\ roster = [m \in Matches |-> {}]
    /\ quit = [m \in Matches |-> {}]

Open(m) ==
    /\ life[m] = "unborn"
    /\ life' = [life EXCEPT ![m] = "open"]
    /\ \E h \in Users : roster' = [roster EXCEPT ![m] = {h}]
    /\ UNCHANGED quit

\* One user joins, or some leave or are sent away.
Enrol(m) ==
    /\ life[m] = "open"
    /\ \E S \in SUBSET Users :
          /\ S \subseteq roster[m] \/ \E u \in Users : S = roster[m] \cup {u}
          /\ roster' = [roster EXCEPT ![m] = S]
    /\ UNCHANGED <<life, quit>>

Begin(m) ==
    /\ life[m] = "open"
    /\ life' = [life EXCEPT ![m] = "playing"]
    /\ UNCHANGED <<roster, quit>>

\* One user of the roster quits; if nobody is left the match is over.
Quit(m) ==
    /\ life[m] = "playing"
    /\ \E u \in roster[m] \ quit[m] :
          /\ quit' = [quit EXCEPT ![m] = @ \cup {u}]
          /\ life' = IF roster[m] \subseteq quit'[m]
                     THEN [life EXCEPT ![m] = "over"] ELSE life
    /\ UNCHANGED roster

\* The game ends, is interrupted or terminated, or its subprocess dies.
Finish(m) ==
    /\ life[m] = "playing"
    /\ life' = [life EXCEPT ![m] = "over"]
    /\ UNCHANGED <<roster, quit>>

Next == \E m \in Matches : Open(m) \/ Enrol(m) \/ Begin(m) \/ Quit(m) \/ Finish(m)

Spec == Init /\ [][Next]_vars

=============================================================================
