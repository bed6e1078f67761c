------------------------------ MODULE ScoreLedger ------------------------------
(***************************************************************************)
(* What score approval promises, with no request, transaction or lock in   *)
(* sight.  A match has numbered scores.  Each team says something about    *)
(* the scores of one number, and saying it or changing the scores is only  *)
(* possible while the administrator has given no verdict.  The verdict is  *)
(* given at one instant and is decided by what both teams say at that very *)
(* instant: agreed when both approve the current scores, an override when  *)
(* they do not.  MatchApproval, where a verdict takes four database calls, *)
(* implements this module.                                                 *)
(***************************************************************************)
EXTENDS Integers

CONSTANTS Matches, Notes, NoNote

VARIABLES revision,  \* the number of the current scores of each match
          said,      \* what each team says about them
          verdict    \* what the administrator decided
vars == <<revision, said, verdict>>

Teams == {"home", "away"}
NoRev == -1
Verdicts == {"admin_accepted", "admin_override"}

Silent == [state |-> "pending", revision |-> NoRev, note |-> NoNote]
Approval(n) == [state |-> "approved", revision |-> n, note |-> NoNote]
Correction(n, note) ==
    [state |-> "correction_requested", revision |-> n, note |-> note]

Undecided(m) == verdict[m] = "none"
Agreed(m) == \A t \in Teams : said[m][t] = Approval(revision[m])

Init ==
    /\ revision = [m \in Matches |-> 0]
    /\ said = [m \in Matches |-> [t \in Teams |-> Silent]]
    /\ verdict = [m \in Matches |-> "none"]

\* New scores: a new number, and both teams have yet to speak about it.
Edit(m) ==
    /\ Undecided(m)
    /\ revision' = [revision EXCEPT ![m] = @ + 1]
    /\ said' = [said EXCEPT ![m] = [t \in Teams |-> Silent]]
    /\ UNCHANGED verdict

\* A team speaks about the current scores, or takes back what it said.
Speak(m, t, words) ==
    /\ Undecided(m)
    /\ said' = [said EXCEPT ![m][t] = words]
    /\ UNCHANGED <<revision, verdict>>

Decide(m) ==
    /\ Undecided(m)
    /\ verdict' = [verdict EXCEPT ![m] =
                     IF Agreed(m) THEN "admin_accepted" ELSE "admin_override"]
    /\ UNCHANGED <<revision, said>>

Retract(m) ==
    /\ verdict' = [verdict EXCEPT ![m] = "none"]
    /\ UNCHANGED <<revision, said>>

Next == \E m \in Matches :
    \/ Edit(m)
    \/ \E t \in Teams :
          \/ Speak(m, t, Silent)
          \/ Speak(m, t, Approval(revision[m]))
          \/ \E note \in Notes : Speak(m, t, Correction(revision[m], note))
    \/ Decide(m)
    \/ Retract(m)

Spec == Init /\ [][Next]_vars

=============================================================================
