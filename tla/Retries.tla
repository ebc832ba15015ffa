------------------------------- MODULE Retries -------------------------------
(***************************************************************************)
(* What the handshake and the delivery of a notification promise alike: a  *)
(* job is scheduled once, tried at most Tries times, one attempt at a      *)
(* time, and ends with what its last attempt found.  A process that stops  *)
(* forgets its jobs and makes no attempt of theirs any more.               *)
(***************************************************************************)
EXTENDS Naturals

CONSTANTS
    Jobs,
    Tries     \* how often a job may be tried

VARIABLES
    phase,      \* none, waiting for its timer, trying, over
    attempts,   \* attempts begun so far
    verdict     \* what is on record of the job: none, succeeded, exhausted, dropped

vars == <<phase, attempts, verdict>>

Init ==
    /\ phase = [j \in Jobs |-> "none"]
    /\ attempts = [j \in Jobs |-> 0]
    /\ verdict = [j \in Jobs |-> "none"]

Goes(j, from, to) ==
    /\ phase[j] = from
    /\ phase' = [phase EXCEPT ![j] = to]

-----------------------------------------------------------------------------
(* The attempts.                                                           *)

Schedule(j) == Goes(j, "none", "waiting") /\ UNCHANGED attempts

Try(j) ==
    /\ Goes(j, "waiting", "trying")
    /\ attempts' = [attempts EXCEPT ![j] = @ + 1]

Retry(j) ==
    /\ attempts[j] < Tries
    /\ Goes(j, "trying", "waiting")
    /\ UNCHANGED attempts

End(j) == Goes(j, "trying", "over") /\ UNCHANGED attempts

\* All jobs under way are forgotten.
Lose ==
    /\ phase' = [j \in Jobs |-> IF phase[j] = "none" THEN "none" ELSE "over"]
    /\ UNCHANGED attempts

\* A job that could not be scheduled.
Miss(j) == Goes(j, "none", "over") /\ UNCHANGED attempts

Move == Lose \/ \E j \in Jobs : Schedule(j) \/ Try(j) \/ Retry(j) \/ End(j) \/ Miss(j)

-----------------------------------------------------------------------------
(* The attempts and their record.                                          *)

Records(j, v) == verdict' = [verdict EXCEPT ![j] = v]

\* The last attempt succeeded, or was the last there was, or found no one to try
\* it for.
Decide(j) ==
    /\ End(j)
    /\ \/ Records(j, "succeeded")
       \/ attempts[j] = Tries /\ Records(j, "exhausted")
       \/ Records(j, "dropped")
       \/ UNCHANGED verdict

Next ==
    \/ \E j \in Jobs : Decide(j)
    \/ (Lose \/ \E j \in Jobs : Schedule(j) \/ Try(j) \/ Retry(j)) /\ UNCHANGED verdict

Spec == Init /\ [][Next]_vars

\* What is left of it when records get lost: the attempts.
MoveOrRest == Move \/ UNCHANGED <<phase, attempts>>
=============================================================================
