------------------------------ MODULE Schedule ------------------------------
(***************************************************************************)
(* ScheduleService: one-shot timers that are registered under an id in     *)
(* Nest's SchedulerRegistry (external).  The service arms the timer FIRST  *)
(* and registers it afterwards, and the wrapped callback gives the id back *)
(* before it runs the task, so that the task may schedule its own retry    *)
(* under the same id.                                                      *)
(*                                                                         *)
(* The module is instantiated once per family of ids: the handshake ids    *)
(* "sendSubscriptionHandshake_<n>" and the notification ids                *)
(* "sendNotification_<n>" can never collide.                               *)
(***************************************************************************)
EXTENDS Naturals

CONSTANT TimeoutIds

VARIABLES
    timeouts,   \* timeouts[id]: how many armed timers will call back for id
    registry    \* the ids the SchedulerRegistry holds

ScheduleInit ==
    /\ timeouts = [id \in TimeoutIds |-> 0]
    /\ registry = {}

\* SchedulerRegistry.addTimeout would throw if the id were still registered,
\* with the timer armed already.  HandshakeSingleFlight and DeliverySingleFlight
\* show that no caller ever meets this, so no caller models the exception.
AddTimeout(id) ==
    /\ timeouts' = [timeouts EXCEPT ![id] = @ + 1]
    /\ registry' = registry \cup {id}

\* A timer goes off: wrapCallback deletes the id, which throws when the id is
\* not registered, and only then runs the callback.
CallbackRuns(id) == id \in registry

TimeoutFires(id) ==
    /\ timeouts[id] > 0
    /\ timeouts' = [timeouts EXCEPT ![id] = @ - 1]
    /\ registry' = registry \ {id}

\* The process ends: timers and registry live in memory only.
ScheduleLost ==
    /\ timeouts' = [id \in TimeoutIds |-> 0]
    /\ registry' = {}
=============================================================================
