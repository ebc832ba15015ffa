---------------------------- MODULE Notifications ----------------------------
(***************************************************************************)
(* NotificationsService and its repositories.  A notification is created   *)
(* Active with a nonce; a scheduled task posts it to the URL of its        *)
(* subscription; a 200 acknowledges it, an expired subscription orphans    *)
(* it, and anything else is retried until no tries are left and it has     *)
(* Failed.                                                                 *)
(*                                                                         *)
(* LocalNotificationRepo.create replaces the triesLeft it is given by a    *)
(* constant of its own; the Postgres repository stores what it is given.   *)
(***************************************************************************)
EXTENDS Subscriptions

CONSTANTS
    Events,              \* event ids
    NotificationTries,   \* NOTIFICATIONS_MAX_TRIES
    LocalTries           \* the constant of LocalNotificationRepo (10 in the code)

ASSUME NotificationTriesAssumption ==
    /\ NotificationTries \in Nat \ {0}
    /\ LocalTries \in Nat \ {0}

VARIABLES
    notes,        \* the notification rows
    deliveries,   \* the running sendNotification tasks
    nTimeouts,    \* armed notification timers, see Schedule
    nRegistry,    \* registered notification timers, see Schedule
    sent,         \* history: sendNotification calls so far, per notification
    acked         \* history: notifications the URL answered with 200

noteVars == <<notes, deliveries, nTimeouts, nRegistry, sent, acked>>

\* createEventNotifications makes at most one notification of an event for a
\* subscription, so the pair names it.
Notes == Events \X Subs
SubOf(n) == n[2]
EventOf(n) == n[1]

NS == INSTANCE Schedule WITH
        TimeoutIds <- Notes, timeouts <- nTimeouts, registry <- nRegistry

NotificationStatus == {"none", "active", "acknowledged", "failed", "orphaned"}

Notification == [status: NotificationStatus, triesLeft: Nat, nonce: Nat]

DeliveryTask ==
    [note: Notes, no: Nat, pc: {"reading", "posting", "retrying"}, triesLeft: Nat]

NoteTypeOK ==
    /\ notes \in [Notes -> Notification]
    /\ deliveries \subseteq DeliveryTask
    /\ nTimeouts \in [Notes -> Nat]
    /\ nRegistry \subseteq Notes
    /\ sent \in [Notes -> Nat]
    /\ acked \subseteq Notes

Noted(n) == notes[n].status # "none"

NoteInit ==
    /\ notes = [n \in Notes |-> [status |-> "none", triesLeft |-> 0, nonce |-> 0]]
    /\ deliveries = {}
    /\ NS!ScheduleInit
    /\ sent = [n \in Notes |-> 0]
    /\ acked = {}

-----------------------------------------------------------------------------
(* createNotifications: every notification is created and scheduled in a   *)
(* promise of its own.                                                     *)

InitialTries == IF Store = "local" THEN LocalTries ELSE NotificationTries

NewNotification(nonce) ==
    [status |-> "active", triesLeft |-> InitialTries, nonce |-> nonce]

CreateNotification(n, nonce) ==
    /\ notes' = [notes EXCEPT ![n] = NewNotification(nonce)]
    /\ NS!AddTimeout(n)
    /\ UNCHANGED <<deliveries, sent, acked>>

\* The insert fails, with or without the row in the table.
CreateNotificationFails(n, nonce) ==
    /\ \/ notes' = [notes EXCEPT ![n] = NewNotification(nonce)]
       \/ UNCHANGED notes
    /\ UNCHANGED <<deliveries, nTimeouts, nRegistry, sent, acked>>

-----------------------------------------------------------------------------
(* The delivery task.                                                      *)

NotificationTimeout(n) ==
    /\ NS!TimeoutFires(n)
    /\ IF NS!CallbackRuns(n)
       THEN /\ sent' = [sent EXCEPT ![n] = @ + 1]
            /\ deliveries' = deliveries \cup
                 {[note |-> n, no |-> sent[n] + 1, pc |-> "reading", triesLeft |-> 0]}
       ELSE UNCHANGED <<sent, deliveries>>
    /\ UNCHANGED <<subVars, notes, acked>>

EndDelivery(d) == deliveries' = deliveries \ {d}
StepDelivery(d, e) == deliveries' = (deliveries \ {d}) \cup {e}

\* The task in its retry branch, with what sendNotification read of triesLeft.
Retrying(d, triesLeft) == [d EXCEPT !.pc = "retrying", !.triesLeft = triesLeft - 1]

\* findOne has returned the row, its subscription and its event: an expired
\* subscription orphans the notification, otherwise the payload goes out.
SendNotification(d) ==
    /\ d.pc = "reading"
    /\ IF SubOf(d.note) \in expired
       THEN /\ notes' = [notes EXCEPT ![d.note].status = "orphaned"]
            /\ EndDelivery(d)
       ELSE /\ StepDelivery(d, [d EXCEPT !.pc = "posting",
                                         !.triesLeft = notes[d.note].triesLeft])
            /\ UNCHANGED notes
    /\ UNCHANGED <<subVars, nTimeouts, nRegistry, sent, acked>>

\* The read of the notification fails outside the try block and ends the task;
\* the reads of subscription and event, and the update to Orphaned (written or
\* not), fail inside it and count as a try.
SendNotificationFails(d) ==
    /\ d.pc = "reading"
    /\ Fault
    /\ \/ EndDelivery(d) /\ UNCHANGED notes
       \/ /\ StepDelivery(d, Retrying(d, notes[d.note].triesLeft))
          /\ \/ UNCHANGED notes
             \/ /\ SubOf(d.note) \in expired
                /\ notes' = [notes EXCEPT ![d.note].status = "orphaned"]
    /\ UNCHANGED <<subs, expired, handshakes, hsTimeouts, hsRegistry, started, confirmed>>
    /\ UNCHANGED <<nTimeouts, nRegistry, sent, acked>>

\* Faulty variants used as mutants of the actions below.
MutOkKeepsTask(d) ==
    /\ d.pc = "posting"
    /\ acked' = acked \cup {d.note}
    /\ notes' = [notes EXCEPT ![d.note].status = "acknowledged"]
    /\ StepDelivery(d, Retrying(d, d.triesLeft))
    /\ UNCHANGED <<subVars, nTimeouts, nRegistry, sent>>

MutNotOkKeepsTries(d) ==
    /\ d.pc = "posting"
    /\ StepDelivery(d, [d EXCEPT !.pc = "retrying"])
    /\ UNCHANGED <<subVars, notes, nTimeouts, nRegistry, sent, acked>>

MutNotificationRetryTwice(d) ==
    /\ d.pc = "retrying"
    /\ notes' = [notes EXCEPT ![d.note].triesLeft = d.triesLeft]
    /\ UNCHANGED deliveries
    /\ NS!AddTimeout(d.note)
    /\ UNCHANGED <<subVars, sent, acked>>

MutNotificationRetryNoTimeout(d) ==
    /\ d.pc = "retrying"
    /\ notes' = [notes EXCEPT ![d.note].triesLeft = d.triesLeft]
    /\ EndDelivery(d)
    /\ UNCHANGED <<subVars, nTimeouts, nRegistry, sent, acked>>

\* handleWebhookResponse: status 200.
WebhookOk(d) ==
    /\ d.pc = "posting"
    /\ acked' = acked \cup {d.note}
    /\ notes' = [notes EXCEPT ![d.note].status = "acknowledged"]
    /\ EndDelivery(d)
    /\ UNCHANGED <<subVars, nTimeouts, nRegistry, sent>>

\* The update to Acknowledged fails, before or after it was written, and the
\* catch block retries a notification the receiver has already accepted.
WebhookOkFails(d) ==
    /\ d.pc = "posting"
    /\ Fault
    /\ acked' = acked \cup {d.note}
    /\ \/ notes' = [notes EXCEPT ![d.note].status = "acknowledged"]
       \/ UNCHANGED notes
    /\ StepDelivery(d, Retrying(d, d.triesLeft))
    /\ UNCHANGED <<subs, expired, handshakes, hsTimeouts, hsRegistry, started, confirmed>>
    /\ UNCHANGED <<nTimeouts, nRegistry, sent>>

\* Any other status, a network error or the 10 s timeout.
WebhookNotOk(d) ==
    /\ d.pc = "posting"
    /\ StepDelivery(d, Retrying(d, d.triesLeft))
    /\ UNCHANGED <<subVars, notes, nTimeouts, nRegistry, sent, acked>>

\* What retry writes.
AfterNotificationRetry(note, triesLeft) ==
    IF triesLeft = 0
    THEN [note EXCEPT !.triesLeft = triesLeft, !.status = "failed"]
    ELSE [note EXCEPT !.triesLeft = triesLeft]

RetryNotification(d) ==
    /\ d.pc = "retrying"
    /\ notes' = [notes EXCEPT ![d.note] = AfterNotificationRetry(@, d.triesLeft)]
    /\ EndDelivery(d)
    /\ IF d.triesLeft = 0
       THEN UNCHANGED <<nTimeouts, nRegistry>>
       ELSE NS!AddTimeout(d.note)
    /\ UNCHANGED <<subVars, sent, acked>>

RetryNotificationFails(d) ==
    /\ d.pc = "retrying"
    /\ Fault
    /\ \/ notes' = [notes EXCEPT ![d.note] = AfterNotificationRetry(@, d.triesLeft)]
       \/ UNCHANGED notes
    /\ EndDelivery(d)
    /\ UNCHANGED <<subs, expired, handshakes, hsTimeouts, hsRegistry, started, confirmed>>
    /\ UNCHANGED <<nTimeouts, nRegistry, sent, acked>>

DeliveryStep(d) ==
    \/ SendNotification(d)
    \/ WebhookOk(d)
    \/ WebhookNotOk(d)
    \/ RetryNotification(d)

DeliveryFault(d) ==
    \/ SendNotificationFails(d)
    \/ WebhookOkFails(d)
    \/ RetryNotificationFails(d)

-----------------------------------------------------------------------------
(* Properties.                                                             *)

\* A notification is never under way twice: at most one timer or task exists
\* for it, addTimeout never meets a registered id, and no timer goes off without
\* its callback (scheduleSendNotification, ScheduleService.wrapCallback).
DeliverySingleFlight ==
    /\ \A d, e \in deliveries : d.note = e.note => d = e
    /\ \A d \in deliveries : nTimeouts[d.note] = 0
    /\ \A n \in Notes : nTimeouts[n] = (IF n \in nRegistry THEN 1 ELSE 0)

\* The receiver sees a notification at most as often as the row was given tries,
\* whatever fails; without failures Failed means every try was used and none was
\* accepted (sendNotification, retry).
DeliveryBudget ==
    \A n \in Notes :
        /\ sent[n] <= InitialTries
        /\ faults = 0 /\ notes[n].status = "failed" => sent[n] = InitialTries /\ n \notin acked

\* A final status is true: Acknowledged means the URL answered 200, Orphaned that
\* the subscription had expired first; without failures a notification with a
\* final status has no timer and no task left that could overwrite it
\* (handleWebhookResponse, sendNotification).
FinalStatusIsTrue ==
    \A n \in Notes :
        /\ notes[n].status = "acknowledged" => n \in acked
        /\ notes[n].status = "orphaned" => SubOf(n) \in expired
        /\ faults = 0 /\ notes[n].status \in {"acknowledged", "orphaned", "failed"} =>
             nTimeouts[n] = 0 /\ \A d \in deliveries : d.note # n

\* While repository calls succeed and the process stays up, every notification
\* gets a final status (the retry chain never breaks off).
DeliverySettles ==
    \A n \in Notes :
        notes[n].status = "active" ~> notes[n].status # "active" \/ faults > 0

\* The delivery of a notification seen as a job of module Retries.
DeliveryPhase(n) ==
    IF ~Noted(n) THEN "none"
    ELSE IF nTimeouts[n] > 0 THEN "waiting"
    ELSE IF \E d \in deliveries : d.note = n THEN "trying" ELSE "over"

DeliveryVerdict(n) ==
    IF notes[n].status = "acknowledged" THEN "succeeded"
    ELSE IF notes[n].status = "failed" THEN "exhausted"
    ELSE IF notes[n].status = "orphaned" THEN "dropped" ELSE "none"

DeliveryChain == INSTANCE Retries WITH
    Jobs <- Notes, Tries <- InitialTries,
    phase <- [n \in Notes |-> DeliveryPhase(n)],
    attempts <- sent,
    verdict <- [n \in Notes |-> DeliveryVerdict(n)]

DeliveryMoves ==
    DeliveryChain!Next \/ (faults' > 0 /\ DeliveryChain!MoveOrRest)

\* The timers, tasks and rows of notifications implement Retries, like those of
\* handshakes: also when a restart forgets the timers and tasks of every row
\* (scheduleSendNotification, sendNotification, retry).
DeliveryRetries == DeliveryChain!Init /\ [][DeliveryMoves]_(DeliveryChain!vars)
=============================================================================
