------------------------------ MODULE Webhooks ------------------------------
(***************************************************************************)
(* TransactionsService (process mode submitWithCallback) and EventsService *)
(* on top of subscriptions and notifications: a submission gets an         *)
(* internal id, a status listener and a subscription whose scope is that   *)
(* id; every status change the SDK reports becomes an event, the event     *)
(* becomes a notification of every Active subscription to the scope, and a *)
(* terminal status releases the listener and marks the subscriptions Done. *)
(*                                                                         *)
(* A submission creates exactly one subscription, so one set names both.   *)
(* An event is named by its submission and the status it reports.          *)
(*                                                                         *)
(* Status handlers are not serialised: a handler awaits queries, and the   *)
(* SDK does not wait for it.  With the local store every repository        *)
(* promise is already resolved, so a handler runs to its end in microtasks *)
(* before any timer, response or further status change is processed.       *)
(***************************************************************************)
EXTENDS Notifications

CONSTANTS
    StatusSteps,    \* the part of SdkSteps the transactions of this instance take
    MultiSigTxs,    \* submissions whose signer is a MultiSig signer
    MaxRestarts     \* bound: process restarts in a behaviour

\* TransactionStatus of the SDK (external) and the changes it reports.
SdkSteps ==
    {<<"Idle", "Unapproved">>, <<"Unapproved", "Rejected">>, <<"Unapproved", "Aborted">>,
     <<"Unapproved", "Running">>, <<"Running", "Succeeded">>, <<"Running", "Failed">>,
     <<"Running", "Aborted">>}

TransactionStatus ==
    {"Idle", "Unapproved", "Running", "Succeeded", "Failed", "Aborted", "Rejected"}

TerminalStatus == {"Succeeded", "Failed", "Aborted", "Rejected"}

TxEvents == Subs \X (TransactionStatus \ {"Idle"})

ASSUME WebhooksAssumption ==
    /\ StatusSteps \subseteq SdkSteps
    /\ MultiSigTxs \subseteq Subs
    /\ IsFiniteSet(Subs) /\ 0..Cardinality(Subs) \subseteq Scopes
    /\ Events \subseteq TxEvents
    /\ \A s \in Subs, step \in StatusSteps : <<s, step[2]>> \in Events

VARIABLES
    request,            \* progress of submitAndSubscribe, per submission
    txStatus,           \* status of the SDK's transaction object
    currentId,          \* TransactionsService.currentId
    txId,               \* the internal id a submission was given (0: none)
    transactionStore,   \* submissions with a live status listener
    handlers,           \* running handleTransactionStatusChange calls
    processed,          \* events marked as processed
    restarts            \* history: process restarts

txVars == <<request, txStatus, currentId, txId, transactionStore, handlers, processed, restarts>>
vars == <<subVars, noteVars, txVars>>

RequestState == {"new", "subscribing", "numbering", "running", "responded", "failed"}

Handler ==
    [event: Events,
     pc: {"finding", "bumping", "creating", "processing", "ending", "marking"},
     ids: SUBSET Subs,          \* the affected subscriptions still to be treated
     nonces: [Subs -> Nat],     \* their nextNonce as findAll returned it
     failed: BOOLEAN]           \* one of the parallel promises was rejected

TxTypeOK ==
    /\ request \in [Subs -> RequestState]
    /\ txStatus \in [Subs -> TransactionStatus]
    /\ currentId \in Nat
    /\ txId \in [Subs -> Nat]
    /\ transactionStore \subseteq Subs
    /\ handlers \subseteq Handler
    /\ processed \subseteq Events
    /\ restarts \in Nat

TypeOK == SubTypeOK /\ NoteTypeOK /\ TxTypeOK

TxOf(e) == e[1]
StatusOf(e) == e[2]

TxInit ==
    /\ request = [s \in Subs |-> "new"]
    /\ txStatus = [s \in Subs |-> "Idle"]
    /\ currentId = 0
    /\ txId = [s \in Subs |-> 0]
    /\ transactionStore = {}
    /\ handlers = {}
    /\ processed = {}
    /\ restarts = 0

Init == SubInit /\ NoteInit /\ TxInit

\* No microtasks are pending: the event loop may take up a timer, a request, a
\* response or a message of the chain.
EventLoopFree ==
    \/ Store = "postgres"
    \/ handlers = {} /\ \A s \in Subs : request[s] \notin {"subscribing", "numbering"}

-----------------------------------------------------------------------------
(* submitAndSubscribe.                                                     *)

Request(s, from, to) ==
    /\ request[s] = from
    /\ request' = [request EXCEPT ![s] = to]

\* addListener: the next internal id, onStatusChange, the store entry; then
\* createSubscription is called.
AddListener(s) ==
    /\ EventLoopFree
    /\ Request(s, "new", "subscribing")
    /\ currentId' = currentId + 1
    /\ txId' = [txId EXCEPT ![s] = currentId + 1]
    /\ transactionStore' = transactionStore \cup {s}
    /\ UNCHANGED <<subVars, noteVars, txStatus, handlers, processed, restarts>>

Subscribe(s) ==
    /\ Request(s, "subscribing", "numbering")
    /\ CreateSubscription(s, txId[s])
    /\ UNCHANGED <<noteVars, txStatus, currentId, txId, transactionStore, handlers, processed, restarts>>

\* createSubscription rejects: so does the request, and nothing removes the
\* listener again.
SubscribeFails(s) ==
    /\ Request(s, "subscribing", "failed")
    /\ CreateSubscriptionFails(s, txId[s])
    /\ UNCHANGED <<noteVars, txStatus, currentId, txId, transactionStore, handlers, processed, restarts>>

\* The response is the notification with nonce 0, so the nonce starts at 1; the
\* transaction is run next.
StartNonceAtOne(s) ==
    /\ Request(s, "numbering", "running")
    /\ UpdateNextNonce(s, 1)
    /\ UNCHANGED <<faults, noteVars, txStatus, currentId, txId, transactionStore, handlers, processed, restarts>>

StartNonceAtOneFails(s) ==
    /\ Request(s, "numbering", "failed")
    /\ Fault
    /\ UpdateNextNonce(s, 1) \/ UNCHANGED <<subs, expired, handshakes, hsTimeouts, hsRegistry, started, confirmed>>
    /\ UNCHANGED <<noteVars, txStatus, currentId, txId, transactionStore, handlers, processed, restarts>>

\* run() is not awaited.  runAsProposal() is: it ends with the transaction, or
\* before it was even signed with an error that is only logged.
Respond(s) ==
    /\ EventLoopFree
    /\ s \in MultiSigTxs => txStatus[s] \in TerminalStatus \cup {"Idle"}
    /\ Request(s, "running", "responded")
    /\ UNCHANGED <<subVars, noteVars, txStatus, currentId, txId, transactionStore, handlers, processed, restarts>>

-----------------------------------------------------------------------------
(* The SDK changes the status of a transaction that was run and calls the  *)
(* listener; createEvent stores the event and asks for the subscriptions.  *)

NewHandler(e) ==
    [event |-> e, pc |-> "finding", ids |-> {}, nonces |-> [s \in Subs |-> 0], failed |-> FALSE]

StatusChange(s) ==
    /\ EventLoopFree
    /\ request[s] = "running" \/ (request[s] = "responded" /\ s \notin MultiSigTxs)
    /\ \E step \in StatusSteps :
         /\ txStatus[s] = step[1]
         /\ txStatus' = [txStatus EXCEPT ![s] = step[2]]
         /\ handlers' = IF s \in transactionStore
                        THEN handlers \cup {NewHandler(<<s, step[2]>>)}
                        ELSE handlers
    /\ UNCHANGED <<subVars, noteVars, request, currentId, txId, transactionStore, processed, restarts>>

EndHandler(h) == handlers' = handlers \ {h}
StepHandler(h, g) == handlers' = (handlers \ {h}) \cup {g}
Goto(h, pc) == [h EXCEPT !.pc = pc]

txUnchanged == <<request, txStatus, currentId, txId, restarts>>

Scope(h) == txId[TxOf(h.event)]

MarkEventAsProcessed(e) == processed' = processed \cup {e}

\* Faulty variants used as mutants of the actions below.
MutBumpForgotten(h) ==
    /\ h.pc = "bumping"
    /\ StepHandler(h, Goto(h, "creating"))
    /\ UNCHANGED <<subVars, noteVars, txUnchanged, transactionStore, processed>>

MutProcessKeepsListener(h) ==
    /\ h.pc = "processing"
    /\ MarkEventAsProcessed(h.event)
    /\ EndHandler(h)
    /\ UNCHANGED <<subVars, noteVars, txUnchanged, transactionStore>>

MutProcessReleasesAlways(h) ==
    /\ h.pc = "processing"
    /\ MarkEventAsProcessed(h.event)
    /\ transactionStore' = transactionStore \ {TxOf(h.event)}
    /\ StepHandler(h, Goto(h, "ending"))
    /\ UNCHANGED <<subVars, noteVars, txUnchanged>>

MutCreatedAllNotAwaited(h) ==
    /\ h.pc = "creating"
    /\ StepHandler(h, [h EXCEPT !.pc = "processing", !.ids = {}])
    /\ UNCHANGED <<subVars, noteVars, txUnchanged, transactionStore, processed>>

\* createEventNotifications: the Active, unexpired subscriptions to the scope,
\* with the nonces they have now.
FindAffected(h) ==
    /\ h.pc = "finding"
    /\ LET affected == FindActive(Scope(h)) IN
       StepHandler(h, [h EXCEPT !.pc = IF affected = {} THEN "processing" ELSE "bumping",
                                !.ids = affected,
                                !.nonces = [s \in Subs |-> subs[s].nextNonce]])
    /\ UNCHANGED <<subVars, noteVars, txUnchanged, transactionStore, processed>>

BumpNonces(h) ==
    /\ h.pc = "bumping"
    /\ IncrementNonces(h.ids)
    /\ StepHandler(h, Goto(h, "creating"))
    /\ UNCHANGED <<faults, noteVars, txUnchanged, transactionStore, processed>>

\* createNotifications: one of the parallel inserts.
CreateOne(h, s) ==
    /\ h.pc = "creating"
    /\ s \in h.ids
    /\ CreateNotification(<<h.event, s>>, h.nonces[s])
    /\ StepHandler(h, [h EXCEPT !.ids = @ \ {s}])
    /\ UNCHANGED <<subVars, txUnchanged, transactionStore, processed>>

CreateOneFails(h, s) ==
    /\ h.pc = "creating"
    /\ s \in h.ids
    /\ Fault
    /\ CreateNotificationFails(<<h.event, s>>, h.nonces[s])
    /\ StepHandler(h, [h EXCEPT !.ids = @ \ {s}, !.failed = TRUE])
    /\ UNCHANGED <<subs, expired, handshakes, hsTimeouts, hsRegistry, started, confirmed>>
    /\ UNCHANGED <<txUnchanged, transactionStore, processed>>

\* Promise.all settles: a rejected insert ends the handler.
CreatedAll(h) ==
    /\ h.pc = "creating"
    /\ h.ids = {}
    /\ IF h.failed THEN EndHandler(h) ELSE StepHandler(h, Goto(h, "processing"))
    /\ UNCHANGED <<subVars, noteVars, txUnchanged, transactionStore, processed>>

\* createEvent ends with markEventAsProcessed; a terminal status also unsubscribes the listener and
\* drops the store entry.
MarkProcessed(h) ==
    /\ h.pc = "processing"
    /\ MarkEventAsProcessed(h.event)
    /\ IF StatusOf(h.event) \in TerminalStatus
       THEN /\ transactionStore' = transactionStore \ {TxOf(h.event)}
            /\ StepHandler(h, Goto(h, "ending"))
       ELSE EndHandler(h) /\ UNCHANGED transactionStore
    /\ UNCHANGED <<subVars, noteVars, txUnchanged>>

\* markSubsAsDone: the query, then one update per subscription found.
FindEnding(h) ==
    /\ h.pc = "ending"
    /\ StepHandler(h, [h EXCEPT !.pc = "marking", !.ids = FindActive(Scope(h))])
    /\ UNCHANGED <<subVars, noteVars, txUnchanged, transactionStore, processed>>

MarkOne(h, s) ==
    /\ h.pc = "marking"
    /\ s \in h.ids
    /\ MarkAsDone(s)
    /\ StepHandler(h, [h EXCEPT !.ids = @ \ {s}])
    /\ UNCHANGED <<faults, noteVars, txUnchanged, transactionStore, processed>>

MarkedAll(h) ==
    /\ h.pc = "marking"
    /\ h.ids = {}
    /\ EndHandler(h)
    /\ UNCHANGED <<subVars, noteVars, txUnchanged, transactionStore, processed>>

\* A query of the handler fails: the handler logs the error and ends, whatever
\* it still had to do.  An update may have been written; the updates of the
\* other subscriptions of batchMarkAsDone go on.
HandlerFails(h) ==
    /\ Fault
    /\ \/ /\ h.pc \in {"finding", "ending"}
          /\ EndHandler(h)
          /\ UNCHANGED <<subs, expired, handshakes, hsTimeouts, hsRegistry, started, confirmed>>
       \/ /\ h.pc = "bumping"
          /\ EndHandler(h)
          /\ \/ IncrementNonces(h.ids)
             \/ UNCHANGED <<subs, expired, handshakes, hsTimeouts, hsRegistry, started, confirmed>>
       \/ /\ h.pc = "marking"
          /\ \E s \in h.ids :
               /\ StepHandler(h, [h EXCEPT !.ids = @ \ {s}])
               /\ \/ MarkAsDone(s)
                  \/ UNCHANGED <<subs, expired, handshakes, hsTimeouts, hsRegistry, started, confirmed>>
    /\ UNCHANGED <<noteVars, txUnchanged, transactionStore, processed>>

HandlerStep(h) ==
    \/ FindAffected(h)
    \/ BumpNonces(h)
    \/ \E s \in h.ids : CreateOne(h, s) \/ MarkOne(h, s)
    \/ CreatedAll(h)
    \/ MarkProcessed(h)
    \/ FindEnding(h)
    \/ MarkedAll(h)

-----------------------------------------------------------------------------
(* The process ends and starts again on the same database: timers, tasks,  *)
(* events, listeners and both id counters are gone, the rows remain.       *)

Restart ==
    /\ Store = "postgres"
    /\ restarts < MaxRestarts
    /\ restarts' = restarts + 1
    /\ HS!ScheduleLost /\ NS!ScheduleLost
    /\ handshakes' = {} /\ deliveries' = {} /\ handlers' = {}
    /\ transactionStore' = {} /\ processed' = {}
    /\ currentId' = 0
    /\ request' = [s \in Subs |->
                     IF request[s] \in {"subscribing", "numbering", "running"}
                     THEN "failed" ELSE request[s]]
    /\ UNCHANGED <<subs, expired, started, confirmed, faults, notes, sent, acked, txStatus, txId>>

-----------------------------------------------------------------------------

Submission(s) == Subscribe(s) \/ StartNonceAtOne(s) \/ Respond(s)
SubmissionFails(s) == SubscribeFails(s) \/ StartNonceAtOneFails(s)

\* The steps of the two lower components, taken from the event loop.
Subscribing(s) ==
    /\ EventLoopFree
    /\ \/ HandshakeTimeout(s)
       \/ \E t \in handshakes : t.sub = s /\ HandshakeStep(t)
    /\ UNCHANGED <<noteVars, txVars>>

SubscribingFails ==
    /\ \E t \in handshakes : HandshakeFault(t)
    /\ UNCHANGED <<noteVars, txVars>>

TimePasses(s) ==
    /\ Expire(s)
    /\ UNCHANGED <<noteVars, txVars>>

Notifying(n) ==
    /\ EventLoopFree
    /\ \/ NotificationTimeout(n)
       \/ \E d \in deliveries : d.note = n /\ DeliveryStep(d)
    /\ UNCHANGED txVars

NotifyingFails ==
    /\ \E d \in deliveries : DeliveryFault(d)
    /\ UNCHANGED txVars

Handling(h) ==
    \/ HandlerStep(h)
    \/ \E s \in h.ids : CreateOneFails(h, s)
    \/ HandlerFails(h)

Next ==
    \/ \E s \in Subs :
         \/ AddListener(s) \/ Submission(s) \/ SubmissionFails(s) \/ StatusChange(s)
         \/ Subscribing(s) \/ TimePasses(s)
    \/ SubscribingFails
    \/ \E n \in Notes : Notifying(n)
    \/ NotifyingFails
    \/ \E h \in handlers : Handling(h)
    \/ Restart

Spec == Init /\ [][Next]_vars

\* What the event loop guarantees: queries return, timers go off, requests end by
\* their timeout.  Nothing is assumed of callers, of the chain or of the clock.
Fairness ==
    /\ \A s \in Subs : WF_vars(Submission(s)) /\ WF_vars(Subscribing(s))
    /\ \A n \in Notes : WF_vars(Notifying(n))
    /\ \A e \in Events : WF_vars(\E h \in handlers : h.event = e /\ HandlerStep(h))

FairSpec == Spec /\ Fairness

-----------------------------------------------------------------------------
(* Properties.                                                             *)

NotesOf(s) == {n \in Notes : SubOf(n) = s /\ Noted(n)}

\* Nothing is sent to a URL that has not returned the handshake secret first,
\* across races, failures and restarts (createEventNotifications).
NotifiedOnlyIfConfirmed == \A s \in Subs : NotesOf(s) # {} => s \in confirmed

\* Every nonce below nextNonce is accounted for: 0 went out with the response,
\* and once the handlers are done there are as many notifications as bumps; a
\* notification never carries a nonce that was not handed out
\* (createEventNotifications, submitAndSubscribe).
NoncesAccountedFor ==
    restarts = 0 =>
    \A s \in Subs :
        /\ \A n \in NotesOf(s) : notes[n].nonce \in 1..(subs[s].nextNonce - 1)
        /\ faults = 0 /\ handlers = {} /\ request[s] \in {"running", "responded"} =>
             Cardinality(NotesOf(s)) = subs[s].nextNonce - 1

Earlier(a, b) ==
    \/ a = "Unapproved" /\ b # "Unapproved"
    \/ a = "Running" /\ b \in TerminalStatus

\* With the local store, nonces order the notifications of a subscription the
\* way the transaction changed its status.
NoncesFollowStatus ==
    \A s \in Subs : \A m, n \in NotesOf(s) :
        Earlier(StatusOf(EventOf(m)), StatusOf(EventOf(n))) => notes[m].nonce < notes[n].nonce

\* A subscription is only finished by the end of its own transaction, whose
\* listener is gone by then, and by an event that was processed (markSubsAsDone).
DoneOnlyAfterTerminal ==
    restarts = 0 =>
    \A s \in Subs :
        subs[s].status = "done" =>
            /\ s \notin transactionStore
            /\ \E e \in processed : TxOf(e) = s /\ StatusOf(e) \in TerminalStatus

\* The listener of a transaction that has ended is released, unless a query of
\* its handler fails (handleTransactionStatusChange).
ListenerReleased ==
    \A s \in Subs :
        txStatus[s] \in TerminalStatus ~> s \notin transactionStore \/ faults > 0

\* Two notifications of a subscription never share a nonce.
NoncesUnique ==
    \A s \in Subs : \A m, n \in NotesOf(s) : m # n => notes[m].nonce # notes[n].nonce

\* Scopes tell transactions apart, restarts included.
ScopesIsolateTransactions ==
    \A s \in Subs : \A n \in NotesOf(s) : TxOf(EventOf(n)) = s
=============================================================================
