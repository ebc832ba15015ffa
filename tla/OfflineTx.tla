------------------------------ MODULE OfflineTx ------------------------------
(***************************************************************************)
(* Process mode AMQP: OfflineStarterService puts a signable payload on     *)
(* Requests, OfflineSignerService signs it onto Signatures,                *)
(* OfflineSubmitterService records it in offline_tx, submits it to the     *)
(* chain, publishes the result on Finalizations and marks the row          *)
(* Finalized; OfflineRecorderService writes every message to               *)
(* offline_event.                                                          *)
(*                                                                         *)
(* All transactions are signed by one account, which others use as well.   *)
(* The chain (external) includes a transaction when its nonce is the       *)
(* account's next one.  The repository is the Postgres one: createTx saves under the id   *)
(* of the message, over an existing row.                                   *)
(***************************************************************************)
EXTENDS Artemis

CONSTANTS
    Others,       \* transactions of the account that another program submits
    MaxTroubles   \* bound: failing sends, queries and signatures, and worker stops

ASSUME OthersAssumption == Others \cap Txs = {}
ASSUME BoundsAssumption == MaxTroubles \in Nat

VARIABLES
    receipt,      \* what the caller of beginTransaction knows
    nonce,        \* the nonce in the payload
    mempool,      \* transactions broadcast and not yet included
    chain,        \* transactions of the account the chain has included
    offlineTx,    \* status of the offline_tx row
    updates,      \* updateTx calls in flight (not awaited by submit)
    offlineEvents,\* offline_event rows: how many there are for each recorded message
    faults,       \* history: calls that failed
    crashes       \* history: workers that stopped

workVars == <<receipt, nonce, mempool, chain, offlineTx, updates, offlineEvents, faults, crashes>>
vars == <<brokerVars, workVars>>

Init ==
    /\ BrokerInit
    /\ receipt = [t \in Txs |-> "new"]
    /\ nonce = [t \in Txs |-> 0]
    /\ mempool = {}
    /\ chain = {}
    /\ offlineTx = [t \in Txs |-> "none"]
    /\ updates = {}
    /\ offlineEvents = <<>>
    /\ faults = 0
    /\ crashes = 0

Trouble == faults + crashes < MaxTroubles
Fault == Trouble /\ faults' = faults + 1

\* The account's next nonce.
NextNonce == Cardinality(chain)

-----------------------------------------------------------------------------
(* OfflineStarterService.beginTransaction.                                 *)

\* toSignablePayload takes the account's next nonce from the chain.
BeginTransaction(t) ==
    /\ receipt[t] = "new"
    /\ receipt' = [receipt EXCEPT ![t] = "sending"]
    /\ nonce' = [nonce EXCEPT ![t] = NextNonce]
    /\ UNCHANGED <<brokerVars, mempool, chain, offlineTx, updates, offlineEvents, faults, crashes>>

SendRequest(t) ==
    /\ receipt[t] = "sending"
    /\ Publish("Requests", t)
    /\ receipt' = [receipt EXCEPT ![t] = "receipt"]
    /\ UNCHANGED <<tasks, dlq, nonce, mempool, chain, offlineTx, updates, offlineEvents, faults, crashes>>

SendRequestFails(t) ==
    /\ receipt[t] = "sending"
    /\ Fault
    /\ SendFails("Requests", t)
    /\ receipt' = [receipt EXCEPT ![t] = "error"]
    /\ UNCHANGED <<tasks, dlq, nonce, mempool, chain, offlineTx, updates, offlineEvents, crashes>>

-----------------------------------------------------------------------------
(* The workers.                                                            *)

At(k, queue, pc) == k.msg.queue = queue /\ k.pc = pc

Receive(m) ==
    /\ Deliver(m)
    /\ UNCHANGED workVars

\* OfflineSignerService.autoSign: signPayload, then sendMessage.
Sign(k) ==
    /\ At(k, "Requests", "start")
    /\ Proceed(k, "sending")
    /\ UNCHANGED <<published, ready, dlq, workVars>>

\* signPayload throws: no key of the signing manager matches the address.
SignFails(k) ==
    /\ At(k, "Requests", "start")
    /\ Fault
    /\ Reject(k)
    /\ UNCHANGED <<published, ready, receipt, nonce, mempool, chain, offlineTx, updates, offlineEvents, crashes>>

\* Mutant: the error of the send is swallowed, so the request is accepted.
MutSendErrorSwallowed(k) ==
    /\ At(k, "Requests", "sending")
    /\ Fault
    /\ SendFails("Signatures", k.msg.tx)
    /\ Accept(k)
    /\ UNCHANGED <<receipt, nonce, mempool, chain, offlineTx, updates, offlineEvents, crashes>>

SendSignature(k) ==
    /\ At(k, "Requests", "sending")
    /\ Publish("Signatures", k.msg.tx)
    /\ Proceed(k, "sent")
    /\ UNCHANGED <<dlq, workVars>>

\* The send has returned, and so does autoSign.
SignatureSent(k) ==
    /\ At(k, "Requests", "sent")
    /\ Accept(k)
    /\ UNCHANGED <<published, ready, workVars>>

SendSignatureFails(k) ==
    /\ At(k, "Requests", "sending")
    /\ Fault
    /\ SendFails("Signatures", k.msg.tx)
    /\ Reject(k)
    /\ UNCHANGED <<receipt, nonce, mempool, chain, offlineTx, updates, offlineEvents, crashes>>

\* Mutant: the row is written as if the transaction had been submitted.
MutCreateTxFinalized(k) ==
    /\ At(k, "Signatures", "start")
    /\ offlineTx' = [offlineTx EXCEPT ![k.msg.tx] = "Finalized"]
    /\ Proceed(k, "submitting")
    /\ UNCHANGED <<published, ready, dlq, receipt, nonce, mempool, chain, updates, offlineEvents, faults, crashes>>

\* OfflineSubmitterService.submit up to submitTransaction: createTx saves the
\* row as Signed.
CreateTx(k) ==
    /\ At(k, "Signatures", "start")
    /\ offlineTx' = [offlineTx EXCEPT ![k.msg.tx] = "Signed"]
    /\ Proceed(k, "submitting")
    /\ UNCHANGED <<published, ready, dlq, receipt, nonce, mempool, chain, updates, offlineEvents, faults, crashes>>

\* createTx throws, with the row saved or not.
CreateTxFails(k) ==
    /\ At(k, "Signatures", "start")
    /\ Fault
    /\ offlineTx' \in {offlineTx, [offlineTx EXCEPT ![k.msg.tx] = "Signed"]}
    /\ Reject(k)
    /\ UNCHANGED <<published, ready, receipt, nonce, mempool, chain, updates, offlineEvents, crashes>>

\* submitTransaction: the node takes a transaction it does not know yet and
\* whose nonce is not used up; otherwise the call throws.
Broadcast(k) ==
    /\ At(k, "Signatures", "submitting")
    /\ IF k.msg.tx \notin mempool /\ nonce[k.msg.tx] >= NextNonce
       THEN /\ mempool' = mempool \cup {k.msg.tx}
            /\ Proceed(k, "awaiting")
            /\ UNCHANGED dlq
       ELSE Reject(k) /\ UNCHANGED mempool
    /\ UNCHANGED <<published, ready, receipt, nonce, chain, offlineTx, updates, offlineEvents, faults, crashes>>

\* The chain includes a transaction, or drops one whose nonce was used meanwhile.
Include(t) ==
    /\ t \in mempool
    /\ mempool' = mempool \ {t}
    /\ chain' = IF nonce[t] = NextNonce THEN chain \cup {t} ELSE chain
    /\ UNCHANGED <<brokerVars, receipt, nonce, offlineTx, updates, offlineEvents, faults, crashes>>

\* Somebody else uses the account.
IncludeOther(o) ==
    /\ o \notin chain
    /\ chain' = chain \cup {o}
    /\ UNCHANGED <<brokerVars, receipt, nonce, mempool, offlineTx, updates, offlineEvents, faults, crashes>>

\* submitTransaction resolves with the finalized block, or throws.
SubmitReturns(k) ==
    /\ At(k, "Signatures", "awaiting")
    /\ k.msg.tx \notin mempool
    /\ IF k.msg.tx \in chain
       THEN Proceed(k, "publishing") /\ UNCHANGED dlq
       ELSE Reject(k)
    /\ UNCHANGED <<published, ready, workVars>>

\* The connection to the node breaks before or after the broadcast.
SubmitFails(k) ==
    /\ At(k, "Signatures", "submitting") \/ At(k, "Signatures", "awaiting")
    /\ Fault
    /\ Reject(k)
    /\ UNCHANGED <<published, ready, receipt, nonce, mempool, chain, offlineTx, updates, offlineEvents, crashes>>

\* Mutant: the row is updated although nothing was published.
MutFinalizationNotSent(k) ==
    /\ At(k, "Signatures", "publishing")
    /\ Proceed(k, "published")
    /\ UNCHANGED <<published, ready, dlq, workVars>>

PublishFinalization(k) ==
    /\ At(k, "Signatures", "publishing")
    /\ Publish("Finalizations", k.msg.tx)
    /\ Proceed(k, "published")
    /\ UNCHANGED <<dlq, workVars>>

\* Mutant: the row is never updated.
MutNoUpdate(k) ==
    /\ At(k, "Signatures", "published")
    /\ Accept(k)
    /\ UNCHANGED <<published, ready, workVars>>

\* The finalization is out, updateTx is called and not awaited, and the
\* listener returns.
FinalizationSent(k) ==
    /\ At(k, "Signatures", "published")
    /\ updates' = updates \cup {k.msg.tx}
    /\ Accept(k)
    /\ UNCHANGED <<published, ready, receipt, nonce, mempool, chain, offlineTx, offlineEvents, faults, crashes>>

\* The send throws: the message is rejected and the row is not updated.
PublishFinalizationFails(k) ==
    /\ At(k, "Signatures", "publishing")
    /\ Fault
    /\ SendFails("Finalizations", k.msg.tx)
    /\ Reject(k)
    /\ UNCHANGED <<receipt, nonce, mempool, chain, offlineTx, updates, offlineEvents, crashes>>

UpdateTx(t) ==
    /\ t \in updates
    /\ updates' = updates \ {t}
    /\ offlineTx' = [offlineTx EXCEPT ![t] = "Finalized"]
    /\ UNCHANGED <<brokerVars, receipt, nonce, mempool, chain, offlineEvents, faults, crashes>>

\* Nobody awaits the update, so nobody learns of its failure.
UpdateTxFails(t) ==
    /\ t \in updates
    /\ Fault
    /\ updates' = updates \ {t}
    /\ offlineTx' \in {offlineTx, [offlineTx EXCEPT ![t] = "Finalized"]}
    /\ UNCHANGED <<brokerVars, receipt, nonce, mempool, chain, offlineEvents, crashes>>

\* OfflineRecorderService.recordEvent.
Entry(m) == <<m.addr, m.tx, m.copy>>
Rows(e) == IF e \in DOMAIN offlineEvents THEN offlineEvents[e] ELSE 0
RowAdded(e) == [x \in DOMAIN offlineEvents \cup {e} |-> Rows(x) + (IF x = e THEN 1 ELSE 0)]

\* Mutant: the message is accepted before it is stored.
MutRecordAcceptsFirst(k) ==
    /\ At(k, "EventsLog", "start")
    /\ Accept(k)
    /\ UNCHANGED <<published, ready, workVars>>

RecordEvent(k) ==
    /\ At(k, "EventsLog", "start")
    /\ offlineEvents' = RowAdded(Entry(k.msg))
    /\ Proceed(k, "recorded")
    /\ UNCHANGED <<published, ready, dlq, receipt, nonce, mempool, chain, offlineTx, updates, faults, crashes>>

\* recordEvent throws, with the row saved or not.
RecordEventFails(k) ==
    /\ At(k, "EventsLog", "start")
    /\ Fault
    /\ offlineEvents' \in {offlineEvents, RowAdded(Entry(k.msg))}
    /\ Reject(k)
    /\ UNCHANGED <<published, ready, receipt, nonce, mempool, chain, offlineTx, updates, crashes>>

EventRecorded(k) ==
    /\ At(k, "EventsLog", "recorded")
    /\ Accept(k)
    /\ UNCHANGED <<published, ready, workVars>>

\* A worker process stops; the submitter's pending updates are lost with it.  The
\* stop of an idle worker changes nothing.
Crash(q) ==
    /\ Trouble
    /\ Unsettled(q) # {} \/ (q = "Signatures" /\ updates # {})
    /\ crashes' = crashes + 1
    /\ WorkerStops(q)
    /\ updates' = IF q = "Signatures" THEN {} ELSE updates
    /\ UNCHANGED <<receipt, nonce, mempool, chain, offlineTx, offlineEvents, faults>>

-----------------------------------------------------------------------------

WorkerStep(k) ==
    \/ Sign(k) \/ SendSignature(k) \/ SignatureSent(k)
    \/ CreateTx(k) \/ Broadcast(k) \/ SubmitReturns(k)
    \/ PublishFinalization(k) \/ FinalizationSent(k)
    \/ RecordEvent(k) \/ EventRecorded(k)

WorkerFails(k) ==
    \/ SignFails(k) \/ SendSignatureFails(k)
    \/ CreateTxFails(k) \/ SubmitFails(k) \/ PublishFinalizationFails(k)
    \/ RecordEventFails(k)

Next ==
    \/ \E t \in Txs :
         \/ BeginTransaction(t) \/ SendRequest(t) \/ SendRequestFails(t)
         \/ Include(t)
         \/ UpdateTx(t) \/ UpdateTxFails(t)
    \/ \E o \in Others : IncludeOther(o)
    \/ \E m \in ready : Receive(m)
    \/ \E k \in tasks : WorkerStep(k) \/ WorkerFails(k)
    \/ \E q \in QueueName : Crash(q)

Spec == Init /\ [][Next]_vars

\* The broker hands out its messages, listeners and queries make progress and
\* the chain produces blocks.
Fairness ==
    /\ \A t \in Txs : WF_vars(SendRequest(t)) /\ WF_vars(Include(t)) /\ WF_vars(UpdateTx(t))
    /\ WF_vars(\E m \in ready : Receive(m))
    /\ WF_vars(\E k \in tasks : WorkerStep(k))

FairSpec == Spec /\ Fairness

-----------------------------------------------------------------------------
(* Properties.                                                             *)

Pending == ready \cup {k.msg : k \in tasks}

\* A transaction the caller has a receipt for is never silently lost: it is on a
\* queue, in the hands of a worker, among the dead letters or on the chain,
\* however workers stop and sends fail (accept after the next send only).
ReceiptIsHonoured ==
    \A t \in Txs : receipt[t] = "receipt" =>
        \/ \E m \in Pending \cup dlq : m.tx = t /\ m.queue # "EventsLog"
        \/ t \in chain

\* The audit log is complete: a published message is recorded, on its way to the
\* recorder or among the dead letters (diverts, recordEvent before accept); while
\* no recorder stops it is recorded once.
AuditLogComplete ==
    \A a \in AddressName, t \in Txs : \A c \in 1..published[a][t] :
        /\ \/ Rows(<<a, t, c>>) > 0
           \/ \E m \in Pending \cup dlq :
                m.queue = "EventsLog" /\ Entry(m) = <<a, t, c>>
        /\ crashes = 0 => Rows(<<a, t, c>>) <= 1

\* offline_tx never claims more than happened: a Finalized row and a published
\* finalization mean that the transaction is on the chain, and a transaction
\* reaches the chain only with its row written (order of submit); while nothing
\* fails, a row stays Signed only if the chain has rejected the transaction.
OfflineTxIsTrue ==
    \A t \in Txs :
        /\ offlineTx[t] = "Finalized" \/ published["Finalizations"][t] > 0 => t \in chain
        /\ t \in mempool \cup chain => offlineTx[t] # "none"
        /\ offlineTx[t] = "Signed" /\ faults + crashes = 0
             => \/ t \in updates \cup mempool
                \/ \E m \in Pending : m.tx = t /\ m.queue # "EventsLog"
                \/ t \notin chain

\* As long as nothing fails and no worker stops, a transaction with a receipt is
\* finalized in offline_tx, or rejected by the chain onto the dead letters
\* because another one took its nonce.
ReceiptIsSettled ==
    \A t \in Txs :
        receipt[t] = "receipt" ~>
            \/ offlineTx[t] = "Finalized"
            \/ \E m \in dlq : m.tx = t
            \/ faults + crashes > 0

-----------------------------------------------------------------------------
(* The stages of a transaction.                                            *)

Sent(a) == {t \in Txs : published[a][t] > 0}

Flow == INSTANCE OfflineFlow WITH
    requested <- Sent("Requests"), signed <- Sent("Signatures"), row <- offlineTx,
    included <- chain \cap Txs, announced <- Sent("Finalizations")

FlowMoves == Flow!Next \/ (crashes > 0 /\ \E t \in Txs : Flow!Resave(t))

\* Whatever fails, is redelivered or handled twice, the services take every
\* transaction through the stages of OfflineFlow and skip none.  Only after a worker
\* has stopped may a signature be handled again and turn a Finalized row back to
\* Signed (order of the calls in autoSign and submit; createTx saves over the row).
StagesInOrder == Flow!Init /\ [][FlowMoves]_(Flow!vars)
=============================================================================
