---------------------------- MODULE LocalMessages ----------------------------
(***************************************************************************)
(* Process mode AMQP without a broker: LocalMessageService, the in-memory  *)
(* bus that is used when Artemis is not configured, with the offline       *)
(* services as its listeners and the local repositories.  sendMessage      *)
(* waits until every handler has validated the message and called its      *)
(* listener, never for the listener to end; the error of a listener is     *)
(* logged as an unhandled rejection.  A listener that publishes waits for  *)
(* its own sendMessage.                                                    *)
(***************************************************************************)
EXTENDS Naturals, FiniteSets

CONSTANTS
  Txs,       \* internal transaction ids
  Malformed  \* those for which the signing manager returns no string

ASSUME MalformedAssumption == Malformed \subseteq Txs

VARIABLES
  sends,     \* sends[t][a]: state of sendMessage for t on address a
  handlers,  \* handlers[t][a][l]: state of the handler of listener l for that message
  ids,       \* ids[t][a]: id in the receipt
  _id,       \* the next id
  row,       \* status in LocalOfflineTxRepo
  events,    \* messages in LocalOfflineEventRepo
  chain      \* transactions on the chain (external)

vars == <<sends, handlers, ids, _id, row, events, chain>>

AddressName == {"Requests", "Signatures", "Finalizations"}
Listeners == {"autoSign", "submit", "recordEvent"}

\* The listeners of the queue of an address, and those of EventsLog.
addressToQueue(a) ==
  CASE a = "Requests" -> {"autoSign", "recordEvent"}
    [] a = "Signatures" -> {"submit", "recordEvent"}
    [] OTHER -> {"recordEvent"}

Init ==
  /\ sends = [t \in Txs |-> [a \in AddressName |-> "none"]]
  /\ handlers = [t \in Txs |-> [a \in AddressName |-> [l \in Listeners |-> "none"]]]
  /\ ids = [t \in Txs |-> [a \in AddressName |-> 0]]
  /\ _id = 1
  /\ row = [t \in Txs |-> "none"]
  /\ events = {}
  /\ chain = {}

\* sendMessage, up to its await.
Publish(t, a) == sends' = [sends EXCEPT ![t][a] = "open"]

\* What the handlers become: each begins to validate its own copy of the message.
Called(t, a) ==
  [handlers[t] EXCEPT ![a] = [l \in Listeners |-> IF l \in addressToQueue(a) THEN "validating" ELSE "none"]]

\* beginTransaction
BeginTransaction(t) ==
  /\ sends[t]["Requests"] = "none"
  /\ Publish(t, "Requests")
  /\ handlers' = [handlers EXCEPT ![t] = Called(t, "Requests")]
  /\ UNCHANGED <<ids, _id, row, events, chain>>

\* Mutant: handlers run one after the other.
MutInTurn(t, a, l) ==
  /\ handlers[t][a][l] = "validating"
  /\ l = "recordEvent" => \A k \in Listeners \ {l} : handlers[t][a][k] \notin {"validating", "invalid"}

MayValidate(t, a, l) == handlers[t][a][l] = "validating"

\* The handler of registerListener: validation, then the listener up to its first
\* await.  recordEvent and createTx of the local repositories are done by then (with
\* Postgres, which this module leaves out, they would end after the receipt).
Validate(t, a, l) ==
  /\ MayValidate(t, a, l)
  /\ \/ /\ l = "submit" /\ t \in Malformed
        /\ handlers' = [handlers EXCEPT ![t][a][l] = "invalid"]
        /\ UNCHANGED <<row, events>>
     \/ /\ l = "submit" /\ t \notin Malformed
        /\ handlers' = [handlers EXCEPT ![t][a][l] = "started"]
        /\ row' = [row EXCEPT ![t] = "Signed"]
        /\ UNCHANGED events
     \/ /\ l = "autoSign"
        /\ handlers' = [handlers EXCEPT ![t][a][l] = "started"]
        /\ UNCHANGED <<row, events>>
     \/ /\ l = "recordEvent"
        /\ handlers' = [handlers EXCEPT ![t][a][l] = "done"]
        /\ events' = events \cup {<<t, a>>}
        /\ UNCHANGED row
  /\ UNCHANGED <<sends, ids, _id, chain>>

\* Mutant: the handlers are not awaited.
MutNotAwaited(t, a) == TRUE

\* Promise.all is fulfilled.
AllHandled(t, a) ==
  \A l \in addressToQueue(a) : handlers[t][a][l] \notin {"validating", "invalid"}

ReceiptId(a) == _id

Resolve(t, a) ==
  /\ sends[t][a] = "open" /\ AllHandled(t, a)
  /\ sends' = [sends EXCEPT ![t][a] = "receipt"]
  /\ ids' = [ids EXCEPT ![t][a] = ReceiptId(a)]
  /\ _id' = _id + 1
  /\ UNCHANGED <<handlers, row, events, chain>>

\* One handler threw; the others go on.
RejectSend(t, a) ==
  /\ sends[t][a] = "open"
  /\ \E l \in addressToQueue(a) : handlers[t][a][l] = "invalid"
  /\ sends' = [sends EXCEPT ![t][a] = "rejected"]
  /\ UNCHANGED <<handlers, ids, _id, row, events, chain>>

SetHandler(t, a, l, s) == handlers' = [handlers EXCEPT ![t][a][l] = s]

\* autoSign: the signing manager answers.
Sign(t) ==
  /\ handlers[t]["Requests"]["autoSign"] = "started"
  /\ \/ /\ handlers' = [handlers EXCEPT ![t] = [Called(t, "Signatures") EXCEPT !["Requests"]["autoSign"] = "sending"]]
        /\ Publish(t, "Signatures")
     \/ SetHandler(t, "Requests", "autoSign", "failed") /\ UNCHANGED sends
  /\ UNCHANGED <<ids, _id, row, events, chain>>

Signed(t) ==
  /\ handlers[t]["Requests"]["autoSign"] = "sending"
  /\ \/ sends[t]["Signatures"] = "receipt" /\ SetHandler(t, "Requests", "autoSign", "done")
     \/ sends[t]["Signatures"] = "rejected" /\ SetHandler(t, "Requests", "autoSign", "failed")
  /\ UNCHANGED <<sends, ids, _id, row, events, chain>>

\* submit: the chain finalizes the transaction, or submitTransaction throws.
SubmitTransaction(t) ==
  /\ handlers[t]["Signatures"]["submit"] = "started"
  /\ \/ /\ chain' = chain \cup {t}
        /\ handlers' = [handlers EXCEPT ![t] = [Called(t, "Finalizations") EXCEPT !["Signatures"]["submit"] = "sending"]]
        /\ Publish(t, "Finalizations")
     \/ /\ chain' \in {chain, chain \cup {t}}
        /\ SetHandler(t, "Signatures", "submit", "failed")
        /\ UNCHANGED sends
  /\ UNCHANGED <<ids, _id, row, events>>

Finalized(t) ==
  /\ handlers[t]["Signatures"]["submit"] = "sending" /\ sends[t]["Finalizations"] = "receipt"
  /\ SetHandler(t, "Signatures", "submit", "done")
  /\ row' = [row EXCEPT ![t] = "Finalized"]
  /\ UNCHANGED <<sends, ids, _id, events, chain>>

Work(t) ==
  \/ \E a \in AddressName :
       \/ \E l \in Listeners : Validate(t, a, l)
       \/ Resolve(t, a) \/ RejectSend(t, a)
  \/ Sign(t) \/ Signed(t) \/ SubmitTransaction(t) \/ Finalized(t)

Next == \E t \in Txs : BeginTransaction(t) \/ Work(t)

\* The event loop runs what is ready; the signing manager and the chain answer.
Spec == Init /\ [][Next]_vars /\ \A t \in Txs : WF_vars(Work(t))
---------------------------------------------------------------------------
\* A receipt means that the message was taken over under an id of its own: it is in
\* the audit log, and the listener of its queue has been called, up to its first await.
ReceiptMeansTakenOver ==
  \A t \in Txs : \A a \in AddressName :
    sends[t][a] = "receipt"
      => /\ <<t, a>> \in events
         /\ a = "Requests" => handlers[t][a]["autoSign"] \in {"started", "sending", "done", "failed"}
         /\ a = "Signatures" => row[t] # "none"
         /\ \A u \in Txs : \A b \in AddressName :
              sends[u][b] = "receipt" /\ ids[u][b] = ids[t][a] => u = t /\ b = a

\* Every message is recorded, also one that another handler refuses, and a transaction
\* with a receipt is finalized, or one of its listeners failed: no handler, and no two
\* services, wait for each other (sendMessage, the handlers of registerListener).
LocalMessagesSettle ==
  /\ \A t \in Txs : \A a \in AddressName : sends[t][a] # "none" ~> <<t, a>> \in events
  /\ \A t \in Txs :
       sends[t]["Requests"] = "receipt"
         ~> /\ handlers[t]["Requests"]["autoSign"] \in {"done", "failed"}
            /\ \/ row[t] = "Finalized" /\ t \in chain
               \/ handlers[t]["Requests"]["autoSign"] = "failed"
               \/ handlers[t]["Signatures"]["submit"] = "failed"

---------------------------------------------------------------------------
SentOn(a) == {t \in Txs : sends[t][a] # "none"}

Flow == INSTANCE OfflineFlow WITH
  requested <- SentOn("Requests"), signed <- SentOn("Signatures"),
  included <- chain, announced <- SentOn("Finalizations")

\* The in-memory bus takes every transaction through the stages of OfflineFlow, as the
\* broker does: no signature without a request, no row without a signature, nothing on
\* the chain without a row, and Finalized last (autoSign, submit).
LocalStagesInOrder == Flow!Spec
=============================================================================
