------------------------------ MODULE Artemis ------------------------------
(***************************************************************************)
(* ArtemisService and the broker of compose/broker.xml (external).         *)
(*                                                                         *)
(* sendMessage publishes on an address; the broker routes the message to   *)
(* the queue of the address and, by the diverts, a copy to EventsLog.      *)
(* registerListener hands each message of a queue to the listener, accepts *)
(* it once the listener returns and rejects it when the listener throws or *)
(* the message fails validation.  A rejected message goes to the dead      *)
(* letter queue; one that is unsettled when its worker process stops is    *)
(* delivered again, until max-delivery-attempts.  (A connection that is    *)
(* lost under a listener that goes on running is not modelled.)  A         *)
(* receiver is given credit on arrival and not on settlement, and there    *)
(* may be several worker processes, so messages are handled concurrently   *)
(* and in any order.                                                       *)
(***************************************************************************)
EXTENDS Naturals, FiniteSets

CONSTANTS
    Txs,             \* internal transaction ids (UUIDs)
    MaxDeliveries    \* max-delivery-attempts

ASSUME MaxDeliveriesAssumption == MaxDeliveries \in Nat \ {0}

VARIABLES
    published,   \* published[a][t]: messages published on address a for t
    ready,       \* messages the broker has not handed out; copy tells apart those
                 \* published for one transaction on one address
    tasks,       \* messages a listener is working on, with its progress
    dlq          \* dead letters

brokerVars == <<published, ready, tasks, dlq>>

AddressName == {"Requests", "Signatures", "Finalizations"}
\* The queues somebody listens to: the enum also has Finalizations, which no
\* service registers a listener for.
QueueName == {"Requests", "Signatures", "EventsLog"}

BrokerInit ==
    /\ published = [a \in AddressName |-> [t \in Txs |-> 0]]
    /\ ready = {}
    /\ tasks = {}
    /\ dlq = {}

\* The queues a message of an address is routed to.  Finalizations is a
\* multicast address for consumer applications and has no queue of its own.
Routes(a) == IF a = "Finalizations" THEN {"EventsLog"} ELSE {a, "EventsLog"}

Routed(a, t) ==
    {[queue |-> q, addr |-> a, tx |-> t, copy |-> published[a][t] + 1, deliveries |-> 0] :
        q \in Routes(a)}

\* sendMessage, with the broker's routing.
Publish(a, t) ==
    /\ published' = [published EXCEPT ![a][t] = @ + 1]
    /\ ready' = ready \cup Routed(a, t)

\* sendMessage throws: the connection is down, or the 10 s are over although the
\* broker may have the message.
SendFails(a, t) == Publish(a, t) \/ UNCHANGED <<published, ready>>

Deliver(m) ==
    /\ m \in ready
    /\ ready' = ready \ {m}
    /\ tasks' = tasks \cup {[msg |-> [m EXCEPT !.deliveries = @ + 1], pc |-> "start"]}
    /\ UNCHANGED <<published, dlq>>

Proceed(k, pc) == tasks' = (tasks \ {k}) \cup {[k EXCEPT !.pc = pc]}

\* The listener has returned.
Accept(k) ==
    /\ tasks' = tasks \ {k}
    /\ UNCHANGED dlq

\* The listener has thrown.
Reject(k) ==
    /\ tasks' = tasks \ {k}
    /\ dlq' = dlq \cup {k.msg}

\* The worker process of a queue stops, and its listeners with it: its unsettled messages return to the queue, or
\* to the dead letters when they were delivered too often.
Unsettled(q) == {k.msg : k \in {j \in tasks : j.msg.queue = q}}
Exhausted(m) == m.deliveries >= MaxDeliveries

WorkerStops(q) ==
    /\ tasks' = {k \in tasks : k.msg.queue # q}
    /\ ready' = ready \cup {m \in Unsettled(q) : ~Exhausted(m)}
    /\ dlq' = dlq \cup {m \in Unsettled(q) : Exhausted(m)}
    /\ UNCHANGED published
=============================================================================
