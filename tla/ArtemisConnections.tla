------------------------- MODULE ArtemisConnections -------------------------
(***************************************************************************)
(* The connection, senders and receivers of one ArtemisService.  They are  *)
(* made on demand: the first use of the service starts the connection and  *)
(* keeps its promise, the first send on an address makes a sender and      *)
(* keeps it.  Callers wait at several promises, so that two first sends    *)
(* may make a sender each.  The broker may be out of reach for a while.    *)
(* The messages themselves are in module Artemis.                          *)
(*                                                                         *)
(* A caller is a call of sendMessage or of registerListener; the link      *)
(* (sender or receiver) a caller makes is named after it.                  *)
(***************************************************************************)
EXTENDS Naturals, FiniteSets

CONSTANTS
  Calls,        \* calls of sendMessage and registerListener
  AddressName,  \* addresses to send on
  MaxOutages,   \* bound: times the broker is out of reach
  None

ASSUME NoneAssumption == None \notin Calls
ASSUME OutagesAssumption == MaxOutages \in Nat

VARIABLES
  calls,         \* the calls
  connection,    \* state of connectionPromise, and of the connection
  attempts,      \* history: connections started
  addressStore,  \* the link kept for each address
  receivers,     \* links of the list receivers
  links,         \* history: links made
  closed,        \* links close() was called on
  broker,        \* is the broker in reach?
  outages,       \* history: times it was not
  shutdown       \* progress of onApplicationShutdown

vars == <<calls, connection, attempts, addressStore, receivers, links, closed, broker, outages, shutdown>>

\* lucky: the broker was in reach all the time since the call began.
\* before: the sends that had succeeded when the call began.
NoCall == [kind |-> "none", address |-> None, at |-> "idle", link |-> None, lucky |-> FALSE, before |-> {}]

Init ==
  /\ calls = [c \in Calls |-> NoCall]
  /\ connection = "none" /\ attempts = 0
  /\ addressStore = [a \in AddressName |-> None]
  /\ receivers = {} /\ links = {} /\ closed = {}
  /\ broker \in BOOLEAN /\ outages = 0
  /\ shutdown = "no"

Go(c, place) == calls' = [calls EXCEPT ![c].at = place]
Done(call) == call.at \in {"sent", "listening", "failed"}
Sent == {c \in Calls : calls[c].at = "sent"}

\* Mutant: every caller that finds no connection starts one.
MutConnectAgain ==
  IF connection \in {"none", "pending"} THEN connection' = "pending" /\ attempts' = attempts + 1
  ELSE UNCHANGED <<connection, attempts>>

\* The promise is stored before anything is awaited.
getConnection ==
  IF connection = "none" THEN connection' = "pending" /\ attempts' = attempts + 1
  ELSE UNCHANGED <<connection, attempts>>

\* sendMessage, up to its first await.
Send(c) ==
  /\ calls[c].at = "idle"
  /\ \E a \in AddressName :
       LET call == [NoCall EXCEPT !.kind = "send", !.address = a, !.lucky = broker, !.before = Sent]
       IN  \/ /\ addressStore[a] # None
              /\ calls' = [calls EXCEPT ![c] = [call EXCEPT !.at = "send", !.link = addressStore[a]]]
              /\ UNCHANGED <<connection, attempts>>
           \/ /\ addressStore[a] = None
              /\ calls' = [calls EXCEPT ![c] = [call EXCEPT !.at = "connection"]]
              /\ getConnection
  /\ UNCHANGED <<addressStore, receivers, links, closed, broker, outages, shutdown>>

\* registerListener, up to its first await.
Listen(c) ==
  /\ calls[c].at = "idle"
  /\ calls' = [calls EXCEPT ![c] = [NoCall EXCEPT !.kind = "listen", !.at = "connection", !.lucky = broker]]
  /\ getConnection
  /\ UNCHANGED <<addressStore, receivers, links, closed, broker, outages, shutdown>>

\* container.connect (rhea-promise) settles.
Connect ==
  /\ connection = "pending"
  /\ connection' = IF broker THEN "open" ELSE "rejected"
  /\ UNCHANGED <<calls, attempts, addressStore, receivers, links, closed, broker, outages, shutdown>>

\* Mutant: a caller does not hear of a connection that failed.
MutWaitsForever(c) ==
  /\ calls[c].at = "connection" /\ connection \in {"open", "closed"}
  /\ Go(c, "create")
  /\ UNCHANGED <<connection, attempts, addressStore, receivers, links, closed, broker, outages, shutdown>>

\* A caller goes on once the promise is settled; it stays settled as it is.
Connected(c) ==
  /\ calls[c].at = "connection"
  /\ \/ connection \in {"open", "closed"} /\ Go(c, "create")
     \/ connection = "rejected" /\ Go(c, "failed")
  /\ UNCHANGED <<connection, attempts, addressStore, receivers, links, closed, broker, outages, shutdown>>

\* Mutant: the sender is not kept.
MutNotStored(c) ==
  IF calls[c].kind = "send" THEN UNCHANGED <<addressStore, receivers>>
  ELSE receivers' = receivers \cup {c} /\ UNCHANGED addressStore

\* What getAddress and getReceiver keep: a second sender of an address replaces the
\* first.
Keep(c) ==
  IF calls[c].kind = "send" THEN addressStore' = [addressStore EXCEPT ![calls[c].address] = c] /\ UNCHANGED receivers
  ELSE receivers' = receivers \cup {c} /\ UNCHANGED addressStore

\* Mutant: the sender that is replaced is closed.
MutClosesReplaced(c) ==
  /\ calls[c].at = "create" /\ connection = "open" /\ broker
  /\ links' = links \cup {c}
  /\ Keep(c)
  /\ closed' = closed \cup ({addressStore[a] : a \in {calls[c].address} \ {None}} \ {None})
  /\ calls' = [calls EXCEPT ![c] =
                 [@ EXCEPT !.link = c, !.at = IF calls[c].kind = "send" THEN "send" ELSE "listening"]]
  /\ UNCHANGED <<connection, attempts, broker, outages, shutdown>>

\* createAwaitableSender or createReceiver settles.
Create(c) ==
  /\ calls[c].at = "create"
  /\ \/ /\ connection = "open" /\ broker
        /\ links' = links \cup {c}
        /\ Keep(c)
        /\ calls' = [calls EXCEPT ![c] =
                       [@ EXCEPT !.link = c, !.at = IF calls[c].kind = "send" THEN "send" ELSE "listening"]]
     \/ /\ connection # "open" \/ ~broker
        /\ Go(c, "failed")
        /\ UNCHANGED <<links, addressStore, receivers>>
  /\ UNCHANGED <<connection, attempts, closed, broker, outages, shutdown>>

\* sender.send gets the disposition of the broker, or times out after 10 seconds.
Deliver(c) ==
  /\ calls[c].at = "send"
  /\ \/ connection = "open" /\ broker /\ calls[c].link \notin closed /\ Go(c, "sent")
     \/ /\ connection # "open" \/ ~broker \/ calls[c].link \in closed
        /\ Go(c, "failed")
  /\ UNCHANGED <<connection, attempts, addressStore, receivers, links, closed, broker, outages, shutdown>>

Outage ==
  /\ broker /\ outages < MaxOutages
  /\ broker' = FALSE /\ outages' = outages + 1
  /\ calls' = [c \in Calls |-> [calls[c] EXCEPT !.lucky = @ /\ Done(calls[c])]]
  /\ UNCHANGED <<connection, attempts, addressStore, receivers, links, closed, shutdown>>

BrokerReturns ==
  /\ ~broker
  /\ broker' = TRUE
  /\ UNCHANGED <<calls, connection, attempts, addressStore, receivers, links, closed, outages, shutdown>>

\* addressEntries
Entries == {addressStore[a] : a \in AddressName} \ {None}

\* onApplicationShutdown calls close() on what is kept.
CloseLinks ==
  /\ shutdown = "no"
  /\ closed' = receivers \cup Entries
  /\ shutdown' = "links"
  /\ UNCHANGED <<calls, connection, attempts, addressStore, receivers, links, broker, outages>>

\* Every close() settled, with an error or not; the connection is asked for again.
LinksClosed ==
  /\ shutdown = "links"
  /\ getConnection
  /\ shutdown' = "connection"
  /\ UNCHANGED <<calls, addressStore, receivers, links, closed, broker, outages>>

\* Mutant: a connection that is still being made is left alone.
MutPendingSkipped ==
  /\ shutdown = "connection"
  /\ connection' = IF connection = "open" THEN "closed" ELSE connection
  /\ shutdown' = "done"
  /\ UNCHANGED <<calls, attempts, addressStore, receivers, links, closed, broker, outages>>

CloseConnection ==
  /\ shutdown = "connection" /\ connection \in {"open", "rejected"}
  /\ connection' = IF connection = "open" THEN "closed" ELSE connection
  /\ shutdown' = "done"
  /\ UNCHANGED <<calls, attempts, addressStore, receivers, links, closed, broker, outages>>

Step(c) == Connected(c) \/ Create(c) \/ Deliver(c)

Next ==
  \/ \E c \in Calls : Send(c) \/ Listen(c) \/ Step(c)
  \/ Connect \/ Outage \/ BrokerReturns
  \/ CloseLinks \/ LinksClosed \/ CloseConnection

\* Attempts to connect and to make a link succeed or fail; a send has a timeout.
Spec ==
  /\ Init /\ [][Next]_vars
  /\ WF_vars(Connect) /\ WF_vars(LinksClosed) /\ WF_vars(CloseConnection)
  /\ \A c \in Calls : WF_vars(Step(c))
---------------------------------------------------------------------------
\* Sends that follow one another share a sender: a send makes one only if no send on
\* the address had succeeded when it began.
SendersAreReused ==
  \A c \in Calls : calls[c].kind = "send" /\ c \in links
    => \A d \in calls[c].before : calls[d].address # calls[c].address

\* Whatever a shutdown interrupts, no connection is left open after it: not one that was
\* being made when it began, and not an earlier one, as overlapping first calls share
\* the promise of one connection.
ShutdownClosesConnection ==
  shutdown = "done" => connection \in {"closed", "rejected"} /\ attempts = 1

\* Every call ends, and a shutdown that has begun comes to its end.
CallsEnd ==
  /\ \A c \in Calls : calls[c].at \in {"connection", "create", "send"} ~> Done(calls[c])
  /\ shutdown = "links" ~> shutdown = "done"

\* While the broker is in reach and the process is not stopped, a call fails only if
\* the attempt to connect, whose promise is kept, had failed before: calls that share a
\* sender, or replace one another's, do not disturb each other.
FailsOnlyAfterOutage ==
  \A c \in Calls :
    calls[c].at = "failed" /\ calls[c].lucky /\ shutdown = "no" => connection = "rejected"
=============================================================================
