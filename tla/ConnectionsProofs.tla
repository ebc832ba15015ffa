------------------------- MODULE ConnectionsProofs -------------------------
(***************************************************************************)
(* The connection and the senders of ArtemisService, for any number of     *)
(* overlapping calls, addresses and outages of the broker.                 *)
(***************************************************************************)
EXTENDS ArtemisConnections, TLAPS

Places == {"idle", "connection", "create", "send", "sent", "listening", "failed"}

Call ==
  [kind : {"none", "send", "listen"}, address : AddressName \cup {None}, at : Places,
   link : Calls \cup {None}, lucky : BOOLEAN, before : SUBSET Calls]

TypeInv ==
  /\ calls \in [Calls -> Call]
  /\ connection \in {"none", "pending", "open", "rejected", "closed"}
  /\ attempts \in Nat
  /\ addressStore \in [AddressName -> Calls \cup {None}]
  /\ links \subseteq Calls
  /\ broker \in BOOLEAN
  /\ shutdown \in {"no", "links", "connection", "done"}

\* The promise of the connection is made once, and closed by the shutdown only.
ConnectionInv ==
  /\ attempts = IF connection = "none" THEN 0 ELSE 1
  /\ connection = "closed" => shutdown = "done"
  /\ shutdown \in {"connection", "done"} => connection # "none"
  /\ shutdown = "done" => connection \in {"closed", "rejected"}
  /\ shutdown = "no" => closed = {}

\* A sender that is kept, and a call that has passed the promise, mean that the
\* connection was made.
MadeInv ==
  /\ \A a \in AddressName : addressStore[a] # None => connection \in {"open", "closed"}
  /\ \A c \in Calls : calls[c].at \in {"create", "send"} => connection \in {"open", "closed"}

\* Where a call stands: it has an address, and the entry of an address is there from
\* the first call that goes to send on.
PlaceInv ==
  \A c \in Calls :
    /\ calls[c].kind = "send" => calls[c].address \in AddressName
    /\ calls[c].at \in {"send", "sent"} =>
         calls[c].kind = "send" /\ addressStore[calls[c].address] # None
    /\ calls[c].at = "idle" => c \notin links

\* A call that will make a sender, or has made one, knew of no successful send on
\* its address.
FirstInv ==
  \A c \in Calls :
    /\ \A d \in calls[c].before : calls[d].at = "sent"
    /\ calls[c].kind = "send" /\ (calls[c].at \in {"connection", "create"} \/ c \in links) =>
         \A d \in calls[c].before : calls[d].address # calls[c].address

\* A call under way that has seen no outage sees the broker.
LuckInv == \A c \in Calls : calls[c].lucky /\ ~Done(calls[c]) /\ calls[c].at # "idle" => broker

Inv ==
  /\ TypeInv /\ ConnectionInv /\ MadeInv /\ PlaceInv /\ FirstInv /\ LuckInv
  /\ FailsOnlyAfterOutage

---------------------------------------------------------------------------
\* Nothing was called yet.
LEMMA InitInv == Init => Inv
<1> SUFFICES ASSUME Init PROVE Inv
  OBVIOUS
<1>1. NoCall \in Call /\ NoCall.at = "idle" /\ NoCall.kind = "none" /\ NoCall.before = {}
  BY DEF NoCall, Call, Places
<1>2. TypeInv
  BY <1>1 DEF Init, TypeInv
<1> QED
  BY <1>1, <1>2 DEF Init, Inv, ConnectionInv, MadeInv, PlaceInv, FirstInv, LuckInv, FailsOnlyAfterOutage

\* What getConnection leaves behind.
LEMMA GetConnectionFacts ==
  ASSUME TypeInv, ConnectionInv, getConnection
  PROVE  /\ connection' = IF connection = "none" THEN "pending" ELSE connection
         /\ attempts' = 1
         /\ attempts' \in Nat
BY DEF TypeInv, ConnectionInv, getConnection

\* A call that begins: its record is new, and remembers the sends that succeeded.
LEMMA SendInv ==
  ASSUME Inv, NEW c \in Calls, Send(c)
  PROVE  Inv'
<1> USE DEF Inv
<1>1. PICK a \in AddressName :
        LET call == [NoCall EXCEPT !.kind = "send", !.address = a, !.lucky = broker, !.before = Sent]
        IN  \/ /\ addressStore[a] # None
               /\ calls' = [calls EXCEPT ![c] = [call EXCEPT !.at = "send", !.link = addressStore[a]]]
               /\ UNCHANGED <<connection, attempts>>
            \/ /\ addressStore[a] = None
               /\ calls' = [calls EXCEPT ![c] = [call EXCEPT !.at = "connection"]]
               /\ getConnection
  BY DEF Send
<1>2. /\ calls[c].at = "idle" /\ c \notin links
      /\ UNCHANGED <<addressStore, receivers, links, closed, broker, outages, shutdown>>
  BY DEF Send, PlaceInv
<1>3. /\ calls' \in [Calls -> Call]
      /\ \A d \in Calls \ {c} : calls'[d] = calls[d]
      /\ calls'[c].kind = "send" /\ calls'[c].address = a
      /\ calls'[c].lucky = broker /\ calls'[c].before = Sent
      /\ calls'[c].at = IF addressStore[a] # None THEN "send" ELSE "connection"
  <2> DEFINE place == IF addressStore[a] # None THEN "send" ELSE "connection"
             call == [kind |-> "send", address |-> a, at |-> place,
                      link |-> IF addressStore[a] # None THEN addressStore[a] ELSE None,
                      lucky |-> broker, before |-> Sent]
  <2>1. Sent \in SUBSET Calls /\ broker \in BOOLEAN /\ place \in Places
    BY DEF Sent, TypeInv, Places
  <2>2. call \in Call
    <3>1. (IF addressStore[a] # None THEN addressStore[a] ELSE None) \in Calls \cup {None}
      BY DEF TypeInv
    <3> HIDE DEF place
    <3> QED
      BY <2>1, <3>1 DEF Call
  <2>3. calls' = [calls EXCEPT ![c] = call]
    BY <1>1 DEF NoCall
  <2>4. calls \in [Calls -> Call]
    BY DEF TypeInv
  <2> QED
    BY <2>2, <2>3, <2>4
<1>4. /\ connection' = IF addressStore[a] = None /\ connection = "none" THEN "pending" ELSE connection
      /\ attempts' = IF connection' = "none" THEN 0 ELSE 1
      /\ attempts' \in Nat
  BY <1>1, GetConnectionFacts DEF TypeInv, ConnectionInv
<1>5. TypeInv'
  BY <1>2, <1>3, <1>4 DEF TypeInv
<1>6. ConnectionInv'
  BY <1>2, <1>4 DEF ConnectionInv
<1>7. MadeInv'
  BY <1>2, <1>3, <1>4 DEF MadeInv
<1>8. PlaceInv'
  BY <1>2, <1>3 DEF PlaceInv
<1>9. FirstInv'
  <2>1. \A d \in Calls : calls[d].at = "sent" => d # c
    BY <1>2
  <2>2. \A d \in Sent : d \in Calls /\ d # c /\ calls'[d] = calls[d] /\ calls[d].at = "sent"
    BY <2>1, <1>3 DEF Sent
  <2>3. addressStore[a] = None => \A d \in Sent : calls'[d].address # a
    BY <2>2 DEF PlaceInv
  <2>4. \A e \in Calls : \A d \in calls[e].before : d \in Calls /\ d # c /\ calls'[d] = calls[d]
    BY <1>2, <1>3 DEF FirstInv, TypeInv, Call
  <2> SUFFICES ASSUME NEW e \in Calls
               PROVE /\ \A d \in calls'[e].before : calls'[d].at = "sent"
                     /\ calls'[e].kind = "send" /\ (calls'[e].at \in {"connection", "create"} \/ e \in links') =>
                          \A d \in calls'[e].before : calls'[d].address # calls'[e].address
    BY DEF FirstInv
  <2>5. CASE e = c
    BY <1>2, <1>3, <2>2, <2>3, <2>5
  <2>6. CASE e # c
    BY <1>2, <1>3, <2>4, <2>6 DEF FirstInv
  <2> QED
    BY <2>5, <2>6
<1>10. LuckInv'
  BY <1>2, <1>3 DEF LuckInv, Done
<1>11. FailsOnlyAfterOutage'
  BY <1>2, <1>3, <1>4 DEF FailsOnlyAfterOutage
<1> QED
  BY <1>5, <1>6, <1>7, <1>8, <1>9, <1>10, <1>11

LEMMA ListenInv ==
  ASSUME Inv, NEW c \in Calls, Listen(c)
  PROVE  Inv'
<1> USE DEF Inv
<1>1. /\ calls[c].at = "idle"
      /\ UNCHANGED <<addressStore, receivers, links, closed, broker, outages, shutdown>>
      /\ getConnection
  BY DEF Listen
<1>2. /\ calls' \in [Calls -> Call]
      /\ \A d \in Calls \ {c} : calls'[d] = calls[d]
      /\ calls'[c].kind = "listen" /\ calls'[c].at = "connection"
      /\ calls'[c].lucky = broker /\ calls'[c].before = {}
  BY DEF Listen, TypeInv, Call, Places, NoCall
<1>3. /\ connection' = IF connection = "none" THEN "pending" ELSE connection
      /\ attempts' = 1 /\ attempts' \in Nat
  BY <1>1, GetConnectionFacts
<1>4. TypeInv'
  BY <1>1, <1>2, <1>3 DEF TypeInv
<1>5. ConnectionInv' /\ MadeInv' /\ PlaceInv'
  BY <1>1, <1>2, <1>3 DEF ConnectionInv, MadeInv, PlaceInv
<1>6. FirstInv'
  <2>1. \A e \in Calls : \A d \in calls[e].before : d \in Calls /\ d # c /\ calls'[d] = calls[d]
    BY <1>1, <1>2 DEF FirstInv, TypeInv, Call
  <2> QED
    BY <1>1, <1>2, <2>1 DEF FirstInv
<1>7. LuckInv' /\ FailsOnlyAfterOutage'
  BY <1>1, <1>2, <1>3 DEF LuckInv, Done, FailsOnlyAfterOutage
<1> QED
  BY <1>4, <1>5, <1>6, <1>7

\* Nobody is at send or create while the promise is pending, and it is settled once.
LEMMA ConnectInv ==
  ASSUME Inv, Connect
  PROVE  Inv'
<1>1. connection = "pending" /\ connection' \in {"open", "rejected"}
      /\ UNCHANGED <<calls, attempts, addressStore, links, closed, broker, shutdown>>
  BY DEF Connect
<1> QED
  BY <1>1 DEF Inv, TypeInv, ConnectionInv, MadeInv, PlaceInv, FirstInv, LuckInv, FailsOnlyAfterOutage

\* A call that only goes on to another place.
LEMMA GoInv ==
  ASSUME Inv, NEW c \in Calls, NEW place \in Places \ {"idle"}, Go(c, place),
         UNCHANGED <<connection, attempts, addressStore, links, closed, broker, shutdown>>,
         calls[c].at \in {"connection", "create", "send"},
         place = "create" => calls[c].at = "connection" /\ connection \in {"open", "closed"},
         place = "sent" => calls[c].at = "send",
         place \notin {"connection", "send"},
         place = "failed" /\ calls[c].lucky /\ shutdown = "no" => connection = "rejected"
  PROVE  Inv'
<1> USE DEF Inv
<1>1. /\ calls' \in [Calls -> Call]
      /\ \A d \in Calls \ {c} : calls'[d] = calls[d]
      /\ calls'[c].at = place
      /\ calls'[c].kind = calls[c].kind /\ calls'[c].address = calls[c].address
      /\ calls'[c].lucky = calls[c].lucky /\ calls'[c].before = calls[c].before
  BY DEF Go, TypeInv, Call
<1>2. TypeInv' /\ ConnectionInv'
  BY <1>1 DEF TypeInv, ConnectionInv
<1>3. MadeInv' /\ PlaceInv'
  BY <1>1 DEF MadeInv, PlaceInv
<1>4. FirstInv'
  <2>1. \A e \in Calls : \A d \in calls[e].before : d \in Calls /\ d # c /\ calls'[d] = calls[d]
    BY <1>1 DEF FirstInv, TypeInv, Call
  <2> QED
    BY <1>1, <2>1 DEF FirstInv
<1>5. LuckInv' /\ FailsOnlyAfterOutage'
  BY <1>1 DEF LuckInv, Done, FailsOnlyAfterOutage
<1> QED
  BY <1>2, <1>3, <1>4, <1>5

\* A sender or receiver is made and kept.
LEMMA CreateInv ==
  ASSUME Inv, NEW c \in Calls, calls[c].at = "create", connection = "open", broker,
         links' = links \cup {c}, Keep(c),
         calls' = [calls EXCEPT ![c] =
                    [@ EXCEPT !.link = c, !.at = IF calls[c].kind = "send" THEN "send" ELSE "listening"]],
         UNCHANGED <<connection, attempts, closed, broker, outages, shutdown>>
  PROVE  Inv'
<1> USE DEF Inv
<1>1. /\ calls' \in [Calls -> Call]
      /\ \A d \in Calls \ {c} : calls'[d] = calls[d]
      /\ calls'[c].at = IF calls[c].kind = "send" THEN "send" ELSE "listening"
      /\ calls'[c].kind = calls[c].kind /\ calls'[c].address = calls[c].address
      /\ calls'[c].lucky = calls[c].lucky /\ calls'[c].before = calls[c].before
  BY ZenonT(40) DEF TypeInv, Call, Places
<1>2. /\ addressStore' \in [AddressName -> Calls \cup {None}]
      /\ \A a \in AddressName : addressStore[a] # None => addressStore'[a] # None
      /\ calls[c].kind = "send" => addressStore'[calls[c].address] # None
  BY NoneAssumption DEF Keep, TypeInv, PlaceInv
<1>3. TypeInv' /\ ConnectionInv'
  BY <1>1, <1>2 DEF TypeInv, ConnectionInv
<1>4. MadeInv'
  BY <1>1, <1>2 DEF MadeInv
<1>5. PlaceInv'
  BY <1>1, <1>2 DEF PlaceInv
<1>6. FirstInv'
  <2>1. \A e \in Calls : \A d \in calls[e].before : d \in Calls /\ d # c /\ calls'[d] = calls[d]
    BY <1>1 DEF FirstInv, TypeInv, Call
  <2> QED
    BY <1>1, <2>1 DEF FirstInv
<1>7. LuckInv' /\ FailsOnlyAfterOutage'
  BY <1>1 DEF LuckInv, Done, FailsOnlyAfterOutage
<1> QED
  BY <1>3, <1>4, <1>5, <1>6, <1>7

LEMMA StepInv ==
  ASSUME Inv, NEW c \in Calls, Step(c)
  PROVE  Inv'
<1>1. CASE Connected(c)
  <2>1. CASE connection \in {"open", "closed"} /\ Go(c, "create")
    BY <1>1, <2>1, GoInv DEF Connected, Places
  <2>2. CASE connection = "rejected" /\ Go(c, "failed")
    BY <1>1, <2>2, GoInv DEF Connected, Places
  <2> QED
    BY <1>1, <2>1, <2>2 DEF Connected
<1>2. CASE Create(c)
  <2>1. CASE /\ connection # "open" \/ ~broker
             /\ Go(c, "failed")
             /\ UNCHANGED <<links, addressStore, receivers>>
    <3>1. calls[c].lucky /\ shutdown = "no" => connection = "rejected"
      BY <1>2, <2>1 DEF Create, Inv, LuckInv, Done, MadeInv, ConnectionInv
    <3> QED
      BY <1>2, <2>1, <3>1, GoInv DEF Create, Places
  <2> QED
    BY <1>2, <2>1, CreateInv DEF Create
<1>3. CASE Deliver(c)
  <2>1. CASE Go(c, "sent")
    BY <1>3, <2>1, GoInv DEF Deliver, Places
  <2>2. CASE (connection # "open" \/ ~broker \/ calls[c].link \in closed) /\ Go(c, "failed")
    <3>1. calls[c].lucky /\ shutdown = "no" => connection = "rejected"
      BY <1>3, <2>2 DEF Deliver, Inv, LuckInv, Done, MadeInv, ConnectionInv
    <3> QED
      BY <1>3, <2>2, <3>1, GoInv DEF Deliver, Places
  <2> QED
    BY <1>3, <2>1, <2>2 DEF Deliver
<1> QED
  BY <1>1, <1>2, <1>3 DEF Step

\* An outage ends the luck of the calls under way.
LEMMA OutageInv ==
  ASSUME Inv, Outage \/ BrokerReturns
  PROVE  Inv'
<1> USE DEF Inv
<1>1. CASE Outage
  <2>1. /\ calls' \in [Calls -> Call]
        /\ \A c \in Calls :
             /\ calls'[c].at = calls[c].at /\ calls'[c].kind = calls[c].kind
             /\ calls'[c].address = calls[c].address /\ calls'[c].before = calls[c].before
             /\ calls'[c].lucky => calls[c].lucky /\ Done(calls[c])
             /\ Done(calls'[c]) <=> Done(calls[c])
    <3> SUFFICES ASSUME NEW c \in Calls
                 PROVE  /\ calls'[c] \in Call
                        /\ calls'[c].at = calls[c].at /\ calls'[c].kind = calls[c].kind
                        /\ calls'[c].address = calls[c].address /\ calls'[c].before = calls[c].before
                        /\ calls'[c].lucky => calls[c].lucky /\ Done(calls[c])
      BY <1>1 DEF Outage, Done
    <3>1. calls[c] \in Call /\ calls[c].lucky \in BOOLEAN
      BY DEF TypeInv, Call
    <3>2. calls'[c] = [calls[c] EXCEPT !.lucky = calls[c].lucky /\ Done(calls[c])]
      BY <1>1 DEF Outage
    <3>3. (calls[c].lucky /\ Done(calls[c])) \in BOOLEAN
      BY Zenon
    <3> QED
      BY <3>1, <3>2, <3>3 DEF Call
  <2>2. UNCHANGED <<connection, attempts, addressStore, links, closed, shutdown>> /\ broker' = FALSE
    BY <1>1 DEF Outage
  <2>3. TypeInv' /\ ConnectionInv' /\ MadeInv' /\ PlaceInv'
    BY <2>1, <2>2 DEF TypeInv, ConnectionInv, MadeInv, PlaceInv
  <2>4. FirstInv'
    <3>1. \A c \in Calls : calls[c].before \subseteq Calls
      BY DEF TypeInv, Call
    <3> QED
      BY <2>1, <2>2, <3>1 DEF FirstInv
  <2>5. LuckInv' /\ FailsOnlyAfterOutage'
    BY <2>1, <2>2 DEF LuckInv, FailsOnlyAfterOutage
  <2> QED
    BY <2>3, <2>4, <2>5
<1>2. CASE BrokerReturns
  BY <1>2 DEF BrokerReturns, TypeInv, ConnectionInv, MadeInv, PlaceInv, FirstInv, LuckInv, FailsOnlyAfterOutage
<1> QED
  BY <1>1, <1>2

\* The shutdown takes its three steps in order.
LEMMA ShutdownInv ==
  ASSUME Inv, CloseLinks \/ LinksClosed \/ CloseConnection
  PROVE  Inv'
<1> USE DEF Inv
<1>1. CASE CloseLinks
  BY <1>1 DEF CloseLinks, TypeInv, ConnectionInv, MadeInv, PlaceInv, FirstInv, LuckInv, FailsOnlyAfterOutage
<1>2. CASE LinksClosed
  <2>1. /\ connection' = IF connection = "none" THEN "pending" ELSE connection
        /\ attempts' = 1 /\ attempts' \in Nat
    BY <1>2, GetConnectionFacts DEF LinksClosed
  <2> QED
    BY <1>2, <2>1 DEF LinksClosed, TypeInv, ConnectionInv, MadeInv, PlaceInv, FirstInv, LuckInv,
       FailsOnlyAfterOutage
<1>3. CASE CloseConnection
  BY <1>3 DEF CloseConnection, TypeInv, ConnectionInv, MadeInv, PlaceInv, FirstInv, LuckInv,
     FailsOnlyAfterOutage
<1> QED
  BY <1>1, <1>2, <1>3

LEMMA NextInv == Inv /\ [Next]_vars => Inv'
<1> SUFFICES ASSUME Inv, [Next]_vars PROVE Inv'
  OBVIOUS
<1>1. CASE UNCHANGED vars
  BY <1>1 DEF vars, Inv, TypeInv, ConnectionInv, MadeInv, PlaceInv, FirstInv, LuckInv, FailsOnlyAfterOutage
<1>2. CASE Next
  BY <1>2, SendInv, ListenInv, StepInv, ConnectInv, OutageInv, ShutdownInv DEF Next
<1> QED
  BY <1>1, <1>2

---------------------------------------------------------------------------
\* Calls that share a sender or replace one another's do not disturb each other: a
\* call that saw no outage fails only because the kept promise was rejected.
THEOREM FailsOnlyAfterOutageHolds == Spec => []FailsOnlyAfterOutage
<1>1. Inv => FailsOnlyAfterOutage
  BY DEF Inv
<1> QED
  BY <1>1, InitInv, NextInv, PTL DEF Spec

\* A send makes a sender only if no send on its address had succeeded when it began.
THEOREM SendersAreReusedHolds == Spec => []SendersAreReused
<1>1. Inv => SendersAreReused
  BY DEF Inv, FirstInv, SendersAreReused
<1> QED
  BY <1>1, InitInv, NextInv, PTL DEF Spec

\* One connection is ever made, and it is not open after the shutdown.
THEOREM ShutdownClosesConnectionHolds == Spec => []ShutdownClosesConnection
<1>1. Inv => ShutdownClosesConnection
  BY DEF Inv, ConnectionInv, ShutdownClosesConnection
<1> QED
  BY <1>1, InitInv, NextInv, PTL DEF Spec
=============================================================================
