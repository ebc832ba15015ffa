------------------------ MODULE LocalMessagesProofs ------------------------
(***************************************************************************)
(* What a receipt of the in-memory bus means, for any number of            *)
(* transactions, well-formed or not.                                       *)
(***************************************************************************)
EXTENDS LocalMessages, TLAPS

SendState == {"none", "open", "receipt", "rejected"}
HandlerState == {"none", "validating", "invalid", "started", "sending", "done", "failed"}

\* The listener was called, and is past what it does before its first await.
Entered == {"started", "sending", "done", "failed"}

TypeInv ==
  /\ sends \in [Txs -> [AddressName -> SendState]]
  /\ handlers \in [Txs -> [AddressName -> [Listeners -> HandlerState]]]
  /\ ids \in [Txs -> [AddressName -> Nat]]
  /\ _id \in Nat
  /\ row \in [Txs -> {"none", "Signed", "Finalized"}]

\* A message has handlers exactly from the moment it is sent.
CalledInv ==
  \A t \in Txs : \A a \in AddressName :
    /\ sends[t][a] = "none" => \A l \in Listeners : handlers[t][a][l] = "none"
    /\ sends[t][a] # "none" => \A l \in addressToQueue(a) : handlers[t][a][l] # "none"

\* A service sends once, from a listener that is past its call.
OrderInv ==
  \A t \in Txs :
    /\ sends[t]["Signatures"] # "none" => handlers[t]["Requests"]["autoSign"] \in {"sending", "done", "failed"}
    /\ sends[t]["Finalizations"] # "none" => handlers[t]["Signatures"]["submit"] \in {"sending", "done", "failed"}

\* What a handler has done by the time its promise is fulfilled.
EffectInv ==
  \A t \in Txs :
    /\ \A a \in AddressName :
         /\ handlers[t][a]["recordEvent"] \in {"none", "validating", "done"}
         /\ handlers[t][a]["recordEvent"] = "done" => <<t, a>> \in events
    /\ handlers[t]["Signatures"]["submit"] \in Entered => row[t] # "none"

\* A receipt is given when every handler is done, and its id is an earlier one.
ReceiptInv ==
  \A t \in Txs : \A a \in AddressName :
    sends[t][a] = "receipt" =>
      /\ AllHandled(t, a)
      /\ ids[t][a] < _id
      /\ \A u \in Txs : \A b \in AddressName :
           sends[u][b] = "receipt" /\ ids[u][b] = ids[t][a] => u = t /\ b = a

Inv == TypeInv /\ CalledInv /\ OrderInv /\ EffectInv /\ ReceiptInv

---------------------------------------------------------------------------
\* Who listens where.
LEMMA Queues ==
  /\ addressToQueue("Requests") = {"autoSign", "recordEvent"}
  /\ addressToQueue("Signatures") = {"submit", "recordEvent"}
  /\ addressToQueue("Finalizations") = {"recordEvent"}
  /\ \A a \in AddressName : addressToQueue(a) \subseteq Listeners /\ "recordEvent" \in addressToQueue(a)
BY DEF addressToQueue, AddressName, Listeners

LEMMA InitInv == Init => Inv
BY DEF Init, Inv, TypeInv, CalledInv, OrderInv, EffectInv, ReceiptInv, SendState, HandlerState, Entered,
   AddressName, Listeners

\* The state of a handler when its message is sent, and the listener that sends it.
Begun(a, l) == IF l \in addressToQueue(a) THEN "validating" ELSE "none"
Publisher(a, b, l) ==
  \/ a = "Signatures" /\ b = "Requests" /\ l = "autoSign"
  \/ a = "Finalizations" /\ b = "Signatures" /\ l = "submit"

\* A message that was not sent before is published and its handlers begin, while the
\* publishing listener, if there is one, goes on to wait.
LEMMA PublishInv ==
  ASSUME Inv, NEW t \in Txs, NEW a \in AddressName, sends[t][a] = "none", Publish(t, a),
         handlers' \in [Txs -> [AddressName -> [Listeners -> HandlerState]]],
         a = "Signatures" => handlers[t]["Requests"]["autoSign"] = "started",
         a = "Finalizations" => handlers[t]["Signatures"]["submit"] = "started",
         \A u \in Txs : \A b \in AddressName : \A l \in Listeners :
           handlers'[u][b][l] = IF u = t /\ b = a THEN Begun(a, l)
                                ELSE IF u = t /\ Publisher(a, b, l) THEN "sending"
                                ELSE handlers[u][b][l],
         UNCHANGED <<ids, _id, row, events>>
  PROVE  Inv'
<1> USE DEF Inv
<1>1. /\ sends' \in [Txs -> [AddressName -> SendState]]
      /\ sends'[t][a] = "open"
      /\ \A u \in Txs : \A b \in AddressName : ~(u = t /\ b = a) => sends'[u][b] = sends[u][b]
  BY DEF Publish, TypeInv, SendState
<1>2. TypeInv'
  BY <1>1 DEF TypeInv
<1>3. \A l \in Listeners : handlers[t][a][l] = "none"
  BY DEF CalledInv
<1>4. CalledInv'
  <2> SUFFICES ASSUME NEW u \in Txs, NEW b \in AddressName
               PROVE  /\ sends'[u][b] = "none" => \A l \in Listeners : handlers'[u][b][l] = "none"
                      /\ sends'[u][b] # "none" => \A l \in addressToQueue(b) : handlers'[u][b][l] # "none"
    BY DEF CalledInv
  <2>1. CASE u = t /\ b = a
    BY <1>1, <2>1, Queues DEF Begun
  <2>2. CASE ~(u = t /\ b = a)
    <3>1. \A l \in Listeners : u = t /\ Publisher(a, b, l) => handlers[u][b][l] = "started"
      BY DEF Publisher
    <3>2. \A l \in Listeners : handlers'[u][b][l] = "none" <=> handlers[u][b][l] = "none"
      BY <2>2, <3>1
    <3>3. addressToQueue(b) \subseteq Listeners /\ sends'[u][b] = sends[u][b]
      BY <1>1, <2>2, Queues
    <3>4. /\ sends[u][b] = "none" => \A l \in Listeners : handlers[u][b][l] = "none"
          /\ sends[u][b] # "none" => \A l \in addressToQueue(b) : handlers[u][b][l] # "none"
      BY DEF CalledInv
    <3> QED
      BY <3>2, <3>3, <3>4
  <2> QED
    BY <2>1, <2>2
<1>5. OrderInv'
  <2>1. a = "Requests" => sends[t]["Signatures"] = "none"
    BY <1>3 DEF OrderInv, Listeners
  <2>2. a = "Signatures" => sends[t]["Finalizations"] = "none"
    BY <1>3 DEF OrderInv, Listeners
  <2> QED
    BY <1>1, <2>1, <2>2 DEF OrderInv, AddressName, Listeners, Publisher
<1>6. EffectInv'
  <2>1. \A u \in Txs : \A b \in AddressName :
          handlers'[u][b]["recordEvent"] \in {"validating", handlers[u][b]["recordEvent"]}
    BY Queues DEF Listeners, Begun, Publisher
  <2>2. \A u \in Txs :
          handlers'[u]["Signatures"]["submit"] \in Entered => handlers[u]["Signatures"]["submit"] \in Entered
    BY Queues DEF Listeners, AddressName, Entered, Begun, Publisher
  <2>3. ASSUME NEW u \in Txs, NEW b \in AddressName
        PROVE  /\ handlers'[u][b]["recordEvent"] \in {"none", "validating", "done"}
               /\ handlers'[u][b]["recordEvent"] = "done" => <<u, b>> \in events'
    BY <2>1 DEF EffectInv
  <2> QED
    BY <2>2, <2>3 DEF EffectInv
<1>7. \A u \in Txs : \A b \in AddressName : sends'[u][b] = "receipt" =>
        sends[u][b] = "receipt" /\ ~(u = t /\ b = a)
  BY <1>1
<1>8. ReceiptInv'
  <2>1. \A u \in Txs : \A b \in AddressName : sends'[u][b] = "receipt" => AllHandled(u, b)'
    <3> SUFFICES ASSUME NEW u \in Txs, NEW b \in AddressName, sends'[u][b] = "receipt",
                        NEW l \in addressToQueue(b)
                 PROVE  handlers'[u][b][l] \notin {"validating", "invalid"}
      BY DEF AllHandled
    <3>1. l \in Listeners /\ handlers[u][b][l] \notin {"validating", "invalid"} /\ ~(u = t /\ b = a)
      BY <1>7, Queues DEF ReceiptInv, AllHandled
    <3>2. handlers'[u][b][l] \in {"sending", handlers[u][b][l]}
      BY <3>1
    <3> QED
      BY <3>1, <3>2
  <2>2. \A u \in Txs : \A b \in AddressName : sends'[u][b] = "receipt" => sends[u][b] = "receipt"
    BY <1>7
  <2> QED
    BY <2>1, <2>2 DEF ReceiptInv
<1> QED
  BY <1>2, <1>4, <1>5, <1>6, <1>8

\* beginTransaction publishes the request.
LEMMA BeginTransactionInv ==
  ASSUME Inv, NEW t \in Txs, BeginTransaction(t)
  PROVE  Inv'
<1>1. /\ sends[t]["Requests"] = "none" /\ Publish(t, "Requests") /\ "Requests" \in AddressName
      /\ handlers' = [handlers EXCEPT ![t] = Called(t, "Requests")]
      /\ UNCHANGED <<ids, _id, row, events>>
  BY DEF BeginTransaction, AddressName
<1>2. /\ handlers' \in [Txs -> [AddressName -> [Listeners -> HandlerState]]]
      /\ \A u \in Txs : \A b \in AddressName : \A l \in Listeners :
           handlers'[u][b][l] = IF u = t /\ b = "Requests" THEN Begun("Requests", l) ELSE handlers[u][b][l]
  BY <1>1 DEF Called, Begun, Inv, TypeInv, HandlerState
<1>3. \A b \in AddressName : \A l \in Listeners : ~Publisher("Requests", b, l)
  BY DEF Publisher
<1> QED
  BY <1>1, <1>2, <1>3, PublishInv

\* A listener that is called, or goes on.
LEMMA HandlerInv ==
  ASSUME Inv, NEW t \in Txs, NEW a \in AddressName, NEW l \in Listeners, NEW s \in HandlerState,
         handlers' = [handlers EXCEPT ![t][a][l] = s],
         handlers[t][a][l] \in {"validating", "started", "sending"},
         s \notin {"none", "validating"},
         s = "invalid" => handlers[t][a][l] = "validating",
         l = "recordEvent" => s = "done" /\ <<t, a>> \in events',
         handlers[t][a][l] = "sending" => s \in {"done", "failed"},
         row' \in [Txs -> {"none", "Signed", "Finalized"}],
         \A u \in Txs : row[u] # "none" => row'[u] # "none",
         l = "submit" /\ handlers[t][a][l] = "validating" /\ s # "invalid" => row'[t] # "none",
         events \subseteq events',
         UNCHANGED <<sends, ids, _id>>
  PROVE  Inv'
<1> USE DEF Inv
<1>1. /\ handlers' \in [Txs -> [AddressName -> [Listeners -> HandlerState]]]
      /\ \A u \in Txs : \A b \in AddressName : \A k \in Listeners :
           handlers'[u][b][k] = IF u = t /\ b = a /\ k = l THEN s ELSE handlers[u][b][k]
  BY DEF TypeInv
<1>2. TypeInv'
  BY <1>1 DEF TypeInv
<1>3. CalledInv'
  BY <1>1, Queues DEF CalledInv
<1>4. OrderInv'
  <2>1. "Requests" \in AddressName /\ "Signatures" \in AddressName /\ "Finalizations" \in AddressName
        /\ "autoSign" \in Listeners /\ "submit" \in Listeners
    BY DEF AddressName, Listeners
  <2>2. \A u \in Txs : /\ sends[u]["Signatures"] # "none" => handlers'[u]["Requests"]["autoSign"] \in {"sending", "done", "failed"}
                       /\ sends[u]["Finalizations"] # "none" => handlers'[u]["Signatures"]["submit"] \in {"sending", "done", "failed"}
    BY <1>1, <2>1 DEF OrderInv
  <2> QED
    BY <2>2 DEF OrderInv
<1>5. EffectInv'
  <2>1. "Signatures" \in AddressName /\ "recordEvent" \in Listeners /\ "submit" \in Listeners
    BY DEF AddressName, Listeners
  <2>2. \A u \in Txs : \A b \in AddressName :
          /\ handlers'[u][b]["recordEvent"] \in {"none", "validating", "done"}
          /\ handlers'[u][b]["recordEvent"] = "done" => <<u, b>> \in events'
    <3> SUFFICES ASSUME NEW u \in Txs, NEW b \in AddressName
                 PROVE  /\ handlers'[u][b]["recordEvent"] \in {"none", "validating", "done"}
                        /\ handlers'[u][b]["recordEvent"] = "done" => <<u, b>> \in events'
      OBVIOUS
    <3>1. CASE u = t /\ b = a /\ l = "recordEvent"
      BY <1>1, <2>1, <3>1
    <3>2. CASE ~(u = t /\ b = a /\ l = "recordEvent")
      <4>1. handlers'[u][b]["recordEvent"] = handlers[u][b]["recordEvent"]
        BY <1>1, <2>1, <3>2
      <4> QED
        BY <4>1 DEF EffectInv
    <3> QED
      BY <3>1, <3>2
  <2>3. \A u \in Txs : handlers'[u]["Signatures"]["submit"] \in Entered => row'[u] # "none"
    BY <1>1, <2>1 DEF EffectInv, Entered
  <2> QED
    BY <2>2, <2>3 DEF EffectInv
<1>6. ReceiptInv'
  <2>1. \A u \in Txs : \A b \in AddressName : AllHandled(u, b) => AllHandled(u, b)'
    BY <1>1, Queues DEF AllHandled
  <2> QED
    BY <2>1 DEF ReceiptInv
<1> QED
  BY <1>2, <1>3, <1>4, <1>5, <1>6

LEMMA ValidateInv ==
  ASSUME Inv, NEW t \in Txs, NEW a \in AddressName, NEW l \in Listeners, Validate(t, a, l)
  PROVE  Inv'
<1>1. /\ handlers[t][a][l] = "validating" /\ UNCHANGED <<sends, ids, _id>>
      /\ row \in [Txs -> {"none", "Signed", "Finalized"}]
  BY DEF Validate, MayValidate, Inv, TypeInv
<1>2. CASE l = "submit" /\ handlers' = [handlers EXCEPT ![t][a][l] = "invalid"] /\ UNCHANGED <<row, events>>
  BY <1>1, <1>2, HandlerInv DEF HandlerState
<1>3. CASE /\ l = "submit" /\ handlers' = [handlers EXCEPT ![t][a][l] = "started"]
           /\ row' = [row EXCEPT ![t] = "Signed"] /\ UNCHANGED events
  BY <1>1, <1>3, HandlerInv DEF HandlerState
<1>4. CASE l = "autoSign" /\ handlers' = [handlers EXCEPT ![t][a][l] = "started"] /\ UNCHANGED <<row, events>>
  BY <1>1, <1>4, HandlerInv DEF HandlerState
<1>5. CASE /\ l = "recordEvent" /\ handlers' = [handlers EXCEPT ![t][a][l] = "done"]
           /\ events' = events \cup {<<t, a>>} /\ UNCHANGED row
  BY <1>1, <1>5, HandlerInv DEF HandlerState
<1> QED
  BY <1>2, <1>3, <1>4, <1>5 DEF Validate

\* The receipt has the next id.
LEMMA ResolveInv ==
  ASSUME Inv, NEW t \in Txs, NEW a \in AddressName, Resolve(t, a)
  PROVE  Inv'
<1> USE DEF Inv
<1>1. /\ sends[t][a] = "open" /\ AllHandled(t, a)
      /\ UNCHANGED <<handlers, row, events>>
      /\ _id' = _id + 1
  BY DEF Resolve
<1>2. /\ sends' \in [Txs -> [AddressName -> SendState]] /\ ids' \in [Txs -> [AddressName -> Nat]]
      /\ sends'[t][a] = "receipt" /\ ids'[t][a] = _id
      /\ \A u \in Txs : \A b \in AddressName :
           ~(u = t /\ b = a) => sends'[u][b] = sends[u][b] /\ ids'[u][b] = ids[u][b]
  BY DEF Resolve, ReceiptId, TypeInv, SendState
<1>3. TypeInv' /\ CalledInv'
  BY <1>1, <1>2 DEF TypeInv, CalledInv
<1>4. OrderInv' /\ EffectInv'
  <2>1. \A u \in Txs : \A b \in AddressName : sends'[u][b] # "none" => sends[u][b] # "none"
    BY <1>1, <1>2
  <2> QED
    BY <1>1, <2>1 DEF OrderInv, EffectInv, AddressName
<1>5. ReceiptInv'
  <2>1. \A u \in Txs : \A b \in AddressName : AllHandled(u, b)' <=> AllHandled(u, b)
    BY <1>1 DEF AllHandled
  <2>2. \A u \in Txs : \A b \in AddressName :
          sends'[u][b] = "receipt" /\ ~(u = t /\ b = a) => sends[u][b] = "receipt" /\ ids'[u][b] < _id
    BY <1>2 DEF ReceiptInv
  <2>3. \A u \in Txs : \A b \in AddressName : sends'[u][b] = "receipt" => AllHandled(u, b)'
    BY <1>1, <2>1, <2>2 DEF ReceiptInv
  <2>4. \A u \in Txs : \A b \in AddressName : sends'[u][b] = "receipt" => ids'[u][b] < _id + 1
    <3> SUFFICES ASSUME NEW u \in Txs, NEW b \in AddressName, sends'[u][b] = "receipt"
                 PROVE  ids'[u][b] < _id + 1
      OBVIOUS
    <3>1. ids'[u][b] = _id \/ ids'[u][b] < _id
      BY <1>2, <2>2
    <3>2. ids'[u][b] \in Nat /\ _id \in Nat
      BY <1>2 DEF TypeInv
    <3> QED
      BY <3>1, <3>2
  <2>5. ASSUME NEW u \in Txs, NEW b \in AddressName, sends'[u][b] = "receipt",
               NEW v \in Txs, NEW c \in AddressName, sends'[v][c] = "receipt", ids'[v][c] = ids'[u][b]
        PROVE  v = u /\ c = b
    <3>1. CASE u = t /\ b = a
      BY <1>2, <2>2, <2>5, <3>1 DEF TypeInv
    <3>2. CASE v = t /\ c = a
      BY <1>2, <2>2, <2>5, <3>2 DEF TypeInv
    <3>3. CASE ~(u = t /\ b = a) /\ ~(v = t /\ c = a)
      BY <1>2, <2>2, <2>5, <3>3 DEF ReceiptInv
    <3> QED
      BY <3>1, <3>2, <3>3
  <2> QED
    BY <1>1, <2>3, <2>4, <2>5 DEF ReceiptInv
<1> QED
  BY <1>3, <1>4, <1>5

LEMMA RejectSendInv ==
  ASSUME Inv, NEW t \in Txs, NEW a \in AddressName, RejectSend(t, a)
  PROVE  Inv'
<1> USE DEF Inv
<1>1. /\ sends[t][a] = "open" /\ UNCHANGED <<handlers, ids, _id, row, events>>
      /\ sends' \in [Txs -> [AddressName -> SendState]]
      /\ sends'[t][a] = "rejected"
      /\ \A u \in Txs : \A b \in AddressName : ~(u = t /\ b = a) => sends'[u][b] = sends[u][b]
  BY DEF RejectSend, TypeInv, SendState
<1>2. TypeInv'
  BY <1>1 DEF TypeInv
<1>5. CalledInv'
  <2>1. \A u \in Txs : \A b \in AddressName : sends'[u][b] # "none" <=> sends[u][b] # "none"
    BY <1>1
  <2> QED
    BY <1>1, <2>1 DEF CalledInv
<1>3. OrderInv' /\ EffectInv'
  <2>1. \A u \in Txs : \A b \in AddressName : sends'[u][b] # "none" => sends[u][b] # "none"
    BY <1>1
  <2> QED
    BY <1>1, <2>1 DEF OrderInv, EffectInv, AddressName
<1>4. ReceiptInv'
  <2>1. \A u \in Txs : \A b \in AddressName : sends'[u][b] = "receipt" => sends[u][b] = "receipt"
    BY <1>1
  <2>2. \A u \in Txs : \A b \in AddressName : AllHandled(u, b)' <=> AllHandled(u, b)
    BY <1>1 DEF AllHandled
  <2> QED
    BY <1>1, <2>1, <2>2 DEF ReceiptInv
<1> QED
  BY <1>2, <1>3, <1>4, <1>5

\* Listener l of address b publishes on address a.
Publishes(t, a, b, l) ==
  handlers' = [handlers EXCEPT ![t] = [Called(t, a) EXCEPT ![b][l] = "sending"]]

LEMMA PublishedHandlers ==
  ASSUME TypeInv, NEW t \in Txs, NEW a \in AddressName, NEW b \in AddressName, a # b,
         NEW l \in Listeners, Publishes(t, a, b, l)
  PROVE  /\ handlers' \in [Txs -> [AddressName -> [Listeners -> HandlerState]]]
         /\ \A u \in Txs : \A c \in AddressName : \A m \in Listeners :
              handlers'[u][c][m] = IF u = t /\ c = a THEN Begun(a, m)
                                   ELSE IF u = t /\ c = b /\ m = l THEN "sending"
                                   ELSE handlers[u][c][m]
<1> DEFINE h == handlers[t]
           g == [c \in AddressName |-> IF c = a THEN [m \in Listeners |-> Begun(a, m)]
                                      ELSE IF c = b THEN [h[c] EXCEPT ![l] = "sending"]
                                      ELSE h[c]]
<1>1. h \in [AddressName -> [Listeners -> HandlerState]]
  BY DEF TypeInv
<1>2. \A m \in Listeners : Begun(a, m) \in HandlerState
  BY DEF Begun, HandlerState
<1>3. g \in [AddressName -> [Listeners -> HandlerState]]
  BY <1>1, <1>2 DEF HandlerState
<1>4. [Called(t, a) EXCEPT ![b][l] = "sending"] = g
  BY <1>1 DEF Called, Begun
<1>5. handlers' = [handlers EXCEPT ![t] = g] /\ handlers \in [Txs -> [AddressName -> [Listeners -> HandlerState]]]
  BY <1>4 DEF TypeInv, Publishes
<1>6. \A c \in AddressName : \A m \in Listeners :
        g[c][m] = IF c = a THEN Begun(a, m) ELSE IF c = b /\ m = l THEN "sending" ELSE handlers[t][c][m]
  BY <1>1
<1> HIDE DEF g
<1> QED
  BY <1>3, <1>5, <1>6

LEMMA SignInv ==
  ASSUME Inv, NEW t \in Txs, Sign(t)
  PROVE  Inv'
<1>1. /\ handlers[t]["Requests"]["autoSign"] = "started" /\ UNCHANGED <<ids, _id, row, events>>
      /\ {"Requests", "Signatures"} \subseteq AddressName /\ "autoSign" \in Listeners
  BY DEF Sign, AddressName, Listeners
<1>2. CASE /\ handlers' = [handlers EXCEPT ![t] =
                             [Called(t, "Signatures") EXCEPT !["Requests"]["autoSign"] = "sending"]]
           /\ Publish(t, "Signatures")
  <2>1. sends[t]["Signatures"] = "none"
    BY <1>1 DEF Inv, OrderInv
  <2>2. /\ handlers' \in [Txs -> [AddressName -> [Listeners -> HandlerState]]]
        /\ \A u \in Txs : \A b \in AddressName : \A l \in Listeners :
             handlers'[u][b][l] = IF u = t /\ b = "Signatures" THEN Begun("Signatures", l)
                                  ELSE IF u = t /\ Publisher("Signatures", b, l) THEN "sending"
                                  ELSE handlers[u][b][l]
    <3>1. /\ TypeInv /\ "Signatures" \in AddressName /\ "Requests" \in AddressName
          /\ Publishes(t, "Signatures", "Requests", "autoSign")
      BY <1>1, <1>2 DEF Inv, Publishes
    <3>2. \A c, m : Publisher("Signatures", c, m) <=> c = "Requests" /\ m = "autoSign"
      BY DEF Publisher
    <3> HIDE DEF Publisher
    <3>3. /\ handlers' \in [Txs -> [AddressName -> [Listeners -> HandlerState]]]
          /\ \A u \in Txs : \A c \in AddressName : \A m \in Listeners :
               handlers'[u][c][m] = IF u = t /\ c = "Signatures" THEN Begun("Signatures", m)
                                    ELSE IF u = t /\ c = "Requests" /\ m = "autoSign" THEN "sending"
                                    ELSE handlers[u][c][m]
      BY <1>1, <3>1, PublishedHandlers
    <3> QED
      BY <3>2, <3>3
  <2> QED
    BY <1>1, <1>2, <2>1, <2>2, PublishInv
<1>3. CASE SetHandler(t, "Requests", "autoSign", "failed") /\ UNCHANGED sends
  <2>1. row \in [Txs -> {"none", "Signed", "Finalized"}]
    BY DEF Inv, TypeInv
  <2> QED
    BY <1>1, <1>3, <2>1, HandlerInv DEF SetHandler, HandlerState
<1> QED
  BY <1>2, <1>3 DEF Sign

LEMMA SignedInv ==
  ASSUME Inv, NEW t \in Txs, Signed(t)
  PROVE  Inv'
<1>1. /\ handlers[t]["Requests"]["autoSign"] = "sending" /\ UNCHANGED <<sends, ids, _id, row, events>>
      /\ "Requests" \in AddressName /\ "autoSign" \in Listeners
      /\ row \in [Txs -> {"none", "Signed", "Finalized"}]
  BY DEF Signed, AddressName, Listeners, Inv, TypeInv
<1>2. CASE SetHandler(t, "Requests", "autoSign", "done")
  BY <1>1, <1>2, HandlerInv DEF SetHandler, HandlerState
<1>3. CASE SetHandler(t, "Requests", "autoSign", "failed")
  BY <1>1, <1>3, HandlerInv DEF SetHandler, HandlerState
<1> QED
  BY <1>2, <1>3 DEF Signed

LEMMA SubmitTransactionInv ==
  ASSUME Inv, NEW t \in Txs, SubmitTransaction(t)
  PROVE  Inv'
<1>1. /\ handlers[t]["Signatures"]["submit"] = "started" /\ UNCHANGED <<ids, _id, row, events>>
      /\ {"Signatures", "Finalizations"} \subseteq AddressName /\ "submit" \in Listeners
  BY DEF SubmitTransaction, AddressName, Listeners
<1>2. CASE /\ handlers' = [handlers EXCEPT ![t] =
                             [Called(t, "Finalizations") EXCEPT !["Signatures"]["submit"] = "sending"]]
           /\ Publish(t, "Finalizations")
  <2>1. sends[t]["Finalizations"] = "none"
    BY <1>1 DEF Inv, OrderInv
  <2>2. /\ handlers' \in [Txs -> [AddressName -> [Listeners -> HandlerState]]]
        /\ \A u \in Txs : \A b \in AddressName : \A l \in Listeners :
             handlers'[u][b][l] = IF u = t /\ b = "Finalizations" THEN Begun("Finalizations", l)
                                  ELSE IF u = t /\ Publisher("Finalizations", b, l) THEN "sending"
                                  ELSE handlers[u][b][l]
    <3>1. /\ TypeInv /\ "Finalizations" \in AddressName /\ "Signatures" \in AddressName
          /\ Publishes(t, "Finalizations", "Signatures", "submit")
      BY <1>1, <1>2 DEF Inv, Publishes
    <3>2. \A c, m : Publisher("Finalizations", c, m) <=> c = "Signatures" /\ m = "submit"
      BY DEF Publisher
    <3> HIDE DEF Publisher
    <3>3. /\ handlers' \in [Txs -> [AddressName -> [Listeners -> HandlerState]]]
          /\ \A u \in Txs : \A c \in AddressName : \A m \in Listeners :
               handlers'[u][c][m] = IF u = t /\ c = "Finalizations" THEN Begun("Finalizations", m)
                                    ELSE IF u = t /\ c = "Signatures" /\ m = "submit" THEN "sending"
                                    ELSE handlers[u][c][m]
      BY <1>1, <3>1, PublishedHandlers
    <3> QED
      BY <3>2, <3>3
  <2> QED
    BY <1>1, <1>2, <2>1, <2>2, PublishInv
<1>3. CASE SetHandler(t, "Signatures", "submit", "failed") /\ UNCHANGED sends
  <2>1. row \in [Txs -> {"none", "Signed", "Finalized"}]
    BY DEF Inv, TypeInv
  <2> QED
    BY <1>1, <1>3, <2>1, HandlerInv DEF SetHandler, HandlerState
<1> QED
  BY <1>2, <1>3 DEF SubmitTransaction

LEMMA FinalizedInv ==
  ASSUME Inv, NEW t \in Txs, Finalized(t)
  PROVE  Inv'
<1>1. /\ handlers[t]["Signatures"]["submit"] = "sending" /\ UNCHANGED <<sends, ids, _id, events>>
      /\ "Signatures" \in AddressName /\ "submit" \in Listeners
      /\ SetHandler(t, "Signatures", "submit", "done")
      /\ row' \in [Txs -> {"none", "Signed", "Finalized"}]
      /\ \A u \in Txs : row[u] # "none" => row'[u] # "none"
  BY DEF Finalized, AddressName, Listeners, Inv, TypeInv
<1> QED
  BY <1>1, HandlerInv DEF SetHandler, HandlerState

LEMMA NextInv == Inv /\ [Next]_vars => Inv'
<1> SUFFICES ASSUME Inv, [Next]_vars PROVE Inv'
  OBVIOUS
<1>1. CASE UNCHANGED vars
  BY <1>1 DEF vars, Inv, TypeInv, CalledInv, OrderInv, EffectInv, ReceiptInv, AllHandled
<1>2. CASE Next
  BY <1>2, BeginTransactionInv, ValidateInv, ResolveInv, RejectSendInv, SignInv, SignedInv,
     SubmitTransactionInv, FinalizedInv DEF Next, Work
<1> QED
  BY <1>1, <1>2

---------------------------------------------------------------------------
\* A receipt of sendMessage means that the message is in the audit log, that the listener
\* of its queue was called, and that no other message has its id.
THEOREM ReceiptMeansTakenOverHolds == Spec => []ReceiptMeansTakenOver
<1>1. Inv => ReceiptMeansTakenOver
  <2> SUFFICES ASSUME Inv, NEW t \in Txs, NEW a \in AddressName, sends[t][a] = "receipt"
               PROVE  /\ <<t, a>> \in events
                      /\ a = "Requests" => handlers[t][a]["autoSign"] \in Entered
                      /\ a = "Signatures" => row[t] # "none"
    BY DEF Inv, ReceiptInv, ReceiptMeansTakenOver, Entered
  <2>1. \A l \in addressToQueue(a) : handlers[t][a][l] \in Entered
    BY Queues DEF Inv, ReceiptInv, AllHandled, CalledInv, TypeInv, HandlerState, Entered
  <2>2. <<t, a>> \in events
    BY <2>1, Queues DEF Inv, EffectInv, Entered
  <2> QED
    BY <2>1, <2>2, Queues DEF Inv, EffectInv
<1> QED
  BY <1>1, InitInv, NextInv, PTL DEF Spec

---------------------------------------------------------------------------
(* The stages of a transaction.                                            *)

\* Only Signatures has a submitter, and the row is Finalized when it is done.
StageInv ==
  \A t \in Txs :
    /\ row[t] = "Finalized" => handlers[t]["Signatures"]["submit"] = "done"
    /\ \A a \in AddressName \ {"Signatures"} : handlers[t][a]["submit"] = "none"

\* Which transactions were sent on an address, before and after a message.
LEMMA SentOnAfter ==
  ASSUME TypeInv, NEW t \in Txs, NEW a \in AddressName, Publish(t, a)
  PROVE  /\ SentOn(a)' = SentOn(a) \cup {t}
         /\ \A b \in AddressName \ {a} : SentOn(b)' = SentOn(b)
<1>1. /\ sends'[t][a] = "open"
      /\ \A u \in Txs : \A b \in AddressName : ~(u = t /\ b = a) => sends'[u][b] = sends[u][b]
  BY DEF TypeInv, Publish
<1> QED
  BY <1>1 DEF SentOn

LEMMA SentOnSame ==
  ASSUME UNCHANGED sends
  PROVE  \A a : SentOn(a)' = SentOn(a)
BY DEF SentOn

\* A handler that runs belongs to a message that was sent.
LEMMA HandledIsSent ==
  ASSUME Inv, NEW t \in Txs, NEW a \in AddressName, NEW l \in Listeners, handlers[t][a][l] # "none"
  PROVE  t \in SentOn(a)
BY DEF Inv, CalledInv, SentOn

\* StageInv, when one handler goes on.
LEMMA StageHandler ==
  ASSUME Inv, StageInv, NEW t \in Txs, NEW a \in AddressName, NEW l \in Listeners, NEW s \in HandlerState,
         handlers' = [handlers EXCEPT ![t][a][l] = s],
         handlers[t][a][l] \notin {"none", "done"},
         \A u \in Txs : row'[u] = "Finalized" =>
             row[u] = "Finalized" \/ (u = t /\ a = "Signatures" /\ l = "submit" /\ s = "done")
  PROVE  StageInv'
<1>1. \A u \in Txs : \A b \in AddressName : \A m \in Listeners :
        handlers'[u][b][m] = IF u = t /\ b = a /\ m = l THEN s ELSE handlers[u][b][m]
  BY DEF Inv, TypeInv
<1>2. "submit" \in Listeners /\ "Signatures" \in AddressName
  BY DEF Listeners, AddressName
<1> QED
  BY <1>1, <1>2 DEF StageInv

\* StageInv, when a message is sent on an address for the first time.
LEMMA StagePublish ==
  ASSUME Inv, StageInv, NEW t \in Txs, NEW a \in AddressName, sends[t][a] = "none", UNCHANGED row,
         \A u \in Txs : \A b \in AddressName :
           handlers'[u][b]["submit"] = IF u = t /\ b = a THEN Begun(a, "submit")
                                       ELSE IF u = t /\ b = "Signatures" /\ a = "Finalizations" THEN "sending"
                                       ELSE handlers[u][b]["submit"],
         a = "Finalizations" => handlers[t]["Signatures"]["submit"] = "started"
  PROVE  StageInv'
<1>1. a = "Signatures" => row[t] # "Finalized"
  BY DEF StageInv, Inv, CalledInv, AddressName, Listeners
<1>2. a = "Finalizations" => row[t] # "Finalized"
  BY DEF StageInv
<1>3. a # "Signatures" => Begun(a, "submit") = "none"
  BY Queues DEF Begun, AddressName
<1> QED
  BY <1>1, <1>2, <1>3 DEF StageInv, AddressName

-----------------------------------------------------------------------------
(* Every step of the bus is a step of OfflineFlow, and keeps StageInv.     *)

FlowStep == Flow!Next \/ UNCHANGED Flow!vars

LEMMA BeginTransactionFlow ==
  ASSUME Inv, StageInv, NEW t \in Txs, BeginTransaction(t)
  PROVE  StageInv' /\ FlowStep
<1>1. /\ sends[t]["Requests"] = "none" /\ Publish(t, "Requests") /\ UNCHANGED <<row, chain>>
      /\ {"Requests", "Signatures", "Finalizations"} \subseteq AddressName
  BY DEF BeginTransaction, AddressName
<1>2. \A u \in Txs : \A b \in AddressName :
        handlers'[u][b]["submit"] = IF u = t /\ b = "Requests" THEN Begun("Requests", "submit")
                                    ELSE handlers[u][b]["submit"]
  BY DEF BeginTransaction, Called, Begun, Inv, TypeInv, Listeners
<1>3. StageInv'
  BY <1>1, <1>2, StagePublish
<1>4. Flow!Request(t)
  BY <1>1, SentOnAfter DEF Flow!Request, Inv, SentOn
<1> QED
  BY <1>3, <1>4 DEF FlowStep, Flow!Next

\* Validate: submit saves the row.
LEMMA ValidateFlow ==
  ASSUME Inv, StageInv, NEW t \in Txs, NEW a \in AddressName, NEW l \in Listeners, Validate(t, a, l)
  PROVE  StageInv' /\ FlowStep
<1>1. /\ handlers[t][a][l] = "validating" /\ UNCHANGED <<sends, chain>>
      /\ row \in [Txs -> {"none", "Signed", "Finalized"}]
      /\ {"invalid", "started", "done"} \subseteq HandlerState
  BY DEF Validate, MayValidate, Inv, TypeInv, HandlerState
<1>2. \A b : SentOn(b)' = SentOn(b)
  BY <1>1, SentOnSame
<1>3. ASSUME NEW s \in HandlerState, handlers' = [handlers EXCEPT ![t][a][l] = s], UNCHANGED row
      PROVE  StageInv' /\ FlowStep
  <2>1. StageInv'
    BY <1>1, <1>3, StageHandler
  <2>2. UNCHANGED Flow!vars
    BY <1>1, <1>2, <1>3 DEF Flow!vars
  <2> QED
    BY <2>1, <2>2 DEF FlowStep
<1>4. CASE /\ l = "submit" /\ handlers' = [handlers EXCEPT ![t][a][l] = "started"]
           /\ row' = [row EXCEPT ![t] = "Signed"]
  <2>1. a = "Signatures" /\ row[t] # "Finalized"
    BY <1>1, <1>4 DEF StageInv
  <2>2. StageInv'
    BY <1>1, <1>4, StageHandler
  <2>3. CASE row[t] = "none"
    <3>1. Flow!Save(t)
      BY <1>1, <1>2, <1>4, <2>1, <2>3, HandledIsSent DEF Flow!Save
    <3> QED
      BY <2>2, <3>1 DEF FlowStep, Flow!Next
  <2>4. CASE row[t] = "Signed"
    <3>1. row' = row
      BY <1>1, <1>4, <2>4
    <3> QED
      BY <1>1, <1>2, <2>2, <3>1 DEF FlowStep, Flow!vars
  <2> QED
    BY <1>1, <2>1, <2>3, <2>4
<1> QED
  BY <1>1, <1>3, <1>4 DEF Validate

\* sendMessage returns or throws: nothing happens to the transaction.
LEMMA SettleFlow ==
  ASSUME Inv, StageInv, NEW t \in Txs, NEW a \in AddressName, Resolve(t, a) \/ RejectSend(t, a)
  PROVE  StageInv' /\ FlowStep
<1>1. /\ sends[t][a] = "open" /\ UNCHANGED <<handlers, row, chain>>
      /\ \E s \in {"receipt", "rejected"} : sends' = [sends EXCEPT ![t][a] = s]
  BY DEF Resolve, RejectSend
<1>2. \A u \in Txs : \A b \in AddressName : sends'[u][b] = "none" <=> sends[u][b] = "none"
  BY <1>1 DEF Inv, TypeInv
<1>3. \A b \in AddressName : SentOn(b)' = SentOn(b)
  BY <1>2 DEF SentOn
<1> QED
  BY <1>1, <1>3 DEF StageInv, FlowStep, Flow!vars, AddressName

LEMMA SignFlow ==
  ASSUME Inv, StageInv, NEW t \in Txs, Sign(t)
  PROVE  StageInv' /\ FlowStep
<1>1. /\ handlers[t]["Requests"]["autoSign"] = "started" /\ UNCHANGED <<row, chain>>
      /\ {"Requests", "Signatures", "Finalizations"} \subseteq AddressName
      /\ {"autoSign", "submit"} \subseteq Listeners /\ "failed" \in HandlerState
  BY DEF Sign, AddressName, Listeners, HandlerState
<1>2. t \in SentOn("Requests") /\ sends[t]["Signatures"] = "none"
  BY <1>1, HandledIsSent DEF Inv, OrderInv
<1>3. CASE Publishes(t, "Signatures", "Requests", "autoSign") /\ Publish(t, "Signatures")
  <2>1. \A u \in Txs : \A c \in AddressName : \A m \in Listeners :
          handlers'[u][c][m] = IF u = t /\ c = "Signatures" THEN Begun("Signatures", m)
                               ELSE IF u = t /\ c = "Requests" /\ m = "autoSign" THEN "sending"
                               ELSE handlers[u][c][m]
    BY <1>1, <1>3, PublishedHandlers DEF Inv
  <2>2. \A u \in Txs : \A c \in AddressName :
          handlers'[u][c]["submit"] = IF u = t /\ c = "Signatures" THEN Begun("Signatures", "submit")
                                      ELSE handlers[u][c]["submit"]
    BY <1>1, <2>1
  <2>3. StageInv'
    BY <1>1, <1>2, <2>2, StagePublish
  <2>4. Flow!Sign(t)
    <3>1. t \in SentOn("Requests") \ SentOn("Signatures")
      BY <1>2 DEF SentOn
    <3>2. /\ SentOn("Signatures")' = SentOn("Signatures") \cup {t}
          /\ SentOn("Requests")' = SentOn("Requests") /\ SentOn("Finalizations")' = SentOn("Finalizations")
      BY <1>1, <1>3, SentOnAfter DEF Inv
    <3> QED
      BY <1>1, <3>1, <3>2 DEF Flow!Sign
  <2> QED
    BY <2>3, <2>4 DEF FlowStep, Flow!Next
<1>4. CASE SetHandler(t, "Requests", "autoSign", "failed") /\ UNCHANGED sends
  <2>1. StageInv'
    BY <1>1, <1>4, StageHandler DEF SetHandler
  <2> QED
    BY <1>1, <1>4, <2>1, SentOnSame DEF FlowStep, Flow!vars
<1> QED
  BY <1>3, <1>4 DEF Sign, Publishes

LEMMA SignedFlow ==
  ASSUME Inv, StageInv, NEW t \in Txs, Signed(t)
  PROVE  StageInv' /\ FlowStep
<1>1. /\ handlers[t]["Requests"]["autoSign"] = "sending" /\ UNCHANGED <<sends, row, chain>>
      /\ "Requests" \in AddressName /\ "autoSign" \in Listeners
  BY DEF Signed, AddressName, Listeners
<1>2. CASE SetHandler(t, "Requests", "autoSign", "done")
  <2>1. StageInv'
    BY <1>1, <1>2, StageHandler DEF SetHandler, HandlerState
  <2> QED
    BY <1>1, <2>1, SentOnSame DEF FlowStep, Flow!vars
<1>3. CASE SetHandler(t, "Requests", "autoSign", "failed")
  <2>1. StageInv'
    BY <1>1, <1>3, StageHandler DEF SetHandler, HandlerState
  <2> QED
    BY <1>1, <2>1, SentOnSame DEF FlowStep, Flow!vars
<1> QED
  BY <1>2, <1>3 DEF Signed

LEMMA SubmitTransactionFlow ==
  ASSUME Inv, StageInv, NEW t \in Txs, SubmitTransaction(t)
  PROVE  StageInv' /\ FlowStep
<1>1. /\ handlers[t]["Signatures"]["submit"] = "started" /\ UNCHANGED row
      /\ {"Requests", "Signatures", "Finalizations"} \subseteq AddressName
      /\ "submit" \in Listeners /\ "failed" \in HandlerState
  BY DEF SubmitTransaction, AddressName, Listeners, HandlerState
<1>2. row[t] # "none" /\ sends[t]["Finalizations"] = "none"
  BY <1>1 DEF Inv, OrderInv, EffectInv, Entered
<1>3. CASE /\ Publishes(t, "Finalizations", "Signatures", "submit") /\ Publish(t, "Finalizations")
           /\ chain' = chain \cup {t}
  <2>1. \A u \in Txs : \A c \in AddressName : \A m \in Listeners :
          handlers'[u][c][m] = IF u = t /\ c = "Finalizations" THEN Begun("Finalizations", m)
                               ELSE IF u = t /\ c = "Signatures" /\ m = "submit" THEN "sending"
                               ELSE handlers[u][c][m]
    BY <1>1, <1>3, PublishedHandlers DEF Inv
  <2>2. \A u \in Txs : \A c \in AddressName :
          handlers'[u][c]["submit"] = IF u = t /\ c = "Finalizations" THEN Begun("Finalizations", "submit")
                                      ELSE IF u = t /\ c = "Signatures" THEN "sending"
                                      ELSE handlers[u][c]["submit"]
    BY <1>1, <2>1
  <2>3. StageInv'
    BY <1>1, <1>2, <2>2, StagePublish
  <2>4. /\ SentOn("Finalizations")' = SentOn("Finalizations") \cup {t}
        /\ SentOn("Requests")' = SentOn("Requests") /\ SentOn("Signatures")' = SentOn("Signatures")
        /\ t \notin SentOn("Finalizations")
    BY <1>1, <1>2, <1>3, SentOnAfter DEF Inv, SentOn
  <2>5. CASE t \in chain
    BY <1>1, <1>3, <2>3, <2>4, <2>5 DEF FlowStep, Flow!Next, Flow!Announce
  <2>6. CASE t \notin chain
    BY <1>1, <1>2, <1>3, <2>3, <2>4, <2>6 DEF FlowStep, Flow!Next, Flow!Include
  <2> QED
    BY <2>5, <2>6
<1>4. CASE /\ chain' \in {chain, chain \cup {t}} /\ UNCHANGED sends
           /\ SetHandler(t, "Signatures", "submit", "failed")
  <2>1. StageInv'
    BY <1>1, <1>4, StageHandler DEF SetHandler
  <2>2. CASE chain' = chain
    BY <1>1, <1>4, <2>1, <2>2, SentOnSame DEF FlowStep, Flow!vars
  <2>3. CASE chain' # chain
    <3>1. t \notin chain /\ chain' = chain \cup {t}
      BY <1>4, <2>3
    <3> QED
      BY <1>1, <1>2, <1>4, <2>1, <3>1, SentOnSame DEF FlowStep, Flow!Next, Flow!Include
  <2> QED
    BY <2>2, <2>3
<1> QED
  BY <1>3, <1>4 DEF SubmitTransaction, Publishes

LEMMA FinalizedFlow ==
  ASSUME Inv, StageInv, NEW t \in Txs, Finalized(t)
  PROVE  StageInv' /\ FlowStep
<1>1. /\ handlers[t]["Signatures"]["submit"] = "sending" /\ sends[t]["Finalizations"] = "receipt"
      /\ handlers' = [handlers EXCEPT ![t]["Signatures"]["submit"] = "done"]
      /\ UNCHANGED <<sends, chain>> /\ row' = [row EXCEPT ![t] = "Finalized"]
      /\ row \in [Txs -> {"none", "Signed", "Finalized"}]
      /\ "Signatures" \in AddressName /\ "submit" \in Listeners /\ "done" \in HandlerState
  BY DEF Finalized, SetHandler, AddressName, Listeners, HandlerState, Inv, TypeInv
<1>2. row[t] = "Signed"
  BY <1>1 DEF StageInv, Inv, EffectInv, Entered
<1>3. StageInv'
  BY <1>1, StageHandler
<1>4. Flow!Finalize(t)
  <2>1. t \in SentOn("Finalizations")
    BY <1>1 DEF SentOn
  <2> QED
    BY <1>1, <1>2, <2>1, SentOnSame DEF Flow!Finalize
<1> QED
  BY <1>3, <1>4 DEF FlowStep, Flow!Next

LEMMA NextFlow ==
  ASSUME Inv, StageInv, [Next]_vars
  PROVE  StageInv' /\ FlowStep
<1>1. CASE UNCHANGED vars
  BY <1>1 DEF vars, StageInv, FlowStep, Flow!vars, SentOn
<1>2. CASE Next
  BY <1>2, BeginTransactionFlow, ValidateFlow, SettleFlow, SignFlow, SignedFlow, SubmitTransactionFlow,
     FinalizedFlow DEF Next, Work
<1> QED
  BY <1>1, <1>2

\* The in-memory bus implements OfflineFlow: whatever listeners refuse or fail, every
\* transaction goes through the stages in their order (autoSign, submit, and sendMessage,
\* which calls them).
THEOREM LocalStagesInOrderHolds == Spec => LocalStagesInOrder
<1>1. Init => StageInv /\ Flow!Init
  BY DEF Init, StageInv, Flow!Init, SentOn, AddressName, Listeners
<1>2. Inv /\ StageInv /\ [Next]_vars => StageInv' /\ [Flow!Next]_(Flow!vars)
  BY NextFlow DEF FlowStep
<1> QED
  BY <1>1, <1>2, InitInv, NextInv, PTL DEF Spec, LocalStagesInOrder, Flow!Spec
=============================================================================
