-------------------------- MODULE OfflineTxProofs --------------------------
(***************************************************************************)
(* The AMQP path for any number of transactions, worker stops, failing     *)
(* calls and delivery attempts.                                            *)
(***************************************************************************)
EXTENDS OfflineTx, TLAPS

Message ==
    [queue : QueueName, addr : AddressName, tx : Txs, copy : Nat \ {0}, deliveries : Nat]

Pcs == [Requests |-> {"start", "sending", "sent"},
        Signatures |-> {"start", "submitting", "awaiting", "publishing", "published"},
        EventsLog |-> {"start", "recorded"}]

Task == [msg : Message, pc : {"start", "sending", "sent", "submitting", "awaiting", "publishing",
                              "published", "recorded"}]

Statuses == {"none", "Signed", "Finalized"}

TypeInv ==
    /\ published \in [AddressName -> [Txs -> Nat]]
    /\ ready \subseteq Message /\ tasks \subseteq Task /\ dlq \subseteq Message
    /\ receipt \in [Txs -> {"new", "sending", "receipt", "error"}]
    /\ mempool \subseteq Txs /\ chain \subseteq Txs \cup Others
    /\ offlineTx \in [Txs -> Statuses]
    /\ updates \subseteq Txs
    /\ faults \in Nat /\ crashes \in Nat
    /\ \A e \in DOMAIN offlineEvents : offlineEvents[e] \in Nat \ {0}

Quiet == faults = 0 /\ crashes = 0

\* What the copies of one transaction on one queue have in common.
Same(m, n) == m.queue = n.queue /\ m.addr = n.addr /\ m.tx = n.tx /\ m.copy = n.copy

\* No message is in two places at once.
UniqueInv ==
    /\ \A m, n \in ready : Same(m, n) => m = n
    /\ \A m \in ready, k \in tasks : ~Same(m, k.msg)
    /\ \A j, k \in tasks : Same(j.msg, k.msg) => j = k

\* Messages are of something that was published, on a queue of its address.
SentInv(m) ==
    /\ m.copy <= published[m.addr][m.tx]
    /\ m.queue \in Routes(m.addr)

\* A signature is on its way, dead, or has done its work.
Carried(t) ==
    \/ \E m \in Pending \cup dlq : m.tx = t /\ m.queue = "Signatures"
    \/ t \in chain

\* A message whose listener has not had an effect yet.
UntouchedInv(m) ==
    /\ m.queue = "Requests" /\ Quiet => published["Signatures"][m.tx] = 0
    /\ m.queue = "Signatures" /\ Quiet => m.tx \notin mempool \cup chain
    /\ m.queue = "EventsLog" /\ crashes = 0 => Rows(Entry(m)) = 0

\* What a listener has done when it is at pc.
TaskInv(k) ==
    /\ k.pc \in Pcs[k.msg.queue]
    /\ k.pc \in {"start", "sending", "submitting"} => UntouchedInv(k.msg)
    /\ k.pc = "sent" => Carried(k.msg.tx)
    /\ k.pc \in {"submitting", "awaiting", "publishing", "published"} => offlineTx[k.msg.tx] # "none"
    /\ k.pc \in {"publishing", "published"} => k.msg.tx \in chain
    /\ k.pc = "recorded" => Rows(Entry(k.msg)) > 0

MessagesInv ==
    /\ \A m \in ready : SentInv(m) /\ UntouchedInv(m)
    /\ \A k \in tasks : SentInv(k.msg) /\ TaskInv(k)
    /\ \A m \in dlq : SentInv(m)

\* The order in which things happen to a transaction.
OrderInv(t) ==
    /\ offlineTx[t] = "Finalized" \/ published["Finalizations"][t] > 0 \/ t \in updates => t \in chain
    /\ t \in mempool \cup chain => offlineTx[t] # "none"
    /\ offlineTx[t] # "none" => published["Signatures"][t] > 0
    /\ published["Signatures"][t] > 0 => published["Requests"][t] > 0
    /\ published["Requests"][t] > 0 => receipt[t] \in {"receipt", "error"}

\* While nothing fails everything happens once.
OnceInv(t) ==
    Quiet =>
      /\ published["Requests"][t] <= 1 /\ published["Signatures"][t] <= 1
      /\ t \in mempool => \E k \in tasks : At(k, "Signatures", "awaiting") /\ k.msg.tx = t
      /\ t \in chain /\ offlineTx[t] = "Signed" =>
           \/ t \in updates
           \/ \E k \in tasks : /\ k.msg.queue = "Signatures" /\ k.msg.tx = t
                               /\ k.pc \in {"awaiting", "publishing", "published"}

LogInv ==
    /\ \A e \in DOMAIN offlineEvents :
         \E a \in AddressName, t \in Txs : \E c \in 1..published[a][t] : e = <<a, t, c>>
    /\ crashes = 0 => \A e \in DOMAIN offlineEvents : offlineEvents[e] = 1
    /\ \A a \in AddressName, t \in Txs : \A c \in 1..published[a][t] :
         \/ Rows(<<a, t, c>>) > 0
         \/ \E m \in Pending \cup dlq : m.queue = "EventsLog" /\ Entry(m) = <<a, t, c>>

Inv ==
    /\ TypeInv /\ UniqueInv /\ MessagesInv
    /\ \A t \in Txs : OrderInv(t) /\ OnceInv(t)
    /\ LogInv /\ ReceiptIsHonoured

---------------------------------------------------------------------------
\* Nothing that was done is undone.
Mono ==
    /\ \A a \in AddressName, t \in Txs : published[a][t] <= published'[a][t]
    /\ chain \subseteq chain'
    /\ \A t \in Txs : offlineTx[t] # "none" => offlineTx'[t] # "none"
    /\ \A e : Rows(e) <= Rows(e)'
    /\ (Quiet' => Quiet) /\ (crashes' = 0 => crashes = 0)

\* A message is still somewhere.
Survives(m) == \E n \in Pending' \cup dlq' : Same(m, n)

\* A message is gone only when its work is done.
Kept ==
    \A m \in Pending \cup dlq :
        \/ Survives(m)
        \/ m.queue = "Requests" /\ \E n \in Pending' \cup dlq' : n.tx = m.tx /\ n.queue = "Signatures"
        \/ m.queue \in {"Requests", "Signatures"} /\ m.tx \in chain'
        \/ m.queue = "EventsLog" /\ Rows(Entry(m))' > 0

Calm(m) == UntouchedInv(m) => UntouchedInv(m)'

LEMMA CarriedKept ==
    ASSUME Mono, Kept, NEW t, Carried(t)
    PROVE  Carried(t)'
<1>1. CASE t \in chain
  BY <1>1 DEF Carried, Mono
<1>2. ASSUME NEW m \in Pending \cup dlq, m.tx = t, m.queue = "Signatures" PROVE Carried(t)'
  <2>1. CASE m.tx \in chain'
    BY <1>2, <2>1 DEF Carried
  <2>2. CASE Survives(m)
    BY <1>2, <2>2 DEF Survives, Same, Carried
  <2> QED
    BY <1>2, <2>1, <2>2 DEF Kept
<1> QED
  BY <1>1, <1>2 DEF Carried

LEMMA SentKept ==
    ASSUME TypeInv, TypeInv', Mono, NEW m \in Message, SentInv(m)
    PROVE  SentInv(m)'
<1>1. m.addr \in AddressName /\ m.tx \in Txs /\ m.copy \in Nat
  BY DEF Message
<1>2. published[m.addr][m.tx] \in Nat /\ published'[m.addr][m.tx] \in Nat
  BY <1>1 DEF TypeInv
<1>3. published[m.addr][m.tx] <= published'[m.addr][m.tx]
  BY <1>1 DEF Mono
<1> QED
  BY <1>1, <1>2, <1>3 DEF SentInv

LEMMA RowsNat ==
    ASSUME TypeInv, NEW e
    PROVE  Rows(e) \in Nat
BY DEF TypeInv, Rows

\* A task that does not take the step keeps its invariant.
LEMMA TaskKept ==
    ASSUME TypeInv, TypeInv', Mono, Kept, NEW j \in Task, TaskInv(j), Calm(j.msg)
    PROVE  TaskInv(j)'
<1>1. j.msg \in Message /\ j.msg.tx \in Txs
  BY DEF Task, Message
<1>2. j.pc = "sent" => Carried(j.msg.tx)'
  BY CarriedKept DEF TaskInv
<1>3. j.pc = "recorded" => Rows(Entry(j.msg))' > 0
  <2>1. Rows(Entry(j.msg)) \in Nat
    BY RowsNat
  <2>2. Rows(Entry(j.msg))' \in Nat
    BY DEF TypeInv, Rows
  <2>3. Rows(Entry(j.msg)) <= Rows(Entry(j.msg))'
    BY DEF Mono
  <2> QED
    BY <2>1, <2>2, <2>3 DEF TaskInv
<1>4. j.pc \in {"start", "sending", "submitting"} => UntouchedInv(j.msg)'
  BY DEF TaskInv, Calm
<1> QED
  BY <1>1, <1>2, <1>3, <1>4 DEF TaskInv, Mono

\* What a step has to show.
LEMMA StepInv ==
    ASSUME Inv, TypeInv', UniqueInv', Mono, Kept,
           \A m \in ready' \ ready : SentInv(m)' /\ UntouchedInv(m)',
           \A j \in tasks' \ tasks : SentInv(j.msg)' /\ TaskInv(j)',
           \A m \in dlq' \ dlq : SentInv(m)',
           \A m \in ready \cap ready' : Calm(m),
           \A j \in tasks \cap tasks' : Calm(j.msg),
           \A t \in Txs : OrderInv(t)' /\ OnceInv(t)',
           \A e \in DOMAIN offlineEvents' :
               \E a \in AddressName, t \in Txs : \E c \in 1..published'[a][t] : e = <<a, t, c>>,
           crashes' = 0 => \A e \in DOMAIN offlineEvents' : offlineEvents'[e] = 1,
           \A a \in AddressName, t \in Txs : \A c \in 1..published'[a][t] :
               \/ c \in 1..published[a][t]
               \/ \E m \in ready' : m.queue = "EventsLog" /\ Entry(m) = <<a, t, c>>,
           \A t \in Txs : receipt'[t] = "receipt" =>
               \/ receipt[t] = "receipt"
               \/ \E m \in ready' : m.tx = t /\ m.queue # "EventsLog"
    PROVE  Inv'
<1>1. TypeInv /\ MessagesInv /\ LogInv /\ ReceiptIsHonoured
  BY DEF Inv
<1>2. MessagesInv'
  <2>1. ASSUME NEW m \in ready' PROVE SentInv(m)' /\ UntouchedInv(m)'
    <3>1. CASE m \in ready
      BY <1>1, <3>1, SentKept DEF MessagesInv, Calm, TypeInv
    <3> QED
      BY <3>1
  <2>2. ASSUME NEW j \in tasks' PROVE SentInv(j.msg)' /\ TaskInv(j)'
    <3>1. CASE j \in tasks
      <4>1. j \in Task /\ j.msg \in Message
        BY <1>1, <3>1 DEF TypeInv, Task
      <4>2. SentInv(j.msg) /\ TaskInv(j) /\ Calm(j.msg)
        BY <1>1, <3>1 DEF MessagesInv
      <4>3. SentInv(j.msg)'
        BY <1>1, <4>1, <4>2, SentKept
      <4>4. TaskInv(j)'
        BY <1>1, <4>1, <4>2, TaskKept
      <4> QED
        BY <4>3, <4>4
    <3> QED
      BY <3>1
  <2>3. ASSUME NEW m \in dlq' PROVE SentInv(m)'
    <3>1. CASE m \in dlq
      BY <1>1, <3>1, SentKept DEF MessagesInv, TypeInv
    <3> QED
      BY <3>1
  <2> QED
    BY <2>1, <2>2, <2>3 DEF MessagesInv
<1>3. LogInv'
  <2>1. ASSUME NEW a \in AddressName, NEW t \in Txs, NEW c \in 1..published'[a][t]
        PROVE  \/ Rows(<<a, t, c>>)' > 0
               \/ \E m \in Pending' \cup dlq' : m.queue = "EventsLog" /\ Entry(m) = <<a, t, c>>
    <3>1. CASE \E m \in ready' : m.queue = "EventsLog" /\ Entry(m) = <<a, t, c>>
      BY <3>1 DEF Pending
    <3>2. CASE c \in 1..published[a][t]
      <4>1. CASE Rows(<<a, t, c>>) > 0
        <5>1. Rows(<<a, t, c>>) \in Nat
          BY <1>1, RowsNat
        <5>2. Rows(<<a, t, c>>)' \in Nat
          BY DEF TypeInv, Rows
        <5>3. Rows(<<a, t, c>>) <= Rows(<<a, t, c>>)'
          BY DEF Mono
        <5> QED
          BY <4>1, <5>1, <5>2, <5>3
      <4>2. ASSUME NEW m \in Pending \cup dlq, m.queue = "EventsLog", Entry(m) = <<a, t, c>>
            PROVE  \/ Rows(<<a, t, c>>)' > 0
                   \/ \E n \in Pending' \cup dlq' : n.queue = "EventsLog" /\ Entry(n) = <<a, t, c>>
        <5>1. CASE Survives(m)
          BY <4>2, <5>1 DEF Survives, Same, Entry
        <5>2. CASE Rows(Entry(m))' > 0
          BY <4>2, <5>2
        <5> QED
          BY <4>2, <5>1, <5>2 DEF Kept
      <4> QED
        BY <1>1, <3>2, <4>1, <4>2 DEF LogInv
    <3> QED
      BY <3>1, <3>2
  <2> QED
    BY <2>1 DEF LogInv
<1>4. ReceiptIsHonoured'
  <2>1. ASSUME NEW t \in Txs, receipt'[t] = "receipt"
        PROVE  \/ \E m \in Pending' \cup dlq' : m.tx = t /\ m.queue # "EventsLog"
               \/ t \in chain'
    <3>1. CASE \E m \in ready' : m.tx = t /\ m.queue # "EventsLog"
      BY <3>1 DEF Pending
    <3>2. CASE receipt[t] = "receipt"
      <4>1. CASE t \in chain
        BY <4>1 DEF Mono
      <4>2. ASSUME NEW m \in Pending \cup dlq, m.tx = t, m.queue # "EventsLog"
            PROVE  \/ \E n \in Pending' \cup dlq' : n.tx = t /\ n.queue # "EventsLog"
                   \/ t \in chain'
        <5>1. CASE Survives(m)
          BY <4>2, <5>1 DEF Survives, Same
        <5>2. CASE \E n \in Pending' \cup dlq' : n.tx = m.tx /\ n.queue = "Signatures"
          BY <4>2, <5>2
        <5> QED
          BY <4>2, <5>1, <5>2 DEF Kept
      <4> QED
        BY <1>1, <3>2, <4>1, <4>2 DEF ReceiptIsHonoured
    <3> QED
      BY <2>1, <3>1, <3>2
  <2> QED
    BY <2>1 DEF ReceiptIsHonoured
<1> QED
  BY <1>2, <1>3, <1>4 DEF Inv

---------------------------------------------------------------------------
\* The variables other than the broker's have their types.
WorkType ==
    /\ receipt \in [Txs -> {"new", "sending", "receipt", "error"}]
    /\ mempool \subseteq Txs /\ chain \subseteq Txs \cup Others
    /\ offlineTx \in [Txs -> Statuses]
    /\ updates \subseteq Txs
    /\ faults \in Nat /\ crashes \in Nat
    /\ \A e \in DOMAIN offlineEvents : offlineEvents[e] \in Nat \ {0}

\* The messages that sendMessage adds are new.
LEMMA RoutedFacts ==
    ASSUME Inv, NEW a \in AddressName, NEW t \in Txs
    PROVE  /\ \A m \in Routed(a, t) :
                /\ m \in Message /\ m.addr = a /\ m.tx = t /\ m.copy = published[a][t] + 1
                /\ m.queue \in Routes(a)
                /\ \A n \in Pending : ~Same(m, n)
           /\ \A m, n \in Routed(a, t) : Same(m, n) => m = n
           /\ \E m \in Routed(a, t) : m.queue = "EventsLog"
           /\ a # "Finalizations" => \E m \in Routed(a, t) : m.queue = a
<1>1. published[a][t] \in Nat
  BY DEF Inv, TypeInv
<1>2. Routes(a) \subseteq QueueName /\ "EventsLog" \in Routes(a) /\ (a # "Finalizations" => a \in Routes(a))
  BY DEF Routes, QueueName, AddressName
<1>3. ASSUME NEW m \in Routed(a, t)
      PROVE  /\ m \in Message /\ m.addr = a /\ m.tx = t /\ m.copy = published[a][t] + 1
             /\ m.queue \in Routes(a) /\ m.deliveries = 0
  BY <1>1, <1>2 DEF Routed, Message
<1>4. ASSUME NEW n \in Pending PROVE n.copy \in Nat /\ n.copy <= published[n.addr][n.tx]
  <2>1. CASE n \in ready
    BY <2>1 DEF Inv, TypeInv, Message, MessagesInv, SentInv
  <2>2. ASSUME NEW k \in tasks, n = k.msg PROVE n.copy \in Nat /\ n.copy <= published[n.addr][n.tx]
    BY <2>2 DEF Inv, TypeInv, Task, Message, MessagesInv, SentInv
  <2> QED
    BY <2>1, <2>2 DEF Pending
<1>5. ASSUME NEW m \in Routed(a, t), NEW n \in Pending PROVE ~Same(m, n)
  BY <1>1, <1>3, <1>4 DEF Same
<1>6. ASSUME NEW m \in Routed(a, t), NEW n \in Routed(a, t), Same(m, n) PROVE m = n
  BY <1>3, <1>6 DEF Same, Routed, Message
<1>7. ASSUME NEW q \in Routes(a) PROVE \E m \in Routed(a, t) : m.queue = q
  <2> DEFINE m == [queue |-> q, addr |-> a, tx |-> t, copy |-> published[a][t] + 1, deliveries |-> 0]
  <2>1. m \in Routed(a, t)
    BY DEF Routed
  <2>2. m.queue = q
    OBVIOUS
  <2> QED
    BY <2>1, <2>2
<1> QED
  BY <1>2, <1>3, <1>5, <1>6, <1>7

\* Uniqueness, when a task goes on or ends and new messages arrive.
LEMMA UniqueStep ==
    ASSUME UniqueInv, NEW k \in tasks, NEW X,
           \A j \in X : j.msg = k.msg, \A i, j \in X : i = j,
           tasks' = (tasks \ {k}) \cup X,
           \A m \in ready' \ ready : \A n \in Pending : ~Same(m, n),
           \A m, n \in ready' \ ready : Same(m, n) => m = n
    PROVE  UniqueInv'
<1>1. \A j \in tasks' : \E i \in tasks : i.msg = j.msg /\ (i # k => i = j) /\ (i = k => j \in X)
  OBVIOUS
<1>2. \A m, n : Same(m, n) => Same(n, m)
  BY DEF Same
<1>3. \A j \in tasks : j.msg \in Pending
  BY DEF Pending
<1>4. ready \subseteq Pending
  BY DEF Pending
<1>5. \A m, n \in ready' : Same(m, n) => m = n
  BY <1>2, <1>4 DEF UniqueInv
<1>6. \A m \in ready', j \in tasks' : ~Same(m, j.msg)
  BY <1>1, <1>3 DEF UniqueInv
<1>7. ASSUME NEW i \in tasks', NEW j \in tasks', Same(i.msg, j.msg) PROVE i = j
  <2>1. PICK i0 \in tasks : i0.msg = i.msg /\ (i0 # k => i0 = i) /\ (i0 = k => i \in X)
    BY <1>1
  <2>2. PICK j0 \in tasks : j0.msg = j.msg /\ (j0 # k => j0 = j) /\ (j0 = k => j \in X)
    BY <1>1
  <2>3. i0 = j0
    BY <1>7, <2>1, <2>2 DEF UniqueInv
  <2> QED
    BY <2>1, <2>2, <2>3
<1> QED
  BY <1>5, <1>6, <1>7 DEF UniqueInv

\* sendMessage, when the broker has the message and when it does not.
Sends(a, t) == Publish(a, t) \/ UNCHANGED <<published, ready>>

LEMMA SendsFacts ==
    ASSUME Inv, NEW a \in AddressName, NEW t \in Txs, Sends(a, t)
    PROVE  /\ published' \in [AddressName -> [Txs -> Nat]] /\ ready' \subseteq Message
           /\ \A b \in AddressName, u \in Txs :
                /\ published'[b][u] \in {published[b][u], published[b][u] + 1}
                /\ ~(b = a /\ u = t) => published'[b][u] = published[b][u]
           /\ ready \subseteq ready'
           /\ \A m \in ready' \ ready :
                 /\ m \in Message /\ m.addr = a /\ m.tx = t /\ m.copy = published[a][t] + 1
                 /\ m.queue \in Routes(a) /\ Publish(a, t)
           /\ \A b \in AddressName, u \in Txs : \A c \in 1..published'[b][u] :
                \/ c \in 1..published[b][u]
                \/ \E m \in ready' : m.queue = "EventsLog" /\ Entry(m) = <<b, u, c>>
           /\ \A m \in ready' \ ready : \A n \in Pending : ~Same(m, n)
           /\ \A m, n \in ready' \ ready : Same(m, n) => m = n
           /\ Publish(a, t) => published'[a][t] = published[a][t] + 1
<1>1. published \in [AddressName -> [Txs -> Nat]] /\ ready \subseteq Message
  BY DEF Inv, TypeInv
<1>2. CASE UNCHANGED <<published, ready>> /\ ~Publish(a, t)
  <2>1. published' = published /\ ready' = ready
    BY <1>2
  <2> QED
    BY <1>1, <1>2, <2>1
<1>3. CASE Publish(a, t)
  <2>1. /\ published' \in [AddressName -> [Txs -> Nat]]
        /\ published'[a][t] = published[a][t] + 1
        /\ \A b \in AddressName, u \in Txs : ~(b = a /\ u = t) => published'[b][u] = published[b][u]
    BY <1>1, <1>3 DEF Publish
  <2>2. ready' = ready \cup Routed(a, t)
    BY <1>3 DEF Publish
  <2>3. ASSUME NEW b \in AddressName, NEW u \in Txs, NEW c \in 1..published'[b][u], c \notin 1..published[b][u]
        PROVE  \E m \in ready' : m.queue = "EventsLog" /\ Entry(m) = <<b, u, c>>
    <3>1. b = a /\ u = t
      BY <2>1, <2>3
    <3>2. published[a][t] \in Nat /\ c = published[a][t] + 1
      <4>1. published[a][t] \in Nat
        BY <1>1
      <4>2. c \in 1..published[a][t] + 1 /\ c \notin 1..published[a][t]
        BY <2>1, <2>3, <3>1
      <4> QED
        BY <4>1, <4>2
    <3>3. PICK m \in Routed(a, t) : m.queue = "EventsLog"
      BY RoutedFacts
    <3>4. m.addr = a /\ m.tx = t /\ m.copy = published[a][t] + 1
      BY RoutedFacts
    <3> QED
      BY <2>2, <3>1, <3>2, <3>3, <3>4 DEF Entry
  <2>4. \A b \in AddressName, u \in Txs : published'[b][u] \in {published[b][u], published[b][u] + 1}
    BY <2>1
  <2>5. /\ \A m \in ready' \ ready : \A n \in Pending : ~Same(m, n)
        /\ \A m, n \in ready' \ ready : Same(m, n) => m = n
    BY <2>2, RoutedFacts
  <2>6. \A m \in Routed(a, t) :
                 /\ m \in Message /\ m.addr = a /\ m.tx = t /\ m.copy = published[a][t] + 1
                 /\ m.queue \in Routes(a)
    BY RoutedFacts
  <2> HIDE DEF Publish
  <2> QED
    BY <1>1, <1>3, <2>1, <2>2, <2>3, <2>4, <2>5, <2>6
<1> QED
  BY <1>2, <1>3 DEF Sends

\* What a step that is not a stop leaves as it was.
WorkMono ==
    /\ chain \subseteq chain'
    /\ \A t \in Txs : offlineTx[t] # "none" => offlineTx'[t] # "none"
    /\ \A e : Rows(e) <= Rows(e)'
    /\ faults <= faults' /\ crashes' = crashes

LEMMA QuietBefore ==
    ASSUME faults \in Nat, faults' \in Nat, crashes \in Nat, crashes' \in Nat, faults <= faults', crashes' = crashes
    PROVE  (Quiet' => Quiet) /\ (crashes' = 0 => crashes = 0)
BY DEF Quiet

\* A listener goes on or ends, and may have sent a message.
LEMMA TaskStep ==
    ASSUME Inv, NEW k \in tasks, NEW X,
           X \subseteq Task, \A j \in X : j.msg = k.msg, \A i, j \in X : i = j,
           k \notin X, tasks' = (tasks \ {k}) \cup X, dlq' \in {dlq, dlq \cup {k.msg}},
           NEW a \in AddressName, Sends(a, k.msg.tx),
           WorkType', WorkMono, UNCHANGED receipt,
           \/ X # {} \/ k.msg \in dlq'
           \/ k.msg.queue = "Requests" /\ Carried(k.msg.tx) /\ dlq' = dlq
           \/ k.msg.queue = "Signatures" /\ k.msg.tx \in chain
           \/ k.msg.queue = "EventsLog" /\ Rows(Entry(k.msg))' > 0,
           \A j \in X : TaskInv(j)',
           \A m \in ready : Calm(m), \A j \in tasks \ {k} : Calm(j.msg),
           \A m \in ready' \ ready : UntouchedInv(m)',
           \A t \in Txs : OrderInv(t)' /\ OnceInv(t)',
           \A e \in DOMAIN offlineEvents' :
               \E b \in AddressName, t \in Txs : \E c \in 1..published[b][t] : e = <<b, t, c>>,
           crashes' = 0 => \A e \in DOMAIN offlineEvents' : offlineEvents'[e] = 1
    PROVE  Inv'
<1>1. TypeInv /\ UniqueInv /\ MessagesInv /\ k \in Task
  BY DEF Inv, TypeInv
<1>2. k.msg \in Message /\ k.msg.tx \in Txs
  BY <1>1 DEF Task, Message
<1> DEFINE t0 == k.msg.tx
<1>3. /\ published' \in [AddressName -> [Txs -> Nat]] /\ ready' \subseteq Message
      /\ \A b \in AddressName, u \in Txs : published'[b][u] \in {published[b][u], published[b][u] + 1}
      /\ ready \subseteq ready'
      /\ \A m \in ready' \ ready :
            /\ m \in Message /\ m.addr = a /\ m.tx = t0 /\ m.copy = published[a][t0] + 1
            /\ m.queue \in Routes(a) /\ Publish(a, t0)
      /\ \A b \in AddressName, u \in Txs : \A c \in 1..published'[b][u] :
           \/ c \in 1..published[b][u]
           \/ \E m \in ready' : m.queue = "EventsLog" /\ Entry(m) = <<b, u, c>>
      /\ \A m \in ready' \ ready : \A n \in Pending : ~Same(m, n)
      /\ \A m, n \in ready' \ ready : Same(m, n) => m = n
      /\ Publish(a, t0) => published'[a][t0] = published[a][t0] + 1
  BY <1>2, SendsFacts
<1>4. TypeInv'
  <2>1. tasks' \subseteq Task /\ dlq' \subseteq Message
    BY <1>1, <1>2 DEF TypeInv
  <2> QED
    BY <1>3, <2>1 DEF TypeInv, WorkType
<1>5. UniqueInv'
  BY <1>1, <1>3, UniqueStep
<1>6. Mono
  <2>1. ASSUME NEW b \in AddressName, NEW u \in Txs PROVE published[b][u] <= published'[b][u]
    <3>1. published[b][u] \in Nat
      BY <1>1 DEF TypeInv
    <3>2. published'[b][u] \in {published[b][u], published[b][u] + 1}
      BY <1>3
    <3> QED
      BY <3>1, <3>2
  <2>2. (Quiet' => Quiet) /\ (crashes' = 0 => crashes = 0)
    <3>1. faults \in Nat /\ crashes \in Nat /\ faults' \in Nat /\ crashes' \in Nat
      BY <1>1, <1>4 DEF TypeInv
    <3>2. faults <= faults' /\ crashes' = crashes
      BY DEF WorkMono
    <3> QED
      BY <3>1, <3>2, QuietBefore
  <2> QED
    BY <2>1, <2>2 DEF Mono, WorkMono
<1>7. Kept
  <2>1. \A m : Same(m, m)
    BY DEF Same
  <2>2. ASSUME NEW m \in Pending \cup dlq, ~(\E i \in {k} : m = i.msg) PROVE Survives(m)
    <3>1. CASE m \in ready \cup dlq
      BY <1>3, <2>1, <3>1 DEF Survives, Pending
    <3>2. ASSUME NEW j \in tasks, m = j.msg PROVE Survives(m)
      <4>1. j \in tasks'
        BY <2>2, <3>2
      <4>2. m \in Pending'
        BY <3>2, <4>1 DEF Pending
      <4> QED
        BY <2>1, <4>2 DEF Survives
    <3> QED
      BY <3>1, <3>2 DEF Pending
  <2>3. X # {} \/ k.msg \in dlq' => Survives(k.msg)
    <3>1. CASE k.msg \in dlq'
      BY <2>1, <3>1 DEF Survives
    <3>2. ASSUME NEW j \in X PROVE Survives(k.msg)
      BY <2>1 DEF Survives, Pending
    <3> QED
      BY <3>1, <3>2
  <2>4. CASE k.msg.queue = "Requests" /\ Carried(k.msg.tx)
    <3>1. CASE k.msg.tx \in chain
      BY <2>2, <2>4, <3>1 DEF Kept, WorkMono
    <3>2. ASSUME NEW n \in Pending \cup dlq, n.tx = k.msg.tx, n.queue = "Signatures"
          PROVE  Kept
      <4>1. Survives(n)
        BY <2>2, <2>4, <3>2
      <4>2. \E x \in Pending' \cup dlq' : x.tx = k.msg.tx /\ x.queue = "Signatures"
        BY <3>2, <4>1 DEF Survives, Same
      <4> QED
        BY <2>2, <2>4, <4>2 DEF Kept
    <3> QED
      BY <2>4, <3>1, <3>2 DEF Carried
  <2> QED
    BY <2>2, <2>3, <2>4 DEF Kept, WorkMono
<1>8. ASSUME NEW m \in ready' \ ready PROVE SentInv(m)'
  <2>1. m.addr = a /\ m.tx = t0 /\ m.copy = published[a][t0] + 1 /\ m.queue \in Routes(a) /\ Publish(a, t0)
    BY <1>3
  <2>2. m.copy = published'[m.addr][m.tx] /\ published'[m.addr][m.tx] \in Nat
    BY <1>2, <1>3, <2>1
  <2> QED
    BY <2>1, <2>2 DEF SentInv
<1>9. SentInv(k.msg)'
  BY <1>1, <1>2, <1>4, <1>6, SentKept DEF MessagesInv
<1>10. \A e \in DOMAIN offlineEvents' :
          \E b \in AddressName, t \in Txs : \E c \in 1..published'[b][t] : e = <<b, t, c>>
  <2>1. ASSUME NEW b \in AddressName, NEW t \in Txs, NEW c \in 1..published[b][t] PROVE c \in 1..published'[b][t]
    <3>1. published[b][t] \in Nat
      BY <1>1 DEF TypeInv
    <3>2. published'[b][t] \in {published[b][t], published[b][t] + 1}
      BY <1>3
    <3> QED
      BY <3>1, <3>2
  <2> QED
    BY <2>1
<1>11. \A m \in dlq' \ dlq : SentInv(m)'
  BY <1>9
<1>12. \A j \in tasks' \ tasks : SentInv(j.msg)' /\ TaskInv(j)'
  <2>1. ASSUME NEW j \in X PROVE SentInv(j.msg)'
    BY <1>9 DEF SentInv
  <2> QED
    BY <2>1
<1>13. \A j \in tasks \cap tasks' : Calm(j.msg)
  OBVIOUS
<1> QED
  BY <1>3, <1>4, <1>5, <1>6, <1>7, <1>8, <1>10, <1>11, <1>12, <1>13, StepInv

\* A message that is published now has not been recorded.
LEMMA NoRowYet ==
    ASSUME Inv, NEW m \in Message, m.copy = published[m.addr][m.tx] + 1
    PROVE  Rows(Entry(m)) = 0
<1> SUFFICES ASSUME Entry(m) \in DOMAIN offlineEvents PROVE FALSE
  BY DEF Rows
<1>1. PICK a \in AddressName, t \in Txs : \E c \in 1..published[a][t] : Entry(m) = <<a, t, c>>
  BY DEF Inv, LogInv
<1>2. PICK c \in 1..published[a][t] : Entry(m) = <<a, t, c>>
  BY <1>1
<1>3. m.addr = a /\ m.tx = t /\ m.copy = c
  BY <1>2 DEF Entry
<1>4. published[a][t] \in Nat
  BY DEF Inv, TypeInv
<1> QED
  BY <1>2, <1>3, <1>4

\* The message of a task was published on the address of its queue.
LEMMA TaskFacts ==
    ASSUME Inv, NEW k \in tasks
    PROVE  /\ k \in Task /\ k.msg \in Message /\ k.msg.tx \in Txs /\ SentInv(k.msg) /\ TaskInv(k)
           /\ \A a \in AddressName : published[a][k.msg.tx] \in Nat
           /\ k.msg.queue # "EventsLog" => published[k.msg.queue][k.msg.tx] > 0
<1>1. k \in Task /\ SentInv(k.msg) /\ TaskInv(k)
  BY DEF Inv, TypeInv, MessagesInv
<1>2. k.msg \in Message /\ k.msg.tx \in Txs /\ k.msg.addr \in AddressName /\ k.msg.copy \in Nat \ {0}
  BY <1>1 DEF Task, Message
<1>3. \A a \in AddressName : published[a][k.msg.tx] \in Nat
  BY <1>2 DEF Inv, TypeInv
<1>4. k.msg.queue # "EventsLog" => k.msg.addr = k.msg.queue
  BY <1>1 DEF SentInv, Routes
<1>5. published[k.msg.addr][k.msg.tx] > 0
  BY <1>1, <1>2, <1>3 DEF SentInv
<1> QED
  BY <1>1, <1>2, <1>3, <1>4, <1>5

\* A call fails: the message goes to the dead letters.
LEMMA FailStep ==
    ASSUME Inv, NEW k \in tasks, Reject(k), NEW a \in AddressName, Sends(a, k.msg.tx), Fault,
           UNCHANGED <<receipt, nonce, mempool, chain, offlineTx, updates, offlineEvents, crashes>>,
           a = "Finalizations" => k.msg.tx \in chain,
           a = "Requests" => UNCHANGED <<published, ready>>,
           a = "Signatures" => k.msg.queue = "Requests"
    PROVE  Inv'
<1> DEFINE t0 == k.msg.tx
<1>1. /\ k \in Task /\ k.msg \in Message /\ t0 \in Txs
      /\ \A b \in AddressName : published[b][t0] \in Nat
      /\ k.msg.queue # "EventsLog" => published[k.msg.queue][t0] > 0
  BY TaskFacts
<1>2. TypeInv /\ faults \in Nat /\ faults' = faults + 1
  BY DEF Inv, TypeInv, Fault
<1>3. WorkType'
  BY <1>2 DEF TypeInv, WorkType
<1>4. \A e : Rows(e)' = Rows(e)
  BY DEF Rows
<1>5. WorkMono
  BY <1>2, <1>4, RowsNat DEF WorkMono
<1>6. ~Quiet'
  BY <1>2 DEF Quiet
<1>7. \A m : Calm(m)
  BY <1>4, <1>6 DEF Calm, UntouchedInv
<1>8. /\ \A b \in AddressName, u \in Txs :
           /\ published'[b][u] \in {published[b][u], published[b][u] + 1}
           /\ ~(b = a /\ u = t0) => published'[b][u] = published[b][u]
      /\ \A m \in ready' \ ready :
            /\ m \in Message /\ m.addr = a /\ m.tx = t0 /\ m.copy = published[a][t0] + 1
  BY <1>1, SendsFacts
<1>9. ASSUME NEW m \in ready' \ ready PROVE UntouchedInv(m)'
  <2>1. Rows(Entry(m)) = 0
    BY <1>8, NoRowYet
  <2> QED
    BY <1>4, <1>6, <2>1 DEF UntouchedInv
<1>10. ASSUME NEW t \in Txs PROVE OrderInv(t)'
  <2>1. OrderInv(t)
    BY DEF Inv
  <2>2. CASE t # t0
    <3>1. \A b \in AddressName : published'[b][t] = published[b][t]
      BY <1>8, <2>2
    <3> QED
      BY <2>1, <3>1 DEF OrderInv, AddressName
  <2>3. CASE t = t0 /\ a = "Requests"
    BY <2>1, <2>3 DEF OrderInv
  <2>4. CASE t = t0 /\ a = "Signatures"
    <3>1. published'["Finalizations"][t] = published["Finalizations"][t] /\ published'["Requests"][t] = published["Requests"][t]
      BY <1>8, <2>4 DEF AddressName
    <3>2. published["Signatures"][t] \in Nat /\ published["Requests"][t] > 0
      BY <1>1, <2>4 DEF AddressName
    <3>3. published'["Signatures"][t] \in {published["Signatures"][t], published["Signatures"][t] + 1}
      BY <1>8 DEF AddressName
    <3>4. published["Signatures"][t] > 0 => published'["Signatures"][t] > 0
      BY <3>2, <3>3
    <3> QED
      BY <2>1, <3>1, <3>2, <3>4 DEF OrderInv
  <2>5. CASE t = t0 /\ a = "Finalizations"
    <3>1. published'["Signatures"][t] = published["Signatures"][t] /\ published'["Requests"][t] = published["Requests"][t]
      BY <1>8, <2>5 DEF AddressName
    <3> QED
      BY <2>1, <2>5, <3>1 DEF OrderInv
  <2> QED
    BY <2>2, <2>3, <2>4, <2>5 DEF AddressName
<1>11. \A t \in Txs : OnceInv(t)'
  BY <1>6 DEF OnceInv
<1>12. tasks' = (tasks \ {k}) \cup {} /\ dlq' = dlq \cup {k.msg}
  BY DEF Reject
<1>13. /\ \A e \in DOMAIN offlineEvents' :
            \E b \in AddressName, t \in Txs : \E c \in 1..published[b][t] : e = <<b, t, c>>
       /\ crashes' = 0 => \A e \in DOMAIN offlineEvents' : offlineEvents'[e] = 1
  BY DEF Inv, LogInv
<1> HIDE DEF t0
<1>14. UNCHANGED receipt
  OBVIOUS
<1>15. k.msg \in dlq'
  BY <1>12
<1> QED
  <2> DEFINE X == {}
  <2>1. /\ X \subseteq Task /\ (\A j \in X : j.msg = k.msg) /\ (\A i, j \in X : i = j)
        /\ k \notin X /\ \A j \in X : TaskInv(j)'
    OBVIOUS
  <2>2. tasks' = (tasks \ {k}) \cup X
    BY <1>12
  <2>3. dlq' \in {dlq, dlq \cup {k.msg}}
    BY <1>12
  <2>4. (\A m \in ready : Calm(m)) /\ (\A j \in tasks \ {k} : Calm(j.msg))
    BY <1>7
  <2> HIDE DEF X
  <2> QED
    BY <1>3, <1>5, <1>9, <1>10, <1>11, <1>13, <1>14, <1>15, <2>1, <2>2, <2>3, <2>4, TaskStep

LEMMA SignFailsStep ==
    ASSUME Inv, NEW k \in tasks, SignFails(k)
    PROVE  Inv'
BY FailStep DEF SignFails, Sends, AddressName

LEMMA SendSignatureFailsStep ==
    ASSUME Inv, NEW k \in tasks, SendSignatureFails(k)
    PROVE  Inv'
BY FailStep DEF SendSignatureFails, SendFails, Sends, AddressName, At

LEMMA SubmitFailsStep ==
    ASSUME Inv, NEW k \in tasks, SubmitFails(k)
    PROVE  Inv'
BY FailStep DEF SubmitFails, Sends, AddressName

LEMMA PublishFinalizationFailsStep ==
    ASSUME Inv, NEW k \in tasks, PublishFinalizationFails(k)
    PROVE  Inv'
<1>1. k.msg.tx \in chain
  BY TaskFacts DEF PublishFinalizationFails, At, TaskInv
<1> QED
  BY <1>1, FailStep DEF PublishFinalizationFails, SendFails, Sends, AddressName

---------------------------------------------------------------------------
PcNames == {"start", "sending", "sent", "submitting", "awaiting", "publishing", "published", "recorded"}

\* A listener goes on.
LEMMA ProceedFacts ==
    ASSUME NEW k \in Task, NEW pc \in PcNames, pc # k.pc, Proceed(k, pc)
    PROVE  \E j \in Task : j.msg = k.msg /\ j.pc = pc /\ j # k /\ tasks' = (tasks \ {k}) \cup {j}
<1> DEFINE j == [k EXCEPT !.pc = pc]
<1>1. j \in Task /\ j.msg = k.msg /\ j.pc = pc
  BY DEF Task, PcNames
<1>2. tasks' = (tasks \ {k}) \cup {j}
  BY DEF Proceed
<1> HIDE DEF j
<1> QED
  BY <1>1, <1>2

\* When there is one request and one signature of a transaction, no other message on the
\* queue of k is of the same transaction.
LEMMA OneCopy ==
    ASSUME Inv, NEW k \in tasks, k.msg.queue # "EventsLog",
           \A t \in Txs : published["Requests"][t] <= 1 /\ published["Signatures"][t] <= 1
    PROVE  /\ \A m \in ready : ~(m.queue = k.msg.queue /\ m.tx = k.msg.tx)
           /\ \A j \in tasks \ {k} : ~(j.msg.queue = k.msg.queue /\ j.msg.tx = k.msg.tx)
<1>1. ASSUME NEW m \in Message, SentInv(m), m.queue # "EventsLog"
      PROVE  m.addr = m.queue /\ m.copy = 1
  <2>1. m.addr = m.queue /\ m.addr \in {"Requests", "Signatures"} /\ m.copy \in Nat \ {0} /\ m.tx \in Txs
    BY <1>1 DEF SentInv, Routes, Message, AddressName
  <2>2. published[m.addr][m.tx] \in Nat /\ published[m.addr][m.tx] <= 1
    BY <2>1 DEF Inv, TypeInv, AddressName
  <2> QED
    BY <1>1, <2>1, <2>2 DEF SentInv
<1>2. k.msg \in Message /\ SentInv(k.msg)
  BY TaskFacts
<1>3. ASSUME NEW m \in ready, m.queue = k.msg.queue /\ m.tx = k.msg.tx PROVE FALSE
  <2>1. m \in Message /\ SentInv(m)
    BY DEF Inv, TypeInv, MessagesInv
  <2>2. Same(m, k.msg)
    BY <1>1, <1>2, <1>3, <2>1 DEF Same
  <2> QED
    BY <2>2 DEF Inv, UniqueInv
<1>4. ASSUME NEW j \in tasks \ {k}, j.msg.queue = k.msg.queue /\ j.msg.tx = k.msg.tx PROVE FALSE
  <2>1. j.msg \in Message /\ SentInv(j.msg)
    BY TaskFacts
  <2>2. Same(j.msg, k.msg)
    BY <1>1, <1>2, <1>4, <2>1 DEF Same
  <2> QED
    BY <2>2 DEF Inv, UniqueInv
<1> QED
  BY <1>3, <1>4

\* While nothing fails there is one request and one signature of a transaction.
LEMMA OnlyOne ==
    ASSUME Inv, Quiet, NEW k \in tasks, k.msg.queue # "EventsLog"
    PROVE  /\ \A m \in ready : ~(m.queue = k.msg.queue /\ m.tx = k.msg.tx)
           /\ \A j \in tasks \ {k} : ~(j.msg.queue = k.msg.queue /\ j.msg.tx = k.msg.tx)
BY OneCopy DEF Inv, OnceInv

\* OnceInv, when task k goes on or ends without a failure.
LEMMA OnceKept ==
    ASSUME Inv, NEW t \in Txs, NEW k \in tasks, tasks \ {k} \subseteq tasks',
           UNCHANGED <<faults, crashes>>,
           published'["Requests"][t] = published["Requests"][t],
           published'["Signatures"][t] = published["Signatures"][t],
           t \in mempool' => t \in mempool, t \in chain' => t \in chain,
           offlineTx'[t] = offlineTx[t], t \in updates => t \in updates',
           Quiet /\ At(k, "Signatures", "awaiting") /\ k.msg.tx = t /\ t \in mempool =>
             \E j \in tasks' : At(j, "Signatures", "awaiting") /\ j.msg.tx = t,
           /\ Quiet /\ k.msg.queue = "Signatures" /\ k.pc \in {"awaiting", "publishing", "published"}
           /\ k.msg.tx = t /\ t \in chain
           => \/ t \in updates'
              \/ \E j \in tasks' : /\ j.msg.queue = "Signatures" /\ j.msg.tx = t
                                   /\ j.pc \in {"awaiting", "publishing", "published"}
    PROVE  OnceInv(t)'
<1>1. OnceInv(t)
  BY DEF Inv
<1> SUFFICES ASSUME Quiet'
             PROVE  /\ published'["Requests"][t] <= 1 /\ published'["Signatures"][t] <= 1
                    /\ t \in mempool' => \E j \in tasks' : At(j, "Signatures", "awaiting") /\ j.msg.tx = t
                    /\ t \in chain' /\ offlineTx'[t] = "Signed" =>
                         \/ t \in updates'
                         \/ \E j \in tasks' : /\ j.msg.queue = "Signatures" /\ j.msg.tx = t
                                              /\ j.pc \in {"awaiting", "publishing", "published"}
  BY DEF OnceInv, At
<1>2. Quiet
  BY DEF Quiet
<1>3. t \in mempool => \E j \in tasks' : At(j, "Signatures", "awaiting") /\ j.msg.tx = t
  <2>1. ASSUME t \in mempool PROVE \E j \in tasks' : At(j, "Signatures", "awaiting") /\ j.msg.tx = t
    <3>1. PICK i \in tasks : At(i, "Signatures", "awaiting") /\ i.msg.tx = t
      BY <1>1, <1>2, <2>1 DEF OnceInv
    <3>2. CASE i = k
      BY <1>2, <2>1, <3>1, <3>2
    <3>3. CASE i # k
      BY <3>1, <3>3
    <3> QED
      BY <3>2, <3>3
  <2> QED
    BY <2>1
<1>4. ASSUME t \in chain, offlineTx[t] = "Signed"
      PROVE  \/ t \in updates'
             \/ \E j \in tasks' : /\ j.msg.queue = "Signatures" /\ j.msg.tx = t
                                  /\ j.pc \in {"awaiting", "publishing", "published"}
  <2>1. CASE t \in updates
    BY <2>1
  <2>2. ASSUME NEW i \in tasks, i.msg.queue = "Signatures", i.msg.tx = t,
               i.pc \in {"awaiting", "publishing", "published"}
        PROVE  \/ t \in updates'
               \/ \E j \in tasks' : /\ j.msg.queue = "Signatures" /\ j.msg.tx = t
                                    /\ j.pc \in {"awaiting", "publishing", "published"}
    <3>1. CASE i = k
      BY <1>2, <1>4, <2>2, <3>1
    <3>2. CASE i # k
      BY <2>2, <3>2
    <3> QED
      BY <3>1, <3>2
  <2> QED
    BY <1>1, <1>2, <1>4, <2>1, <2>2 DEF OnceInv
<1>5. published["Requests"][t] <= 1 /\ published["Signatures"][t] <= 1
  BY <1>1, <1>2 DEF OnceInv
<1> QED
  BY <1>3, <1>4, <1>5

\* A listener goes on or ends and nothing else changes.
LEMMA PlainStep ==
    ASSUME Inv, NEW k \in tasks, NEW X,
           X \subseteq Task, \A j \in X : j.msg = k.msg, \A i, j \in X : i = j,
           k \notin X, tasks' = (tasks \ {k}) \cup X, dlq' \in {dlq, dlq \cup {k.msg}},
           UNCHANGED <<published, ready, workVars>>,
           \/ X # {} \/ k.msg \in dlq'
           \/ k.msg.queue = "Requests" /\ Carried(k.msg.tx) /\ dlq' = dlq
           \/ k.msg.queue = "EventsLog" /\ Rows(Entry(k.msg)) > 0,
           \A j \in X : TaskInv(j)',
           At(k, "Signatures", "awaiting") => k.msg.tx \notin mempool,
           k.msg.queue = "Signatures" /\ k.pc \in {"awaiting", "publishing", "published"} =>
             k.msg.tx \notin chain \/ \E j \in X : j.pc \in {"awaiting", "publishing", "published"}
    PROVE  Inv'
<1>1. UNCHANGED <<receipt, nonce, mempool, chain, offlineTx, updates, offlineEvents, faults, crashes>>
  BY DEF workVars
<1>2. TypeInv
  BY DEF Inv
<1>3. WorkType'
  BY <1>1, <1>2 DEF TypeInv, WorkType
<1>4. \A e : Rows(e)' = Rows(e) /\ Rows(e) \in Nat
  BY <1>1, <1>2, RowsNat DEF Rows
<1>5. WorkMono
  BY <1>1, <1>2, <1>4 DEF WorkMono, TypeInv
<1>6. \A m : Calm(m)
  BY <1>1, <1>4 DEF Calm, UntouchedInv, Quiet
<1>7. ASSUME NEW t \in Txs PROVE OrderInv(t)'
  BY <1>1 DEF Inv, OrderInv
<1>8. ASSUME NEW t \in Txs PROVE OnceInv(t)'
  <2>1. tasks \ {k} \subseteq tasks'
    OBVIOUS
  <2> QED
    BY <1>1, <2>1, OnceKept DEF At
<1>9. /\ \A e \in DOMAIN offlineEvents' :
            \E b \in AddressName, t \in Txs : \E c \in 1..published[b][t] : e = <<b, t, c>>
      /\ crashes' = 0 => \A e \in DOMAIN offlineEvents' : offlineEvents'[e] = 1
  BY <1>1 DEF Inv, LogInv
<1>10. Sends("Requests", k.msg.tx) /\ "Requests" \in AddressName
  BY DEF Sends, AddressName
<1>11. UNCHANGED receipt /\ ready' \ ready = {}
  BY <1>1
<1>12. \/ X # {} \/ k.msg \in dlq'
       \/ k.msg.queue = "Requests" /\ Carried(k.msg.tx) /\ dlq' = dlq
       \/ k.msg.queue = "EventsLog" /\ Rows(Entry(k.msg))' > 0
  BY <1>1 DEF Rows
<1> QED
  BY <1>3, <1>5, <1>6, <1>7, <1>8, <1>9, <1>10, <1>11, <1>12, TaskStep

\* Sign: the request is still untouched.
LEMMA SignStep ==
    ASSUME Inv, NEW k \in tasks, Sign(k)
    PROVE  Inv'
<1>1. k \in Task /\ TaskInv(k) /\ k.pc = "start" /\ k.msg.queue = "Requests"
  BY TaskFacts DEF Sign, At
<1>2. PICK j \in Task : j.msg = k.msg /\ j.pc = "sending" /\ j # k /\ tasks' = (tasks \ {k}) \cup {j}
  BY <1>1, ProceedFacts DEF Sign, PcNames
<1>3. UNCHANGED <<published, ready, dlq>> /\ UNCHANGED workVars
  BY DEF Sign
<1>4. TaskInv(j)'
  <2>1. UntouchedInv(k.msg)
    BY <1>1 DEF TaskInv
  <2>2. UntouchedInv(k.msg)'
    BY <1>3, <2>1 DEF UntouchedInv, Quiet, Rows, workVars
  <2> QED
    BY <1>1, <1>2, <2>2 DEF TaskInv, Pcs
<1> DEFINE X == {j}
<1>5. /\ X \subseteq Task /\ (\A i \in X : i.msg = k.msg) /\ (\A h, i \in X : h = i) /\ k \notin X
      /\ X # {} /\ (\A i \in X : TaskInv(i)') /\ tasks' = (tasks \ {k}) \cup X
  BY <1>2, <1>4
<1> HIDE DEF X
<1> QED
  BY <1>1, <1>3, <1>5, PlainStep DEF At

\* SignatureSent: the signature carries on.
LEMMA SignatureSentStep ==
    ASSUME Inv, NEW k \in tasks, SignatureSent(k)
    PROVE  Inv'
<1>1. TaskInv(k) /\ k.pc = "sent" /\ k.msg.queue = "Requests"
  BY TaskFacts DEF SignatureSent, At
<1>2. UNCHANGED <<published, ready, workVars>> /\ dlq' = dlq
  BY DEF SignatureSent, Accept
<1>3. Carried(k.msg.tx)
  BY <1>1 DEF TaskInv
<1> DEFINE X == {}
<1>4. /\ X \subseteq Task /\ (\A i \in X : i.msg = k.msg) /\ (\A h, i \in X : h = i) /\ k \notin X
      /\ (\A i \in X : TaskInv(i)') /\ tasks' = (tasks \ {k}) \cup X
  BY DEF SignatureSent, Accept
<1> HIDE DEF X
<1> QED
  BY <1>1, <1>2, <1>3, <1>4, PlainStep DEF At

\* EventRecorded: the row is there.
LEMMA EventRecordedStep ==
    ASSUME Inv, NEW k \in tasks, EventRecorded(k)
    PROVE  Inv'
<1>1. TaskInv(k) /\ k.pc = "recorded" /\ k.msg.queue = "EventsLog"
  BY TaskFacts DEF EventRecorded, At
<1>2. UNCHANGED <<published, ready, workVars>> /\ dlq' = dlq
  BY DEF EventRecorded, Accept
<1>3. Rows(Entry(k.msg)) > 0
  BY <1>1 DEF TaskInv
<1> DEFINE X == {}
<1>4. /\ X \subseteq Task /\ (\A i \in X : i.msg = k.msg) /\ (\A h, i \in X : h = i) /\ k \notin X
      /\ (\A i \in X : TaskInv(i)') /\ tasks' = (tasks \ {k}) \cup X
  BY DEF EventRecorded, Accept
<1> HIDE DEF X
<1> QED
  BY <1>1, <1>2, <1>3, <1>4, PlainStep DEF At

\* SubmitReturns: the transaction is on the chain, or the message is dead.
LEMMA SubmitReturnsStep ==
    ASSUME Inv, NEW k \in tasks, SubmitReturns(k)
    PROVE  Inv'
<1>1. k \in Task /\ TaskInv(k) /\ k.pc = "awaiting" /\ k.msg.queue = "Signatures" /\ k.msg.tx \notin mempool
  BY TaskFacts DEF SubmitReturns, At
<1>2. UNCHANGED <<published, ready, workVars>>
  BY DEF SubmitReturns
<1>3. CASE k.msg.tx \in chain
  <2>1. PICK j \in Task : j.msg = k.msg /\ j.pc = "publishing" /\ j # k /\ tasks' = (tasks \ {k}) \cup {j}
    BY <1>1, <1>3, ProceedFacts DEF SubmitReturns, PcNames
  <2>2. dlq' = dlq
    BY <1>3 DEF SubmitReturns
  <2>3. offlineTx' = offlineTx /\ chain' = chain
    BY <1>2 DEF workVars
  <2>4. TaskInv(j)'
    BY <1>1, <1>3, <2>1, <2>3 DEF TaskInv, Pcs
  <2> DEFINE X == {j}
  <2>5. /\ X \subseteq Task /\ (\A i \in X : i.msg = k.msg) /\ (\A h, i \in X : h = i) /\ k \notin X
        /\ X # {} /\ (\A i \in X : TaskInv(i)') /\ tasks' = (tasks \ {k}) \cup X
        /\ \E i \in X : i.pc \in {"awaiting", "publishing", "published"}
    BY <2>1, <2>4
  <2> HIDE DEF X
  <2> QED
    BY <1>1, <1>2, <2>2, <2>5, PlainStep DEF At
<1>4. CASE k.msg.tx \notin chain
  <2>1. tasks' = tasks \ {k} /\ dlq' = dlq \cup {k.msg}
    BY <1>4 DEF SubmitReturns, Reject
  <2> DEFINE X == {}
  <2>2. /\ X \subseteq Task /\ (\A i \in X : i.msg = k.msg) /\ (\A h, i \in X : h = i) /\ k \notin X
        /\ (\A i \in X : TaskInv(i)') /\ tasks' = (tasks \ {k}) \cup X /\ k.msg \in dlq'
    BY <2>1
  <2> HIDE DEF X
  <2> QED
    BY <1>1, <1>2, <1>4, <2>1, <2>2, PlainStep DEF At
<1> QED
  BY <1>3, <1>4

\* SendSignature: while nothing fails it is the first signature.
LEMMA SendSignatureStep ==
    ASSUME Inv, NEW k \in tasks, SendSignature(k)
    PROVE  Inv'
<1> DEFINE t0 == k.msg.tx
<1>1. /\ k \in Task /\ TaskInv(k) /\ k.pc = "sending" /\ k.msg.queue = "Requests" /\ t0 \in Txs
      /\ published["Requests"][t0] > 0 /\ \A b \in AddressName : published[b][t0] \in Nat
  BY TaskFacts DEF SendSignature, At
<1>2. PICK j \in Task : j.msg = k.msg /\ j.pc = "sent" /\ j # k /\ tasks' = (tasks \ {k}) \cup {j}
  BY <1>1, ProceedFacts DEF SendSignature, PcNames
<1>3. /\ UNCHANGED <<receipt, nonce, mempool, chain, offlineTx, updates, offlineEvents, faults, crashes>>
      /\ dlq' = dlq
  BY DEF SendSignature, workVars
<1>4. "Signatures" \in AddressName /\ Publish("Signatures", t0) /\ Sends("Signatures", t0)
  BY DEF SendSignature, Sends, AddressName
<1>5. /\ \A b \in AddressName, u \in Txs :
            ~(b = "Signatures" /\ u = t0) => published'[b][u] = published[b][u]
      /\ \A m \in ready' \ ready :
            /\ m \in Message /\ m.addr = "Signatures" /\ m.tx = t0 /\ m.copy = published["Signatures"][t0] + 1
      /\ published'["Signatures"][t0] = published["Signatures"][t0] + 1
      /\ \E m \in ready' : m.tx = t0 /\ m.queue = "Signatures"
  <2>1. \E m \in Routed("Signatures", t0) : m.queue = "Signatures"
    BY <1>1, <1>4, RoutedFacts
  <2>2. \A m \in Routed("Signatures", t0) : m.tx = t0
    BY <1>1, <1>4, RoutedFacts
  <2>3. Routed("Signatures", t0) \subseteq ready'
    BY <1>4 DEF Publish
  <2>4. \E m \in ready' : m.tx = t0 /\ m.queue = "Signatures"
    BY <2>1, <2>2, <2>3
  <2> HIDE DEF t0
  <2>5. /\ \A b \in AddressName, u \in Txs :
            ~(b = "Signatures" /\ u = t0) => published'[b][u] = published[b][u]
        /\ \A m \in ready' \ ready :
            /\ m \in Message /\ m.addr = "Signatures" /\ m.tx = t0 /\ m.copy = published["Signatures"][t0] + 1
        /\ published'["Signatures"][t0] = published["Signatures"][t0] + 1
    BY <1>1, <1>4, SendsFacts
  <2> QED
    BY <2>4, <2>5
<1>6. TypeInv /\ OrderInv(t0) /\ OnceInv(t0)
  BY <1>1 DEF Inv
<1>7. WorkType'
  BY <1>3, <1>6 DEF TypeInv, WorkType
<1>8. \A e : Rows(e)' = Rows(e) /\ Rows(e) \in Nat
  BY <1>3, <1>6, RowsNat DEF Rows
<1>9. WorkMono
  BY <1>3, <1>6, <1>8 DEF WorkMono, TypeInv
<1>10. Quiet' <=> Quiet
  BY <1>3 DEF Quiet
<1>11. Quiet => published["Signatures"][t0] = 0
  BY <1>1 DEF TaskInv, UntouchedInv
<1>12. Quiet => t0 \notin mempool \cup chain
  BY <1>6, <1>11 DEF OrderInv
<1>13. ASSUME NEW m \in Message, Quiet => ~(m.queue = "Requests" /\ m.tx = t0) PROVE Calm(m)
  <2>1. Quiet /\ m.queue = "Requests" => published'["Signatures"][m.tx] = published["Signatures"][m.tx]
    BY <1>4, <1>5, <1>13 DEF Message
  <2> QED
    BY <1>3, <1>8, <1>10, <2>1 DEF Calm, UntouchedInv
<1>14. /\ Quiet => \A m \in ready : ~(m.queue = "Requests" /\ m.tx = t0)
       /\ Quiet => \A i \in tasks \ {k} : ~(i.msg.queue = "Requests" /\ i.msg.tx = t0)
  BY <1>1, OnlyOne
<1>15. (\A m \in ready : Calm(m)) /\ (\A i \in tasks \ {k} : Calm(i.msg))
  <2>1. ready \subseteq Message /\ \A i \in tasks : i.msg \in Message
    BY <1>6 DEF TypeInv, Task
  <2> QED
    BY <1>13, <1>14, <2>1
<1>16. ASSUME NEW m \in ready' \ ready PROVE UntouchedInv(m)'
  <2>1. Rows(Entry(m)) = 0
    BY <1>5, NoRowYet
  <2>2. m.tx = t0 /\ m.addr = "Signatures"
    BY <1>5
  <2>3. m.queue # "Requests"
    <3>1. m.queue \in Routes("Signatures")
      BY <1>1, <1>4, SendsFacts
    <3> QED
      BY <3>1 DEF Routes
  <2> QED
    BY <1>3, <1>8, <1>10, <1>12, <2>1, <2>2, <2>3 DEF UntouchedInv
<1>17. TaskInv(j)'
  <2>1. Carried(j.msg.tx)'
    BY <1>2, <1>5 DEF Carried, Pending
  <2> QED
    BY <1>1, <1>2, <2>1 DEF TaskInv, Pcs
<1>18. ASSUME NEW t \in Txs PROVE OrderInv(t)'
  <2>1. OrderInv(t)
    BY DEF Inv
  <2>2. /\ published'["Requests"][t] = published["Requests"][t]
        /\ published'["Finalizations"][t] = published["Finalizations"][t]
    BY <1>5 DEF AddressName
  <2>3. CASE t # t0
    <3>1. published'["Signatures"][t] = published["Signatures"][t]
      BY <1>4, <1>5, <2>3
    <3> QED
      BY <1>3, <2>1, <2>2, <3>1 DEF OrderInv
  <2>4. CASE t = t0
    <3>1. published'["Signatures"][t] > 0 /\ published["Requests"][t] > 0
      BY <1>1, <1>4, <1>5, <2>4
    <3> QED
      BY <1>3, <2>1, <2>2, <3>1 DEF OrderInv
  <2> QED
    BY <2>3, <2>4
<1>19. ASSUME NEW t \in Txs PROVE OnceInv(t)'
  <2>1. tasks \ {k} \subseteq tasks'
    BY <1>2
  <2>2. published'["Requests"][t] = published["Requests"][t]
    BY <1>5 DEF AddressName
  <2>3. CASE t # t0
    <3>1. published'["Signatures"][t] = published["Signatures"][t]
      BY <1>4, <1>5, <2>3
    <3> QED
      BY <1>1, <1>3, <2>1, <2>2, <3>1, OnceKept DEF At
  <2>4. CASE t = t0
    <3>1. Quiet => published'["Signatures"][t] = 1
      BY <1>5, <1>11, <2>4
    <3>2. Quiet => published'["Requests"][t] <= 1
      BY <1>6, <2>2, <2>4 DEF OnceInv
    <3> QED
      BY <1>3, <1>10, <1>12, <2>4, <3>1, <3>2 DEF OnceInv
  <2> QED
    BY <2>3, <2>4
<1>20. /\ \A e \in DOMAIN offlineEvents' :
            \E b \in AddressName, t \in Txs : \E c \in 1..published[b][t] : e = <<b, t, c>>
       /\ crashes' = 0 => \A e \in DOMAIN offlineEvents' : offlineEvents'[e] = 1
  BY <1>3 DEF Inv, LogInv
<1> DEFINE X == {j}
<1>21. /\ X \subseteq Task /\ (\A i \in X : i.msg = k.msg) /\ (\A h, i \in X : h = i) /\ k \notin X
       /\ X # {} /\ (\A i \in X : TaskInv(i)') /\ tasks' = (tasks \ {k}) \cup X
  BY <1>2, <1>17
<1> HIDE DEF X
<1>22. dlq' \in {dlq, dlq \cup {k.msg}} /\ UNCHANGED receipt
  BY <1>3
<1> QED
  BY <1>4, <1>7, <1>9, <1>15, <1>16, <1>18, <1>19, <1>20, <1>21, <1>22, TaskStep

\* PublishFinalization: the transaction is on the chain.
LEMMA PublishFinalizationStep ==
    ASSUME Inv, NEW k \in tasks, PublishFinalization(k)
    PROVE  Inv'
<1> DEFINE t0 == k.msg.tx
<1>1. /\ k \in Task /\ TaskInv(k) /\ k.pc = "publishing" /\ k.msg.queue = "Signatures" /\ t0 \in Txs
      /\ t0 \in chain /\ offlineTx[t0] # "none"
  BY TaskFacts DEF PublishFinalization, At, TaskInv
<1>2. PICK j \in Task : j.msg = k.msg /\ j.pc = "published" /\ j # k /\ tasks' = (tasks \ {k}) \cup {j}
  BY <1>1, ProceedFacts DEF PublishFinalization, PcNames
<1>3. /\ UNCHANGED <<receipt, nonce, mempool, chain, offlineTx, updates, offlineEvents, faults, crashes>>
      /\ dlq' = dlq
  BY DEF PublishFinalization, workVars
<1>4. "Finalizations" \in AddressName /\ Sends("Finalizations", t0)
  BY DEF PublishFinalization, Sends, AddressName
<1>5. /\ \A b \in AddressName, u \in Txs :
            ~(b = "Finalizations" /\ u = t0) => published'[b][u] = published[b][u]
      /\ \A m \in ready' \ ready :
            /\ m \in Message /\ m.addr = "Finalizations" /\ m.tx = t0
            /\ m.copy = published["Finalizations"][t0] + 1 /\ m.queue \in Routes("Finalizations")
  BY <1>1, <1>4, SendsFacts
<1>6. TypeInv
  BY DEF Inv
<1>7. WorkType'
  BY <1>3, <1>6 DEF TypeInv, WorkType
<1>8. \A e : Rows(e)' = Rows(e) /\ Rows(e) \in Nat
  BY <1>3, <1>6, RowsNat DEF Rows
<1>9. WorkMono
  BY <1>3, <1>6, <1>8 DEF WorkMono, TypeInv
<1>10. Quiet' <=> Quiet
  BY <1>3 DEF Quiet
<1>11. \A t \in Txs : /\ published'["Requests"][t] = published["Requests"][t]
                      /\ published'["Signatures"][t] = published["Signatures"][t]
  BY <1>5 DEF AddressName
<1>12. ASSUME NEW m \in Message PROVE Calm(m)
  <2>1. m.tx \in Txs
    BY DEF Message
  <2> QED
    BY <1>3, <1>8, <1>10, <1>11, <2>1 DEF Calm, UntouchedInv
<1>13. (\A m \in ready : Calm(m)) /\ (\A i \in tasks \ {k} : Calm(i.msg))
  <2>1. ready \subseteq Message /\ \A i \in tasks : i.msg \in Message
    BY <1>6 DEF TypeInv, Task
  <2> QED
    BY <1>12, <2>1
<1>14. ASSUME NEW m \in ready' \ ready PROVE UntouchedInv(m)'
  <2>1. Rows(Entry(m)) = 0
    BY <1>5, NoRowYet
  <2>2. m.queue = "EventsLog"
    BY <1>5 DEF Routes
  <2> QED
    BY <1>8, <2>1, <2>2 DEF UntouchedInv
<1>15. TaskInv(j)'
  BY <1>1, <1>2, <1>3 DEF TaskInv, Pcs
<1>16. ASSUME NEW t \in Txs PROVE OrderInv(t)'
  <2>1. OrderInv(t)
    BY DEF Inv
  <2>2. t # t0 => published'["Finalizations"][t] = published["Finalizations"][t]
    BY <1>4, <1>5
  <2> QED
    BY <1>1, <1>3, <1>11, <2>1, <2>2 DEF OrderInv
<1>17. ASSUME NEW t \in Txs PROVE OnceInv(t)'
  <2>1. tasks \ {k} \subseteq tasks' /\ j \in tasks'
    BY <1>2
  <2> QED
    BY <1>1, <1>2, <1>3, <1>11, <2>1, OnceKept DEF At
<1>18. /\ \A e \in DOMAIN offlineEvents' :
            \E b \in AddressName, t \in Txs : \E c \in 1..published[b][t] : e = <<b, t, c>>
       /\ crashes' = 0 => \A e \in DOMAIN offlineEvents' : offlineEvents'[e] = 1
  BY <1>3 DEF Inv, LogInv
<1> DEFINE X == {j}
<1>19. /\ X \subseteq Task /\ (\A i \in X : i.msg = k.msg) /\ (\A h, i \in X : h = i) /\ k \notin X
       /\ X # {} /\ (\A i \in X : TaskInv(i)') /\ tasks' = (tasks \ {k}) \cup X
  BY <1>2, <1>15
<1> HIDE DEF X
<1>20. dlq' \in {dlq, dlq \cup {k.msg}} /\ UNCHANGED receipt
  BY <1>3
<1> QED
  BY <1>4, <1>7, <1>9, <1>13, <1>14, <1>16, <1>17, <1>18, <1>19, <1>20, TaskStep

\* FinalizationSent: the update is under way when the message is accepted.
LEMMA FinalizationSentStep ==
    ASSUME Inv, NEW k \in tasks, FinalizationSent(k)
    PROVE  Inv'
<1> DEFINE t0 == k.msg.tx
<1>1. /\ k \in Task /\ TaskInv(k) /\ k.pc = "published" /\ k.msg.queue = "Signatures" /\ t0 \in Txs
      /\ t0 \in chain
  BY TaskFacts DEF FinalizationSent, At, TaskInv
<1>2. /\ UNCHANGED <<published, ready, receipt, nonce, mempool, chain, offlineTx, offlineEvents, faults, crashes>>
      /\ dlq' = dlq /\ updates' = updates \cup {t0} /\ tasks' = tasks \ {k}
  BY DEF FinalizationSent, Accept
<1>3. TypeInv
  BY DEF Inv
<1>4. WorkType'
  BY <1>1, <1>2, <1>3 DEF TypeInv, WorkType
<1>5. \A e : Rows(e)' = Rows(e) /\ Rows(e) \in Nat
  BY <1>2, <1>3, RowsNat DEF Rows
<1>6. WorkMono
  BY <1>2, <1>3, <1>5 DEF WorkMono, TypeInv
<1>7. \A m : Calm(m)
  BY <1>2, <1>5 DEF Calm, UntouchedInv, Quiet
<1>8. ASSUME NEW t \in Txs PROVE OrderInv(t)'
  BY <1>1, <1>2 DEF Inv, OrderInv
<1>9. ASSUME NEW t \in Txs PROVE OnceInv(t)'
  <2>1. tasks \ {k} \subseteq tasks'
    BY <1>2
  <2> QED
    BY <1>1, <1>2, <2>1, OnceKept DEF At
<1>10. /\ \A e \in DOMAIN offlineEvents' :
            \E b \in AddressName, t \in Txs : \E c \in 1..published[b][t] : e = <<b, t, c>>
       /\ crashes' = 0 => \A e \in DOMAIN offlineEvents' : offlineEvents'[e] = 1
  BY <1>2 DEF Inv, LogInv
<1>11. Sends("Requests", t0) /\ "Requests" \in AddressName
  BY <1>2 DEF Sends, AddressName
<1> DEFINE X == {}
<1>12. /\ X \subseteq Task /\ (\A i \in X : i.msg = k.msg) /\ (\A h, i \in X : h = i) /\ k \notin X
       /\ (\A i \in X : TaskInv(i)') /\ tasks' = (tasks \ {k}) \cup X
  BY <1>2
<1> HIDE DEF X
<1>13. dlq' \in {dlq, dlq \cup {k.msg}} /\ UNCHANGED receipt /\ ready' \ ready = {}
  BY <1>2
<1> QED
  BY <1>1, <1>4, <1>6, <1>7, <1>8, <1>9, <1>10, <1>11, <1>12, <1>13, TaskStep

\* What writing the row of t0 as Signed leaves true.
LEMMA SignedRow ==
    ASSUME Inv, NEW k \in tasks, At(k, "Signatures", "start"),
           \/ offlineTx' = offlineTx
           \/ offlineTx' = [offlineTx EXCEPT ![k.msg.tx] = "Signed"],
           UNCHANGED <<published, receipt, nonce, mempool, chain, updates, offlineEvents, crashes>>,
           faults <= faults', faults' \in Nat
    PROVE  /\ WorkType' /\ WorkMono
           /\ \A t \in Txs : OrderInv(t)' /\ (t # k.msg.tx => offlineTx'[t] = offlineTx[t])
           /\ \A m : Calm(m)
<1>1. TypeInv /\ k.msg.tx \in Txs /\ published["Signatures"][k.msg.tx] > 0
  BY TaskFacts DEF At, Inv
<1>2. /\ offlineTx' \in [Txs -> Statuses]
      /\ \A t \in Txs : t # k.msg.tx => offlineTx'[t] = offlineTx[t]
      /\ offlineTx'[k.msg.tx] \in {offlineTx[k.msg.tx], "Signed"}
  BY <1>1 DEF TypeInv, Statuses
<1>3. WorkType'
  BY <1>1, <1>2 DEF TypeInv, WorkType
<1>4. \A e : Rows(e)' = Rows(e) /\ Rows(e) \in Nat
  BY <1>1, RowsNat DEF Rows
<1>5. \A t \in Txs : offlineTx[t] # "none" => offlineTx'[t] # "none"
  BY <1>1, <1>2
<1>6. WorkMono
  BY <1>4, <1>5 DEF WorkMono
<1>7. ASSUME NEW t \in Txs PROVE OrderInv(t)'
  <2>1. OrderInv(t)
    BY DEF Inv
  <2>2. CASE t # k.msg.tx
    BY <1>2, <2>1, <2>2 DEF OrderInv
  <2>3. CASE t = k.msg.tx
    BY <1>1, <1>2, <2>1, <2>3 DEF OrderInv
  <2> QED
    BY <2>2, <2>3
<1>8. Quiet' => Quiet
  BY <1>1 DEF Quiet, TypeInv
<1>9. \A m : Calm(m)
  BY <1>4, <1>8 DEF Calm, UntouchedInv
<1> QED
  BY <1>2, <1>3, <1>6, <1>7, <1>9

\* CreateTx: while nothing fails the transaction has not been submitted yet.
LEMMA CreateTxStep ==
    ASSUME Inv, NEW k \in tasks, CreateTx(k)
    PROVE  Inv'
<1> DEFINE t0 == k.msg.tx
<1>1. /\ k \in Task /\ TaskInv(k) /\ k.pc = "start" /\ k.msg.queue = "Signatures" /\ t0 \in Txs
      /\ UntouchedInv(k.msg)
  BY TaskFacts DEF CreateTx, At, TaskInv
<1>2. PICK j \in Task : j.msg = k.msg /\ j.pc = "submitting" /\ j # k /\ tasks' = (tasks \ {k}) \cup {j}
  BY <1>1, ProceedFacts DEF CreateTx, PcNames
<1>3. /\ UNCHANGED <<published, ready, receipt, nonce, mempool, chain, updates, offlineEvents, faults, crashes>>
      /\ dlq' = dlq /\ offlineTx' = [offlineTx EXCEPT ![t0] = "Signed"]
  BY DEF CreateTx
<1>4. TypeInv /\ faults \in Nat /\ offlineTx'[t0] = "Signed"
  BY <1>1, <1>3 DEF Inv, TypeInv
<1>5. /\ WorkType' /\ WorkMono
      /\ \A t \in Txs : OrderInv(t)' /\ (t # t0 => offlineTx'[t] = offlineTx[t])
      /\ \A m : Calm(m)
  <2>1. At(k, "Signatures", "start") /\ faults <= faults' /\ faults' \in Nat
    BY <1>3, <1>4 DEF CreateTx
  <2> QED
    BY <1>3, <2>1, SignedRow
<1>6. TaskInv(j)'
  <2>1. UntouchedInv(k.msg)'
    BY <1>1, <1>5 DEF Calm
  <2> QED
    BY <1>1, <1>2, <1>4, <2>1 DEF TaskInv, Pcs
<1>7. ASSUME NEW t \in Txs PROVE OnceInv(t)'
  <2>1. tasks \ {k} \subseteq tasks'
    BY <1>2
  <2>2. CASE t # t0
    BY <1>1, <1>3, <1>5, <2>1, <2>2, OnceKept DEF At
  <2>3. CASE t = t0
    <3>1. Quiet => t0 \notin mempool \cup chain
      BY <1>1 DEF UntouchedInv
    <3>2. OnceInv(t0)
      BY <1>1 DEF Inv
    <3> QED
      BY <1>3, <2>3, <3>1, <3>2 DEF OnceInv, Quiet
  <2> QED
    BY <2>2, <2>3
<1>8. /\ \A e \in DOMAIN offlineEvents' :
            \E b \in AddressName, t \in Txs : \E c \in 1..published[b][t] : e = <<b, t, c>>
      /\ crashes' = 0 => \A e \in DOMAIN offlineEvents' : offlineEvents'[e] = 1
  BY <1>3 DEF Inv, LogInv
<1>9. Sends("Requests", t0) /\ "Requests" \in AddressName
  BY <1>3 DEF Sends, AddressName
<1> DEFINE X == {j}
<1>10. /\ X \subseteq Task /\ (\A i \in X : i.msg = k.msg) /\ (\A h, i \in X : h = i) /\ k \notin X
       /\ X # {} /\ (\A i \in X : TaskInv(i)') /\ tasks' = (tasks \ {k}) \cup X
  BY <1>2, <1>6
<1> HIDE DEF X
<1>11. dlq' \in {dlq, dlq \cup {k.msg}} /\ UNCHANGED receipt /\ ready' \ ready = {}
  BY <1>3
<1> QED
  BY <1>5, <1>7, <1>8, <1>9, <1>10, <1>11, TaskStep

\* CreateTxFails
LEMMA CreateTxFailsStep ==
    ASSUME Inv, NEW k \in tasks, CreateTxFails(k)
    PROVE  Inv'
<1> DEFINE t0 == k.msg.tx
<1>1. TypeInv /\ faults \in Nat /\ faults' = faults + 1 /\ At(k, "Signatures", "start")
  BY DEF Inv, TypeInv, CreateTxFails, Fault
<1>2. /\ UNCHANGED <<published, ready, receipt, nonce, mempool, chain, updates, offlineEvents, crashes>>
      /\ dlq' = dlq \cup {k.msg} /\ tasks' = tasks \ {k}
      /\ offlineTx' = offlineTx \/ offlineTx' = [offlineTx EXCEPT ![t0] = "Signed"]
  BY DEF CreateTxFails, Reject
<1>3. faults <= faults' /\ faults' \in Nat /\ ~Quiet'
  BY <1>1 DEF Quiet
<1>4. /\ WorkType' /\ WorkMono
      /\ \A t \in Txs : OrderInv(t)'
      /\ \A m : Calm(m)
  BY <1>1, <1>2, <1>3, SignedRow
<1>5. \A t \in Txs : OnceInv(t)'
  BY <1>3 DEF OnceInv
<1>6. /\ \A e \in DOMAIN offlineEvents' :
            \E b \in AddressName, t \in Txs : \E c \in 1..published[b][t] : e = <<b, t, c>>
      /\ crashes' = 0 => \A e \in DOMAIN offlineEvents' : offlineEvents'[e] = 1
  BY <1>2 DEF Inv, LogInv
<1>7. Sends("Requests", t0) /\ "Requests" \in AddressName
  BY <1>2 DEF Sends, AddressName
<1> DEFINE X == {}
<1>8. /\ X \subseteq Task /\ (\A i \in X : i.msg = k.msg) /\ (\A h, i \in X : h = i) /\ k \notin X
      /\ (\A i \in X : TaskInv(i)') /\ tasks' = (tasks \ {k}) \cup X
  BY <1>2
<1> HIDE DEF X
<1>9. dlq' \in {dlq, dlq \cup {k.msg}} /\ k.msg \in dlq' /\ UNCHANGED receipt /\ ready' \ ready = {}
  BY <1>2
<1> QED
  BY <1>4, <1>5, <1>6, <1>7, <1>8, <1>9, TaskStep

\* Broadcast: only the one listener of the signature brings the transaction in.
LEMMA BroadcastStep ==
    ASSUME Inv, NEW k \in tasks, Broadcast(k)
    PROVE  Inv'
<1> DEFINE t0 == k.msg.tx
<1>1. /\ k \in Task /\ TaskInv(k) /\ k.pc = "submitting" /\ k.msg.queue = "Signatures" /\ t0 \in Txs
      /\ UntouchedInv(k.msg) /\ offlineTx[t0] # "none"
  BY TaskFacts DEF Broadcast, At, TaskInv
<1>2. UNCHANGED <<published, ready, receipt, nonce, chain, offlineTx, updates, offlineEvents, faults, crashes>>
  BY DEF Broadcast
<1>3. CASE UNCHANGED mempool /\ Reject(k)
  <2>1. tasks' = tasks \ {k} /\ dlq' = dlq \cup {k.msg}
    BY <1>3 DEF Reject
  <2>2. UNCHANGED <<published, ready, workVars>>
    BY <1>2, <1>3 DEF workVars
  <2> DEFINE X == {}
  <2>3. /\ X \subseteq Task /\ (\A i \in X : i.msg = k.msg) /\ (\A h, i \in X : h = i) /\ k \notin X
        /\ (\A i \in X : TaskInv(i)') /\ tasks' = (tasks \ {k}) \cup X /\ k.msg \in dlq'
    BY <2>1
  <2> HIDE DEF X
  <2> QED
    BY <1>1, <2>1, <2>2, <2>3, PlainStep DEF At
<1>4. CASE mempool' = mempool \cup {t0} /\ Proceed(k, "awaiting") /\ dlq' = dlq
  <2>1. PICK j \in Task : j.msg = k.msg /\ j.pc = "awaiting" /\ j # k /\ tasks' = (tasks \ {k}) \cup {j}
    BY <1>1, <1>4, ProceedFacts DEF PcNames
  <2>2. TypeInv
    BY DEF Inv
  <2>3. WorkType'
    BY <1>1, <1>2, <1>4, <2>2 DEF TypeInv, WorkType
  <2>4. \A e : Rows(e)' = Rows(e) /\ Rows(e) \in Nat
    BY <1>2, <2>2, RowsNat DEF Rows
  <2>5. WorkMono
    BY <1>2, <2>2, <2>4 DEF WorkMono, TypeInv
  <2>6. /\ Quiet => \A m \in ready : ~(m.queue = "Signatures" /\ m.tx = t0)
        /\ Quiet => \A i \in tasks \ {k} : ~(i.msg.queue = "Signatures" /\ i.msg.tx = t0)
    BY <1>1, OnlyOne
  <2>7. ASSUME NEW m, Quiet => ~(m.queue = "Signatures" /\ m.tx = t0) PROVE Calm(m)
    BY <1>2, <1>4, <2>4, <2>7 DEF Calm, UntouchedInv, Quiet
  <2>8. (\A m \in ready : Calm(m)) /\ (\A i \in tasks \ {k} : Calm(i.msg))
    BY <2>6, <2>7
  <2>9. TaskInv(j)'
    BY <1>1, <1>2, <2>1 DEF TaskInv, Pcs
  <2>10. ASSUME NEW t \in Txs PROVE OrderInv(t)'
    BY <1>1, <1>2, <1>4 DEF Inv, OrderInv
  <2>11. ASSUME NEW t \in Txs PROVE OnceInv(t)'
    <3>1. tasks \ {k} \subseteq tasks'
      BY <2>1
    <3>2. CASE t # t0
      BY <1>1, <1>2, <1>4, <3>1, <3>2, OnceKept DEF At
    <3>3. CASE t = t0
      <4>1. Quiet => t0 \notin chain
        BY <1>1 DEF UntouchedInv
      <4>2. OnceInv(t0)
        BY <1>1 DEF Inv
      <4>3. \E i \in tasks' : At(i, "Signatures", "awaiting") /\ i.msg.tx = t0
        BY <1>1, <2>1 DEF At
      <4> QED
        BY <1>2, <3>3, <4>1, <4>2, <4>3 DEF OnceInv, Quiet, At
    <3> QED
      BY <3>2, <3>3
  <2>12. /\ \A e \in DOMAIN offlineEvents' :
            \E b \in AddressName, t \in Txs : \E c \in 1..published[b][t] : e = <<b, t, c>>
         /\ crashes' = 0 => \A e \in DOMAIN offlineEvents' : offlineEvents'[e] = 1
    BY <1>2 DEF Inv, LogInv
  <2>13. Sends("Requests", t0) /\ "Requests" \in AddressName
    BY <1>2 DEF Sends, AddressName
  <2> DEFINE X == {j}
  <2>14. /\ X \subseteq Task /\ (\A i \in X : i.msg = k.msg) /\ (\A h, i \in X : h = i) /\ k \notin X
         /\ X # {} /\ (\A i \in X : TaskInv(i)') /\ tasks' = (tasks \ {k}) \cup X
    BY <2>1, <2>9
  <2> HIDE DEF X
  <2>15. dlq' \in {dlq, dlq \cup {k.msg}} /\ UNCHANGED receipt /\ ready' \ ready = {}
    BY <1>2, <1>4
  <2> QED
    BY <2>3, <2>5, <2>8, <2>10, <2>11, <2>12, <2>13, <2>14, <2>15, TaskStep
<1> QED
  BY <1>3, <1>4 DEF Broadcast

\* What a row of the audit log leaves true.
LEMMA RecordedRow ==
    ASSUME Inv, NEW k \in tasks, At(k, "EventsLog", "start"),
           offlineEvents' = offlineEvents \/ offlineEvents' = RowAdded(Entry(k.msg)),
           UNCHANGED <<published, ready, receipt, nonce, mempool, chain, offlineTx, updates, crashes>>,
           faults <= faults', faults' \in Nat
    PROVE  /\ WorkType' /\ WorkMono
           /\ \A t \in Txs : OrderInv(t)'
           /\ \A m \in ready : Calm(m)
           /\ \A j \in tasks \ {k} : Calm(j.msg)
           /\ \A e \in DOMAIN offlineEvents' :
                \E b \in AddressName, t \in Txs : \E c \in 1..published[b][t] : e = <<b, t, c>>
           /\ crashes' = 0 => \A e \in DOMAIN offlineEvents' : offlineEvents'[e] = 1
           /\ offlineEvents' = RowAdded(Entry(k.msg)) => Rows(Entry(k.msg))' > 0
<1> DEFINE e0 == Entry(k.msg)
<1>1. TypeInv /\ LogInv /\ UniqueInv
  BY DEF Inv
<1>2. /\ k.msg \in Message /\ SentInv(k.msg) /\ UntouchedInv(k.msg) /\ k.msg.queue = "EventsLog"
  BY TaskFacts DEF At, TaskInv
<1>3. \A e : Rows(e) \in Nat
  BY <1>1, RowsNat
<1>4. ASSUME offlineEvents' = RowAdded(e0)
      PROVE  /\ DOMAIN offlineEvents' = DOMAIN offlineEvents \cup {e0}
             /\ offlineEvents'[e0] = Rows(e0) + 1
             /\ \A e \in DOMAIN offlineEvents : e # e0 => offlineEvents'[e] = offlineEvents[e]
  <2>1. DOMAIN offlineEvents' = DOMAIN offlineEvents \cup {e0}
    BY <1>4 DEF RowAdded
  <2>2. offlineEvents'[e0] = Rows(e0) + 1
    BY <1>3, <1>4 DEF RowAdded
  <2>3. ASSUME NEW e \in DOMAIN offlineEvents, e # e0 PROVE offlineEvents'[e] = offlineEvents[e]
    <3>1. offlineEvents'[e] = Rows(e) + 0
      BY <1>4, <2>3 DEF RowAdded
    <3>2. Rows(e) = offlineEvents[e]
      BY <2>3 DEF Rows
    <3> QED
      BY <1>3, <3>1, <3>2
  <2> QED
    BY <2>1, <2>2, <2>3
<1> HIDE DEF e0
<1>5. ASSUME NEW e PROVE Rows(e) <= Rows(e)' /\ (e # e0 => Rows(e)' = Rows(e))
  <2>1. CASE offlineEvents' = offlineEvents
    BY <1>3, <2>1 DEF Rows
  <2>2. CASE offlineEvents' = RowAdded(e0)
    <3>1. CASE e = e0
      BY <1>3, <1>4, <2>2, <3>1 DEF Rows
    <3>2. CASE e # e0
      <4>1. Rows(e)' = Rows(e)
        BY <1>4, <2>2, <3>2 DEF Rows
      <4> QED
        BY <1>3, <4>1
    <3> QED
      BY <3>1, <3>2
  <2> QED
    BY <2>1, <2>2 DEF e0
<1>6. WorkType'
  <2>1. \A e \in DOMAIN offlineEvents' : offlineEvents'[e] \in Nat \ {0}
    <3>1. CASE offlineEvents' = offlineEvents
      BY <1>1, <3>1 DEF TypeInv
    <3>2. CASE offlineEvents' = RowAdded(e0)
      <4>1. \A e \in DOMAIN offlineEvents : offlineEvents[e] \in Nat \ {0}
        BY <1>1 DEF TypeInv
      <4>2. offlineEvents'[e0] \in Nat \ {0}
        BY <1>3, <1>4, <3>2
      <4> QED
        BY <1>4, <3>2, <4>1, <4>2
    <3> QED
      BY <3>1, <3>2 DEF e0
  <2> QED
    BY <1>1, <2>1 DEF TypeInv, WorkType
<1>7. WorkMono
  BY <1>5 DEF WorkMono
<1>8. \A t \in Txs : OrderInv(t)'
  BY DEF Inv, OrderInv
<1>9. (Quiet' => Quiet) /\ (crashes' = 0 => crashes = 0)
  BY <1>1 DEF Quiet, TypeInv
<1>10. ASSUME NEW m, ~Same(m, k.msg) PROVE Calm(m)
  <2>1. m.queue = "EventsLog" => Entry(m) # e0
    BY <1>2, <1>10 DEF Same, Entry, e0
  <2> QED
    BY <1>5, <1>9, <2>1 DEF Calm, UntouchedInv
<1>11. (\A m \in ready : Calm(m)) /\ (\A j \in tasks \ {k} : Calm(j.msg))
  BY <1>1, <1>10 DEF UniqueInv
<1>12. \A e \in DOMAIN offlineEvents' :
         \E b \in AddressName, t \in Txs : \E c \in 1..published[b][t] : e = <<b, t, c>>
  <2>1. k.msg.addr \in AddressName /\ k.msg.tx \in Txs /\ k.msg.copy \in Nat \ {0}
    BY <1>2 DEF Message
  <2>2. published[k.msg.addr][k.msg.tx] \in Nat
    BY <1>1, <2>1 DEF TypeInv
  <2>3. k.msg.copy \in 1..published[k.msg.addr][k.msg.tx]
    BY <1>2, <2>1, <2>2 DEF SentInv
  <2>4. \E b \in AddressName, t \in Txs : \E c \in 1..published[b][t] : e0 = <<b, t, c>>
    BY <2>1, <2>3 DEF e0, Entry
  <2>5. \A e \in DOMAIN offlineEvents :
         \E b \in AddressName, t \in Txs : \E c \in 1..published[b][t] : e = <<b, t, c>>
    BY <1>1 DEF LogInv
  <2>6. DOMAIN offlineEvents' \subseteq DOMAIN offlineEvents \cup {e0}
    BY <1>4 DEF e0
  <2> QED
    BY <2>4, <2>5, <2>6
<1>13. ASSUME crashes' = 0, NEW e \in DOMAIN offlineEvents' PROVE offlineEvents'[e] = 1
  <2>1. \A d \in DOMAIN offlineEvents : offlineEvents[d] = 1
    BY <1>1, <1>9, <1>13 DEF LogInv
  <2>2. Rows(e0) = 0
    BY <1>2, <1>9, <1>13 DEF UntouchedInv, e0
  <2>3. CASE offlineEvents' = offlineEvents
    BY <1>13, <2>1, <2>3
  <2>4. CASE offlineEvents' = RowAdded(e0)
    BY <1>4, <1>13, <2>1, <2>2, <2>4
  <2> QED
    BY <2>3, <2>4 DEF e0
<1>14. offlineEvents' = RowAdded(e0) => Rows(e0)' > 0
  BY <1>3, <1>4 DEF Rows
<1>15. offlineEvents' = RowAdded(Entry(k.msg)) => Rows(Entry(k.msg))' > 0
  <2> SUFFICES ASSUME offlineEvents' = RowAdded(Entry(k.msg)) PROVE Rows(Entry(k.msg))' > 0
    OBVIOUS
  <2> QED
    BY <1>14 DEF e0
<1> QED
  BY <1>6, <1>7, <1>8, <1>11, <1>12, <1>13, <1>15

\* RecordEvent and RecordEventFails
LEMMA RecordEventStep ==
    ASSUME Inv, NEW k \in tasks, RecordEvent(k) \/ RecordEventFails(k)
    PROVE  Inv'
<1>1. At(k, "EventsLog", "start") /\ k \in Task /\ k.msg.queue = "EventsLog" /\ k.pc = "start"
  BY TaskFacts DEF RecordEvent, RecordEventFails, At
<1>2. /\ UNCHANGED <<published, ready, receipt, nonce, mempool, chain, offlineTx, updates, crashes>>
      /\ offlineEvents' = offlineEvents \/ offlineEvents' = RowAdded(Entry(k.msg))
  BY DEF RecordEvent, RecordEventFails
<1>3. faults \in Nat /\ faults <= faults' /\ faults' \in Nat
  <2>1. faults \in Nat
    BY DEF Inv, TypeInv
  <2>2. faults' = faults \/ faults' = faults + 1
    BY DEF RecordEvent, RecordEventFails, Fault
  <2> QED
    BY <2>1, <2>2
<1>4. /\ WorkType' /\ WorkMono
      /\ \A t \in Txs : OrderInv(t)'
      /\ \A m \in ready : Calm(m)
      /\ \A j \in tasks \ {k} : Calm(j.msg)
      /\ \A e \in DOMAIN offlineEvents' :
           \E b \in AddressName, t \in Txs : \E c \in 1..published[b][t] : e = <<b, t, c>>
      /\ crashes' = 0 => \A e \in DOMAIN offlineEvents' : offlineEvents'[e] = 1
      /\ offlineEvents' = RowAdded(Entry(k.msg)) => Rows(Entry(k.msg))' > 0
  BY <1>1, <1>2, <1>3, RecordedRow
<1>5. Sends("Requests", k.msg.tx) /\ "Requests" \in AddressName /\ UNCHANGED receipt /\ ready' \ ready = {}
  BY <1>2 DEF Sends, AddressName
<1>6. CASE RecordEvent(k)
  <2>1. PICK j \in Task : j.msg = k.msg /\ j.pc = "recorded" /\ j # k /\ tasks' = (tasks \ {k}) \cup {j}
    BY <1>1, <1>6, ProceedFacts DEF RecordEvent, PcNames
  <2>2. dlq' = dlq /\ UNCHANGED faults /\ offlineEvents' = RowAdded(Entry(k.msg))
    BY <1>6 DEF RecordEvent
  <2>3. TaskInv(j)'
    <3>1. Rows(Entry(j.msg))' > 0
      BY <1>4, <2>1, <2>2
    <3> QED
      BY <1>1, <2>1, <3>1 DEF TaskInv, Pcs
  <2>4. ASSUME NEW t \in Txs PROVE OnceInv(t)'
    <3>1. tasks \ {k} \subseteq tasks'
      BY <2>1
    <3> QED
      BY <1>1, <1>2, <2>2, <3>1, OnceKept DEF At
  <2> DEFINE X == {j}
  <2>5. /\ X \subseteq Task /\ (\A i \in X : i.msg = k.msg) /\ (\A h, i \in X : h = i) /\ k \notin X
        /\ X # {} /\ (\A i \in X : TaskInv(i)') /\ tasks' = (tasks \ {k}) \cup X
    BY <2>1, <2>3
  <2> HIDE DEF X
  <2>6. dlq' \in {dlq, dlq \cup {k.msg}}
    BY <2>2
  <2> QED
    BY <1>4, <1>5, <2>4, <2>5, <2>6, TaskStep
<1>7. CASE RecordEventFails(k)
  <2>1. tasks' = tasks \ {k} /\ dlq' = dlq \cup {k.msg} /\ faults' = faults + 1
    BY <1>7 DEF RecordEventFails, Reject, Fault
  <2>2. \A t \in Txs : OnceInv(t)'
    <3>1. ~Quiet'
      BY <1>3, <2>1 DEF Quiet
    <3> QED
      BY <3>1 DEF OnceInv
  <2> DEFINE X == {}
  <2>3. /\ X \subseteq Task /\ (\A i \in X : i.msg = k.msg) /\ (\A h, i \in X : h = i) /\ k \notin X
        /\ (\A i \in X : TaskInv(i)') /\ tasks' = (tasks \ {k}) \cup X
    BY <2>1
  <2> HIDE DEF X
  <2>4. dlq' \in {dlq, dlq \cup {k.msg}} /\ k.msg \in dlq'
    BY <2>1
  <2> QED
    BY <1>4, <1>5, <2>2, <2>3, <2>4, TaskStep
<1> QED
  BY <1>6, <1>7

---------------------------------------------------------------------------
\* A step that the broker takes no part in.
LEMMA StoreStep ==
    ASSUME Inv, UNCHANGED brokerVars, UNCHANGED offlineEvents, WorkType', WorkMono,
           \A m \in Message : Calm(m),
           \A t \in Txs : OrderInv(t)' /\ OnceInv(t)',
           \A t \in Txs : receipt'[t] = "receipt" => receipt[t] = "receipt"
    PROVE  Inv'
<1>1. UNCHANGED <<published, ready, tasks, dlq>>
  BY DEF brokerVars
<1>2. TypeInv /\ UniqueInv /\ MessagesInv /\ LogInv
  BY DEF Inv
<1>3. TypeInv'
  BY <1>1, <1>2 DEF TypeInv, WorkType
<1>4. UniqueInv'
  BY <1>1, <1>2 DEF UniqueInv
<1>5. Mono
  <2>1. \A a \in AddressName, t \in Txs : published[a][t] <= published'[a][t]
    BY <1>1, <1>2 DEF TypeInv
  <2>2. (Quiet' => Quiet) /\ (crashes' = 0 => crashes = 0)
    <3>1. faults \in Nat /\ crashes \in Nat /\ faults' \in Nat /\ crashes' \in Nat
      BY <1>2, <1>3 DEF TypeInv
    <3>2. faults <= faults' /\ crashes' = crashes
      BY DEF WorkMono
    <3> QED
      BY <3>1, <3>2, QuietBefore
  <2> QED
    BY <2>1, <2>2 DEF Mono, WorkMono
<1>6. Kept
  <2>1. \A m : Same(m, m)
    BY DEF Same
  <2>2. Pending' = Pending
    BY <1>1 DEF Pending
  <2> QED
    BY <1>1, <2>1, <2>2 DEF Kept, Survives
<1>7. (\A m \in ready \cap ready' : Calm(m)) /\ (\A j \in tasks \cap tasks' : Calm(j.msg))
  BY <1>2 DEF TypeInv, Task
<1>8. /\ ready' \ ready = {} /\ tasks' \ tasks = {} /\ dlq' \ dlq = {}
      /\ \A e \in DOMAIN offlineEvents' :
            \E b \in AddressName, t \in Txs : \E c \in 1..published'[b][t] : e = <<b, t, c>>
      /\ crashes' = 0 => \A e \in DOMAIN offlineEvents' : offlineEvents'[e] = 1
  <2>1. crashes' = crashes
    BY DEF WorkMono
  <2> QED
    BY <1>1, <1>2, <2>1 DEF LogInv
<1> QED
  BY <1>1, <1>3, <1>4, <1>5, <1>6, <1>7, <1>8, StepInv

LEMMA BeginTransactionStep ==
    ASSUME Inv, NEW t0 \in Txs, BeginTransaction(t0)
    PROVE  Inv'
<1>1. /\ UNCHANGED brokerVars /\ UNCHANGED <<published, tasks>>
      /\ UNCHANGED <<mempool, chain, offlineTx, updates, offlineEvents, faults, crashes>>
      /\ receipt[t0] = "new" /\ receipt' = [receipt EXCEPT ![t0] = "sending"]
  BY DEF BeginTransaction, brokerVars
<1>2. TypeInv
  BY DEF Inv
<1>3. WorkType'
  BY <1>1, <1>2 DEF TypeInv, WorkType
<1>4. \A e : Rows(e)' = Rows(e) /\ Rows(e) \in Nat
  BY <1>1, <1>2, RowsNat DEF Rows
<1>5. WorkMono
  BY <1>1, <1>2, <1>4 DEF WorkMono, TypeInv
<1>6. \A m : Calm(m)
  BY <1>1, <1>4 DEF Calm, UntouchedInv, Quiet
<1>7. ASSUME NEW t \in Txs PROVE OrderInv(t)' /\ OnceInv(t)'
  <2>1. OrderInv(t)'
    BY <1>1, <1>2 DEF Inv, OrderInv, TypeInv
  <2>2. OnceInv(t)'
    BY <1>1 DEF Inv, OnceInv, Quiet, At
  <2> QED
    BY <2>1, <2>2
<1>8. \A t \in Txs : receipt'[t] = "receipt" => receipt[t] = "receipt"
  BY <1>1, <1>2 DEF TypeInv
<1> QED
  BY <1>1, <1>3, <1>5, <1>6, <1>7, <1>8, StoreStep

\* Include: while nothing fails a listener awaits the transaction.
LEMMA IncludeStep ==
    ASSUME Inv, NEW t0 \in Txs, Include(t0)
    PROVE  Inv'
<1>1. /\ UNCHANGED brokerVars /\ UNCHANGED <<published, tasks>>
      /\ UNCHANGED <<receipt, offlineTx, updates, offlineEvents, faults, crashes>>
      /\ t0 \in mempool /\ mempool' = mempool \ {t0} /\ chain \subseteq chain' /\ chain' \subseteq chain \cup {t0}
  BY DEF Include, brokerVars
<1>2. TypeInv
  BY DEF Inv
<1>3. WorkType'
  BY <1>1, <1>2 DEF TypeInv, WorkType
<1>4. \A e : Rows(e)' = Rows(e) /\ Rows(e) \in Nat
  BY <1>1, <1>2, RowsNat DEF Rows
<1>5. WorkMono
  BY <1>1, <1>2, <1>4 DEF WorkMono, TypeInv
<1>6. \A m : Calm(m)
  BY <1>1, <1>4 DEF Calm, UntouchedInv, Quiet
<1>7. ASSUME NEW t \in Txs PROVE OrderInv(t)' /\ OnceInv(t)'
  <2>1. OrderInv(t)'
    BY <1>1 DEF Inv, OrderInv
  <2>2. OnceInv(t)
    BY DEF Inv
  <2>3. OnceInv(t)'
    <3>1. CASE t # t0
      BY <1>1, <2>2, <3>1 DEF OnceInv, Quiet, At
    <3>2. CASE t = t0
      <4>1. Quiet => \E k \in tasks : At(k, "Signatures", "awaiting") /\ k.msg.tx = t
        BY <1>1, <2>2, <3>2 DEF OnceInv
      <4>2. Quiet => \E k \in tasks : /\ k.msg.queue = "Signatures" /\ k.msg.tx = t
                                      /\ k.pc \in {"awaiting", "publishing", "published"}
        BY <4>1 DEF At
      <4> QED
        BY <1>1, <2>2, <3>2, <4>2 DEF OnceInv, Quiet
    <3> QED
      BY <3>1, <3>2
  <2> QED
    BY <2>1, <2>3
<1> QED
  BY <1>1, <1>3, <1>5, <1>6, <1>7, StoreStep

LEMMA IncludeOtherStep ==
    ASSUME Inv, NEW o \in Others, IncludeOther(o)
    PROVE  Inv'
<1>1. /\ UNCHANGED brokerVars /\ UNCHANGED <<published, tasks>>
      /\ UNCHANGED <<receipt, mempool, offlineTx, updates, offlineEvents, faults, crashes>>
      /\ chain' = chain \cup {o} /\ o \notin Txs
  BY OthersAssumption DEF IncludeOther, brokerVars
<1>2. TypeInv
  BY DEF Inv
<1>3. WorkType'
  BY <1>1, <1>2 DEF TypeInv, WorkType
<1>4. \A e : Rows(e)' = Rows(e) /\ Rows(e) \in Nat
  BY <1>1, <1>2, RowsNat DEF Rows
<1>5. WorkMono
  BY <1>1, <1>2, <1>4 DEF WorkMono, TypeInv
<1>6. ASSUME NEW m \in Message PROVE Calm(m)
  <2>1. m.tx # o
    BY <1>1 DEF Message
  <2> QED
    BY <1>1, <1>4, <2>1 DEF Calm, UntouchedInv, Quiet
<1>7. ASSUME NEW t \in Txs PROVE OrderInv(t)' /\ OnceInv(t)'
  <2>1. t \in chain' <=> t \in chain
    BY <1>1
  <2>2. OrderInv(t)'
    BY <1>1, <2>1 DEF Inv, OrderInv
  <2>3. OnceInv(t)'
    BY <1>1, <2>1 DEF Inv, OnceInv, Quiet, At
  <2> QED
    BY <2>2, <2>3
<1> QED
  BY <1>1, <1>3, <1>5, <1>6, <1>7, StoreStep

\* UpdateTx and UpdateTxFails
LEMMA UpdateTxStep ==
    ASSUME Inv, NEW t0 \in Txs, UpdateTx(t0) \/ UpdateTxFails(t0)
    PROVE  Inv'
<1>1. /\ UNCHANGED brokerVars /\ UNCHANGED <<published, tasks>>
      /\ UNCHANGED <<receipt, mempool, chain, offlineEvents, crashes>>
      /\ t0 \in updates /\ updates' = updates \ {t0}
      /\ offlineTx' \in {offlineTx, [offlineTx EXCEPT ![t0] = "Finalized"]}
  BY DEF UpdateTx, UpdateTxFails, brokerVars
<1>2. TypeInv /\ faults \in Nat /\ crashes \in Nat
  BY DEF Inv, TypeInv
<1>3. \/ faults' = faults + 1
      \/ faults' = faults /\ offlineTx' = [offlineTx EXCEPT ![t0] = "Finalized"]
  BY DEF UpdateTx, UpdateTxFails, Fault
<1>4. /\ offlineTx' \in [Txs -> Statuses]
      /\ \A t \in Txs : t # t0 => offlineTx'[t] = offlineTx[t]
      /\ offlineTx'[t0] \in {offlineTx[t0], "Finalized"}
      /\ faults' = faults => offlineTx'[t0] = "Finalized"
  BY <1>1, <1>2, <1>3 DEF TypeInv, Statuses
<1>5. WorkType'
  BY <1>1, <1>2, <1>3, <1>4 DEF TypeInv, WorkType
<1>6. \A e : Rows(e)' = Rows(e) /\ Rows(e) \in Nat
  BY <1>1, <1>2, RowsNat DEF Rows
<1>7. faults <= faults'
  BY <1>2, <1>3
<1>8. \A t \in Txs : offlineTx[t] # "none" => offlineTx'[t] # "none"
  BY <1>4
<1>9. WorkMono
  BY <1>1, <1>6, <1>7, <1>8 DEF WorkMono
<1>10. Quiet' => Quiet /\ faults' = faults
  BY <1>1, <1>2, <1>3 DEF Quiet
<1>11. \A m : Calm(m)
  BY <1>1, <1>6, <1>10 DEF Calm, UntouchedInv
<1>12. t0 \in chain /\ offlineTx[t0] # "none"
  BY <1>1 DEF Inv, OrderInv
<1>13. ASSUME NEW t \in Txs PROVE OrderInv(t)' /\ OnceInv(t)'
  <2>1. OrderInv(t) /\ OnceInv(t)
    BY DEF Inv
  <2>2. OrderInv(t)'
    <3>1. CASE t # t0
      BY <1>1, <1>4, <2>1, <3>1 DEF OrderInv
    <3>2. CASE t = t0
      BY <1>1, <1>8, <1>12, <2>1, <3>2 DEF OrderInv
    <3> QED
      BY <3>1, <3>2
  <2>3. OnceInv(t)'
    <3>1. CASE t # t0
      BY <1>1, <1>4, <1>10, <2>1, <3>1 DEF OnceInv, At
    <3>2. CASE t = t0
      BY <1>1, <1>4, <1>10, <2>1, <3>2 DEF OnceInv, At
    <3> QED
      BY <3>1, <3>2
  <2> QED
    BY <2>2, <2>3
<1> QED
  BY <1>1, <1>5, <1>9, <1>11, <1>13, StoreStep

\* SendRequest and SendRequestFails: nothing has happened to the transaction yet.
LEMMA SendRequestStep ==
    ASSUME Inv, NEW t0 \in Txs, SendRequest(t0) \/ SendRequestFails(t0)
    PROVE  Inv'
<1>1. /\ UNCHANGED <<tasks, dlq, mempool, chain, offlineTx, updates, offlineEvents, crashes>>
      /\ receipt[t0] = "sending" /\ receipt' \in {[receipt EXCEPT ![t0] = "receipt"], [receipt EXCEPT ![t0] = "error"]}
      /\ receipt' = [receipt EXCEPT ![t0] = "error"] \/ Publish("Requests", t0)
      /\ faults' \in {faults, faults + 1}
  BY DEF SendRequest, SendRequestFails, Fault
<1>2. TypeInv /\ UniqueInv /\ MessagesInv /\ faults \in Nat /\ OrderInv(t0) /\ published \in [AddressName -> [Txs -> Nat]]
  BY DEF Inv, TypeInv
<1>3. "Requests" \in AddressName /\ "Signatures" \in AddressName /\ "Finalizations" \in AddressName
  BY DEF AddressName
<1>4. Sends("Requests", t0)
  BY DEF SendRequest, SendRequestFails, SendFails, Sends
<1>5. /\ published' \in [AddressName -> [Txs -> Nat]] /\ ready' \subseteq Message
      /\ \A b \in AddressName, u \in Txs :
            /\ published'[b][u] \in {published[b][u], published[b][u] + 1}
            /\ ~(b = "Requests" /\ u = t0) => published'[b][u] = published[b][u]
      /\ ready \subseteq ready'
      /\ \A m \in ready' \ ready :
            /\ m \in Message /\ m.addr = "Requests" /\ m.tx = t0 /\ m.copy = published["Requests"][t0] + 1
            /\ m.queue \in Routes("Requests") /\ Publish("Requests", t0)
      /\ \A b \in AddressName, u \in Txs : \A c \in 1..published'[b][u] :
           \/ c \in 1..published[b][u]
           \/ \E m \in ready' : m.queue = "EventsLog" /\ Entry(m) = <<b, u, c>>
      /\ \A m \in ready' \ ready : \A n \in Pending : ~Same(m, n)
      /\ \A m, n \in ready' \ ready : Same(m, n) => m = n
      /\ Publish("Requests", t0) => published'["Requests"][t0] = published["Requests"][t0] + 1
  BY <1>3, <1>4, SendsFacts
<1>6. published["Requests"][t0] = 0 /\ published["Signatures"][t0] = 0
  <2>1. published["Requests"][t0] \in Nat /\ published["Signatures"][t0] \in Nat
    BY <1>2, <1>3
  <2> QED
    BY <1>1, <1>2, <2>1 DEF OrderInv
<1>7. t0 \notin mempool \cup chain
  BY <1>2, <1>6 DEF OrderInv
<1>8. TypeInv'
  <2>1. receipt' \in [Txs -> {"new", "sending", "receipt", "error"}]
    BY <1>1, <1>2 DEF TypeInv
  <2> QED
    BY <1>1, <1>2, <1>5, <2>1 DEF TypeInv
<1>9. \A e : Rows(e)' = Rows(e) /\ Rows(e) \in Nat
  BY <1>1, <1>2, RowsNat DEF Rows
<1>10. Quiet' => Quiet
  BY <1>1, <1>2 DEF Quiet
<1>11. Mono
  <2>1. ASSUME NEW b \in AddressName, NEW u \in Txs PROVE published[b][u] <= published'[b][u]
    <3>1. published[b][u] \in Nat /\ published'[b][u] \in {published[b][u], published[b][u] + 1}
      BY <1>2, <1>5
    <3> QED
      BY <3>1
  <2> QED
    BY <1>1, <1>9, <1>10, <2>1 DEF Mono
<1>12. Pending \subseteq Pending'
  BY <1>1, <1>5 DEF Pending
<1>13. Kept
  BY <1>1, <1>12 DEF Kept, Survives, Same
<1>14. ASSUME NEW m \in ready' \ ready PROVE SentInv(m)' /\ UntouchedInv(m)'
  <2>1. m \in Message /\ m.addr = "Requests" /\ m.tx = t0 /\ m.copy = published["Requests"][t0] + 1
        /\ m.queue \in Routes("Requests") /\ published'["Requests"][t0] = published["Requests"][t0] + 1
    BY <1>5
  <2>2. Rows(Entry(m)) = 0
    BY <2>1, NoRowYet
  <2>3. m.queue # "Signatures"
    BY <2>1 DEF Routes
  <2>4. published'["Signatures"][t0] = 0
    BY <1>3, <1>5, <1>6
  <2>5. UntouchedInv(m)'
    BY <1>9, <2>1, <2>2, <2>3, <2>4 DEF UntouchedInv
  <2>6. published'["Requests"][t0] \in Nat
    BY <1>3, <1>5
  <2>7. SentInv(m)'
    BY <2>1, <2>6 DEF SentInv
  <2> QED
    BY <2>5, <2>7
<1>15. ASSUME NEW m \in Message PROVE Calm(m)
  <2>1. m.tx \in Txs
    BY DEF Message
  <2>2. published'["Signatures"][m.tx] = published["Signatures"][m.tx]
    BY <1>3, <1>5, <2>1
  <2> QED
    BY <1>1, <1>9, <1>10, <2>2 DEF Calm, UntouchedInv
<1>16. ready \subseteq Message /\ \A j \in tasks : j.msg \in Message
  BY <1>2 DEF TypeInv, Task
<1>17. UniqueInv'
  <2>1. \A j \in tasks : j.msg \in Pending
    BY DEF Pending
  <2>2. ready \subseteq Pending
    BY DEF Pending
  <2>3. \A m, n : Same(m, n) => Same(n, m)
    BY DEF Same
  <2>4. \A m \in ready', j \in tasks' : ~Same(m, j.msg)
    BY <1>1, <1>2, <1>5, <2>1 DEF UniqueInv
  <2>5. \A m, n \in ready' : Same(m, n) => m = n
    BY <1>2, <1>5, <2>2, <2>3 DEF UniqueInv
  <2> QED
    BY <1>1, <1>2, <2>4, <2>5 DEF UniqueInv
<1>18. ASSUME NEW t \in Txs PROVE OrderInv(t)' /\ OnceInv(t)'
  <2>1. OrderInv(t) /\ OnceInv(t)
    BY DEF Inv
  <2>2. published'["Signatures"][t] = published["Signatures"][t] /\ published'["Finalizations"][t] = published["Finalizations"][t]
    BY <1>3, <1>5
  <2>3. CASE t # t0
    <3>1. published'["Requests"][t] = published["Requests"][t]
      BY <1>3, <1>5, <2>3
    <3>2. receipt'[t] = receipt[t]
      BY <1>1, <1>2, <2>3 DEF TypeInv
    <3>3. OrderInv(t)'
      BY <1>1, <2>1, <2>2, <3>1, <3>2 DEF OrderInv
    <3>4. OnceInv(t)'
      BY <1>1, <1>10, <2>1, <2>2, <3>1 DEF OnceInv, At
    <3> QED
      BY <3>3, <3>4
  <2>4. CASE t = t0
    <3>1. receipt'[t] \in {"receipt", "error"}
      BY <1>1, <1>2, <2>4 DEF TypeInv
    <3>2. published'["Requests"][t] <= 1
      <4>1. published'["Requests"][t0] \in {published["Requests"][t0], published["Requests"][t0] + 1}
        BY <1>3, <1>5
      <4> QED
        BY <1>6, <2>4, <4>1
    <3>3. OrderInv(t)'
      BY <1>1, <1>6, <2>1, <2>2, <2>4, <3>1 DEF OrderInv
    <3>4. OnceInv(t)'
      BY <1>1, <1>6, <1>7, <2>2, <2>4, <3>2 DEF OnceInv
    <3> QED
      BY <3>3, <3>4
  <2> QED
    BY <2>3, <2>4
<1>19. /\ \A e \in DOMAIN offlineEvents' :
            \E b \in AddressName, t \in Txs : \E c \in 1..published'[b][t] : e = <<b, t, c>>
       /\ crashes' = 0 => \A e \in DOMAIN offlineEvents' : offlineEvents'[e] = 1
  <2>1. ASSUME NEW b \in AddressName, NEW t \in Txs, NEW c \in 1..published[b][t] PROVE c \in 1..published'[b][t]
    <3>1. published[b][t] \in Nat /\ published'[b][t] \in {published[b][t], published[b][t] + 1}
      BY <1>2, <1>5
    <3> QED
      BY <3>1
  <2>2. LogInv
    BY DEF Inv
  <2> QED
    BY <1>1, <2>1, <2>2 DEF LogInv
<1>20. ASSUME NEW t \in Txs, receipt'[t] = "receipt"
       PROVE  \/ receipt[t] = "receipt"
              \/ \E m \in ready' : m.tx = t /\ m.queue # "EventsLog"
  <2>1. CASE t # t0
    BY <1>1, <1>2, <1>20, <2>1 DEF TypeInv
  <2>2. CASE t = t0
    <3>1. Publish("Requests", t0)
      BY <1>1, <1>2, <1>20, <2>2 DEF TypeInv
    <3>2. Routed("Requests", t0) \subseteq ready'
      BY <3>1 DEF Publish
    <3>3. PICK m \in Routed("Requests", t0) : m.queue = "Requests"
      BY <1>3, RoutedFacts
    <3>4. m.tx = t0
      BY <1>3, RoutedFacts
    <3> QED
      BY <2>2, <3>2, <3>3, <3>4
  <2> QED
    BY <2>1, <2>2
<1>21. tasks' \ tasks = {} /\ dlq' \ dlq = {}
  BY <1>1
<1> QED
  BY <1>5, <1>8, <1>11, <1>13, <1>14, <1>15, <1>16, <1>17, <1>18, <1>19, <1>20, <1>21, StepInv

\* Receive: the message is with a listener that has not begun.
LEMMA ReceiveStep ==
    ASSUME Inv, NEW m0 \in ready, Receive(m0)
    PROVE  Inv'
<1> DEFINE n0 == [m0 EXCEPT !.deliveries = @ + 1]
<1> DEFINE k0 == [msg |-> n0, pc |-> "start"]
<1>1. TypeInv /\ UniqueInv /\ MessagesInv /\ m0 \in Message
  BY DEF Inv, TypeInv
<1>2. n0 \in Message /\ n0.queue = m0.queue /\ n0.addr = m0.addr /\ n0.tx = m0.tx /\ n0.copy = m0.copy
  BY <1>1 DEF Message
<1>3. k0 \in Task /\ k0.msg = n0 /\ k0.pc = "start"
  BY <1>2 DEF Task
<1>4. /\ ready' = ready \ {m0} /\ tasks' = tasks \cup {k0}
      /\ UNCHANGED <<published, dlq>>
      /\ UNCHANGED <<receipt, nonce, mempool, chain, offlineTx, updates, offlineEvents, faults, crashes>>
  BY DEF Receive, Deliver, workVars
<1> HIDE DEF n0, k0
<1>5. PICK k \in Task : Same(m0, k.msg) /\ k.pc = "start" /\ tasks' = tasks \cup {k}
  BY <1>2, <1>3, <1>4 DEF Same
<1>6. TypeInv'
  BY <1>1, <1>4, <1>5 DEF TypeInv
<1>7. \A e : Rows(e)' = Rows(e) /\ Rows(e) \in Nat
  BY <1>1, <1>4, RowsNat DEF Rows
<1>8. Mono
  <2>1. \A a \in AddressName, t \in Txs : published[a][t] <= published'[a][t]
    BY <1>1, <1>4 DEF TypeInv
  <2> QED
    BY <1>4, <1>7, <2>1 DEF Mono, Quiet
<1>9. k.msg \in Pending'
  BY <1>5 DEF Pending
<1>10. Kept
  <2>1. ASSUME NEW m \in Pending \cup dlq PROVE Survives(m)
    <3>1. \A n : Same(n, n)
      BY DEF Same
    <3>2. CASE m = m0
      BY <1>5, <1>9, <3>2 DEF Survives
    <3>3. CASE m # m0
      <4>1. m \in Pending' \cup dlq'
        BY <1>4, <1>5, <3>3 DEF Pending
      <4> QED
        BY <3>1, <4>1 DEF Survives
    <3> QED
      BY <3>2, <3>3
  <2> QED
    BY <2>1 DEF Kept
<1>11. \A m : Calm(m)
  BY <1>4, <1>7 DEF Calm, UntouchedInv, Quiet
<1>12. UniqueInv'
  <2>1. \A m, n : Same(m, n) => Same(n, m)
    BY DEF Same
  <2>2. \A l, m, n : Same(l, m) /\ Same(m, n) => Same(l, n)
    BY DEF Same
  <2>3. \A m \in ready \ {m0} : ~Same(m, k.msg)
    BY <1>1, <1>5, <2>1, <2>2 DEF UniqueInv
  <2>4. \A j \in tasks : ~Same(k.msg, j.msg) /\ ~Same(j.msg, k.msg)
    BY <1>1, <1>5, <2>1, <2>2 DEF UniqueInv
  <2>5. \A m \in ready', j \in tasks' : ~Same(m, j.msg)
    BY <1>1, <1>4, <1>5, <2>3 DEF UniqueInv
  <2>6. \A i, j \in tasks' : Same(i.msg, j.msg) => i = j
    BY <1>1, <1>5, <2>4 DEF UniqueInv
  <2> QED
    BY <1>1, <1>4, <2>5, <2>6 DEF UniqueInv
<1>13. SentInv(k.msg)' /\ TaskInv(k)'
  <2>1. SentInv(m0) /\ UntouchedInv(m0)
    BY <1>1 DEF MessagesInv
  <2>2. SentInv(k.msg)'
    BY <1>4, <1>5, <2>1 DEF SentInv, Same
  <2>3. UntouchedInv(m0)'
    BY <1>11, <2>1 DEF Calm
  <2>4. Entry(k.msg) = Entry(m0)
    BY <1>5 DEF Entry, Same
  <2>5. UntouchedInv(k.msg)'
    BY <1>5, <2>3, <2>4 DEF UntouchedInv, Same
  <2>6. k.msg.queue \in QueueName
    BY <1>5 DEF Task, Message
  <2>7. k.pc \in Pcs[k.msg.queue]
    BY <1>5, <2>6 DEF Pcs, QueueName
  <2> QED
    BY <1>5, <2>2, <2>5, <2>7 DEF TaskInv
<1>14. ASSUME NEW t \in Txs PROVE OrderInv(t)' /\ OnceInv(t)'
  <2>1. OrderInv(t) /\ OnceInv(t)
    BY DEF Inv
  <2>2. OrderInv(t)'
    BY <1>4, <2>1 DEF OrderInv
  <2>3. OnceInv(t)'
    BY <1>4, <1>5, <2>1 DEF OnceInv, Quiet, At
  <2> QED
    BY <2>2, <2>3
<1>15. /\ \A e \in DOMAIN offlineEvents' :
            \E b \in AddressName, t \in Txs : \E c \in 1..published'[b][t] : e = <<b, t, c>>
       /\ crashes' = 0 => \A e \in DOMAIN offlineEvents' : offlineEvents'[e] = 1
  BY <1>4 DEF Inv, LogInv
<1>16. ready' \ ready = {} /\ dlq' \ dlq = {} /\ tasks' \ tasks \subseteq {k}
  BY <1>4, <1>5
<1> QED
  BY <1>4, <1>6, <1>8, <1>10, <1>11, <1>12, <1>13, <1>14, <1>15, <1>16, StepInv

\* Crash: what was unsettled is delivered again, or a dead letter.
LEMMA CrashStep ==
    ASSUME Inv, NEW q \in QueueName, Crash(q)
    PROVE  Inv'
<1>1. /\ crashes' = crashes + 1 /\ updates' \subseteq updates
      /\ UNCHANGED <<published, receipt, nonce, mempool, chain, offlineTx, offlineEvents, faults>>
  BY DEF Crash, WorkerStops
<1>2. /\ tasks' = {k \in tasks : k.msg.queue # q}
      /\ ready' = ready \cup {m \in Unsettled(q) : ~Exhausted(m)}
      /\ dlq' = dlq \cup {m \in Unsettled(q) : Exhausted(m)}
  BY DEF Crash, WorkerStops
<1>3. \A m : m \in Unsettled(q) <=> \E j \in tasks : j.msg.queue = q /\ m = j.msg
  BY DEF Unsettled
<1>4. TypeInv /\ UniqueInv /\ MessagesInv /\ crashes \in Nat
  BY DEF Inv, TypeInv
<1>5. Unsettled(q) \subseteq Message
  BY <1>3, <1>4 DEF TypeInv, Task
<1>6. TypeInv'
  BY <1>1, <1>2, <1>4, <1>5 DEF TypeInv
<1>7. \A e : Rows(e)' = Rows(e) /\ Rows(e) \in Nat
  BY <1>1, <1>4, RowsNat DEF Rows
<1>8. ~Quiet' /\ crashes' # 0
  BY <1>1, <1>4 DEF Quiet
<1>9. Mono
  <2>1. \A a \in AddressName, t \in Txs : published[a][t] <= published'[a][t]
    BY <1>1, <1>4 DEF TypeInv
  <2> QED
    BY <1>1, <1>7, <1>8, <2>1 DEF Mono
<1>10. Kept
  <2>1. ASSUME NEW m \in Pending \cup dlq PROVE m \in Pending' \cup dlq'
    <3>1. CASE m \in ready \cup dlq
      BY <1>2, <3>1 DEF Pending
    <3>2. ASSUME NEW j \in tasks, m = j.msg PROVE m \in Pending' \cup dlq'
      <4>1. CASE j.msg.queue # q
        BY <1>2, <3>2, <4>1 DEF Pending
      <4>2. CASE j.msg.queue = q
        BY <1>2, <1>3, <3>2, <4>2 DEF Pending
      <4> QED
        BY <4>1, <4>2
    <3> QED
      BY <3>1, <3>2 DEF Pending
  <2> QED
    BY <2>1 DEF Kept, Survives, Same
<1>11. \A m : UntouchedInv(m)'
  BY <1>8 DEF UntouchedInv
<1>12. ASSUME NEW m \in Unsettled(q) PROVE SentInv(m)'
  BY <1>1, <1>3, <1>4 DEF MessagesInv, SentInv
<1>13. UniqueInv'
  <2>1. \A m, n : Same(m, n) => Same(n, m)
    BY DEF Same
  <2>2. ASSUME NEW m \in ready', NEW n \in ready', Same(m, n) PROVE m = n
    <3>1. CASE m \in ready /\ n \in ready
      BY <1>4, <2>2, <3>1 DEF UniqueInv
    <3>2. ~(m \in ready /\ n \in Unsettled(q)) /\ ~(n \in ready /\ m \in Unsettled(q))
      BY <1>3, <1>4, <2>1, <2>2 DEF UniqueInv
    <3>3. CASE m \in Unsettled(q) /\ n \in Unsettled(q)
      BY <1>3, <1>4, <2>2, <3>3 DEF UniqueInv
    <3> QED
      BY <1>2, <3>1, <3>2, <3>3
  <2>3. ASSUME NEW m \in ready', NEW j \in tasks' PROVE ~Same(m, j.msg)
    <3>1. j \in tasks /\ j.msg.queue # q
      BY <1>2
    <3>2. CASE m \in Unsettled(q)
      BY <1>3, <3>1, <3>2 DEF Same
    <3> QED
      BY <1>2, <1>4, <3>1, <3>2 DEF UniqueInv
  <2> QED
    BY <1>2, <1>4, <2>2, <2>3 DEF UniqueInv
<1>14. ASSUME NEW t \in Txs PROVE OrderInv(t)' /\ OnceInv(t)'
  <2>1. OrderInv(t)'
    BY <1>1 DEF Inv, OrderInv
  <2>2. OnceInv(t)'
    BY <1>8 DEF OnceInv
  <2> QED
    BY <2>1, <2>2
<1>15. /\ \A e \in DOMAIN offlineEvents' :
            \E b \in AddressName, t \in Txs : \E c \in 1..published'[b][t] : e = <<b, t, c>>
       /\ crashes' = 0 => \A e \in DOMAIN offlineEvents' : offlineEvents'[e] = 1
  BY <1>1, <1>8 DEF Inv, LogInv
<1>16. /\ ready' \ ready \subseteq Unsettled(q) /\ dlq' \ dlq \subseteq Unsettled(q) /\ tasks' \ tasks = {}
  BY <1>2
<1>17. \A m : Calm(m)
  BY <1>11 DEF Calm
<1> QED
  BY <1>1, <1>6, <1>9, <1>10, <1>11, <1>12, <1>13, <1>14, <1>15, <1>16, <1>17, StepInv

---------------------------------------------------------------------------
LEMMA InitInv ==
    ASSUME Init
    PROVE  Inv
<1>1. /\ published = [a \in AddressName |-> [t \in Txs |-> 0]]
      /\ ready = {} /\ tasks = {} /\ dlq = {} /\ offlineEvents = <<>>
      /\ receipt = [t \in Txs |-> "new"] /\ mempool = {} /\ chain = {}
      /\ offlineTx = [t \in Txs |-> "none"] /\ updates = {} /\ faults = 0 /\ crashes = 0
  BY DEF Init, BrokerInit
<1>2. DOMAIN offlineEvents = {}
  BY <1>1
<1>3. \A a \in AddressName, t \in Txs : published[a][t] = 0
  BY <1>1
<1>4. TypeInv
  BY <1>1, <1>2 DEF TypeInv, Statuses
<1>5. UniqueInv /\ MessagesInv
  BY <1>1 DEF UniqueInv, MessagesInv
<1>6. ASSUME NEW t \in Txs PROVE OrderInv(t) /\ OnceInv(t)
  <2>1. published["Requests"][t] = 0 /\ published["Signatures"][t] = 0 /\ published["Finalizations"][t] = 0
    BY <1>3 DEF AddressName
  <2> QED
    BY <1>1, <2>1 DEF OrderInv, OnceInv
<1>7. LogInv
  <2>1. \A a \in AddressName, t \in Txs : 1..published[a][t] = {}
    BY <1>3
  <2> QED
    BY <1>2, <2>1 DEF LogInv
<1>8. ReceiptIsHonoured
  BY <1>1 DEF ReceiptIsHonoured
<1> QED
  BY <1>4, <1>5, <1>6, <1>7, <1>8 DEF Inv

LEMMA NextInv ==
    ASSUME Inv, [Next]_vars
    PROVE  Inv'
<1>1. ASSUME NEW t \in Txs,
             \/ BeginTransaction(t) \/ SendRequest(t) \/ SendRequestFails(t)
             \/ Include(t) \/ UpdateTx(t) \/ UpdateTxFails(t)
      PROVE  Inv'
  BY <1>1, BeginTransactionStep, SendRequestStep, IncludeStep, UpdateTxStep
<1>2. ASSUME NEW o \in Others, IncludeOther(o) PROVE Inv'
  BY <1>2, IncludeOtherStep
<1>3. ASSUME NEW m \in ready, Receive(m) PROVE Inv'
  BY <1>3, ReceiveStep
<1>4. ASSUME NEW k \in tasks, WorkerStep(k) PROVE Inv'
  BY <1>4, SignStep, SendSignatureStep, SignatureSentStep, CreateTxStep, BroadcastStep, SubmitReturnsStep,
     PublishFinalizationStep, FinalizationSentStep, RecordEventStep, EventRecordedStep DEF WorkerStep
<1>5. ASSUME NEW k \in tasks, WorkerFails(k) PROVE Inv'
  BY <1>5, SignFailsStep, SendSignatureFailsStep, CreateTxFailsStep, SubmitFailsStep,
     PublishFinalizationFailsStep, RecordEventStep DEF WorkerFails
<1>6. ASSUME NEW q \in QueueName, Crash(q) PROVE Inv'
  BY <1>6, CrashStep
<1>7. CASE UNCHANGED vars
  <2>1. /\ UNCHANGED <<published, ready, tasks, dlq>>
        /\ UNCHANGED <<receipt, nonce, mempool, chain, offlineTx, updates, offlineEvents, faults, crashes>>
    BY <1>7 DEF vars, brokerVars, workVars
  <2>2. \A e : Rows(e)' = Rows(e)
    BY <2>1 DEF Rows
  <2>3. Pending' = Pending /\ Quiet' = Quiet
    BY <2>1 DEF Pending, Quiet
  <2>4. \A t : Carried(t)' = Carried(t)
    BY <2>1, <2>3 DEF Carried
  <2>5. \A m : UntouchedInv(m)' = UntouchedInv(m)
    BY <2>1, <2>2, <2>3 DEF UntouchedInv
  <2>6. \A k : TaskInv(k)' = TaskInv(k)
    BY <2>1, <2>2, <2>4, <2>5 DEF TaskInv
  <2>7. MessagesInv' = MessagesInv
    BY <2>1, <2>5, <2>6 DEF MessagesInv, SentInv
  <2>8. LogInv' = LogInv
    BY <2>1, <2>2, <2>3 DEF LogInv
  <2>9. \A t : OrderInv(t)' = OrderInv(t) /\ OnceInv(t)' = OnceInv(t)
    BY <2>1, <2>3 DEF OrderInv, OnceInv
  <2>10. ReceiptIsHonoured' = ReceiptIsHonoured
    BY <2>1, <2>3 DEF ReceiptIsHonoured
  <2>11. TypeInv' = TypeInv /\ UniqueInv' = UniqueInv
    BY <2>1 DEF TypeInv, UniqueInv
  <2> QED
    BY <2>7, <2>8, <2>9, <2>10, <2>11 DEF Inv
<1> QED
  BY <1>1, <1>2, <1>3, <1>4, <1>5, <1>6, <1>7 DEF Next

LEMMA AlwaysInv == Spec => []Inv
BY InitInv, NextInv, PTL DEF Spec

\* A sum of natural numbers is 0 only when both are.
LEMMA NoTrouble ==
    ASSUME NEW f \in Nat, NEW c \in Nat, f + c = 0
    PROVE  f = 0 /\ c = 0
OBVIOUS

\* A transaction with a receipt is on a queue, with a worker, among the dead
\* letters or on the chain, for any number of transactions, failing sends,
\* stopped workers and delivery attempts (the listener's accept and reject, the
\* order of the sends in autoSign and submit).
THEOREM ReceiptIsHonouredHolds == Spec => []ReceiptIsHonoured
<1>1. Inv => ReceiptIsHonoured
  BY DEF Inv
<1> QED
  BY <1>1, AlwaysInv, PTL

\* Every message ever published is in offline_event, on its way there or a dead
\* letter, and there at most once while no recorder stops (the diverts, and
\* recordEvent before the accept).
THEOREM AuditLogCompleteHolds == Spec => []AuditLogComplete
<1>1. ASSUME Inv PROVE AuditLogComplete
  <2>1. LogInv
    BY <1>1 DEF Inv
  <2>2. ASSUME NEW e, crashes = 0 PROVE Rows(e) <= 1
    BY <2>1, <2>2 DEF Rows, LogInv
  <2> QED
    BY <2>1, <2>2 DEF AuditLogComplete, LogInv
<1> QED
  BY <1>1, AlwaysInv, PTL

\* offline_tx and the published finalizations never claim more than the chain
\* has included, nothing is broadcast before its row is written, and while
\* nothing fails a row is behind the chain only as long as somebody is about to
\* update it (the order of the calls in submit).
THEOREM OfflineTxIsTrueHolds == Spec => []OfflineTxIsTrue
<1>1. ASSUME Inv PROVE OfflineTxIsTrue
  <2>1. faults + crashes = 0 => Quiet
    BY <1>1, NoTrouble DEF Inv, TypeInv, Quiet
  <2>2. ASSUME NEW t \in Txs, offlineTx[t] = "Signed", Quiet
        PROVE  \/ t \in updates \cup mempool
               \/ \E m \in Pending : m.tx = t /\ m.queue # "EventsLog"
               \/ t \notin chain
    BY <1>1, <2>2 DEF Inv, OnceInv, Pending
  <2>3. \A t \in Txs : OrderInv(t)
    BY <1>1 DEF Inv
  <2> QED
    BY <2>1, <2>2, <2>3 DEF OfflineTxIsTrue, OrderInv
<1> QED
  BY <1>1, AlwaysInv, PTL

---------------------------------------------------------------------------
(* The stages of a transaction.                                            *)

\* The row is Finalized only after the finalization was sent.
AnnouncedInv ==
    /\ \A t \in updates : published["Finalizations"][t] > 0
    /\ \A k \in tasks : k.pc = "published" => published["Finalizations"][k.msg.tx] > 0

\* A request that was not signed yet, and a signature that did not finalize yet.
UnsignedInv(m) == m.queue = "Requests" => published["Signatures"][m.tx] = 0
UnfinishedInv(m) == m.queue = "Signatures" => m.tx \notin updates /\ offlineTx[m.tx] # "Finalized"

\* As long as no worker stops there is one request and one signature of a
\* transaction, whatever else fails.
SingleInv ==
    crashes = 0 =>
      /\ \A t \in Txs : published["Requests"][t] <= 1 /\ published["Signatures"][t] <= 1
      /\ \A m \in ready : UnsignedInv(m) /\ UnfinishedInv(m)
      /\ \A k \in tasks : (k.pc # "sent" => UnsignedInv(k.msg)) /\ UnfinishedInv(k.msg)

StageInv == AnnouncedInv /\ SingleInv

\* StageInv, when nothing is sent, no row is finalized, and every task is an old one,
\* one that goes on, or a message that was handed out.
LEMMA StageKept ==
    ASSUME Inv, StageInv, UNCHANGED <<published, crashes>>, ready' \subseteq ready, updates' \subseteq updates,
           \A t \in Txs : offlineTx'[t] = "Finalized" => offlineTx[t] = "Finalized" \/ t \in updates,
           \A k \in tasks' :
             \/ k \in tasks
             \/ k.pc # "published" /\ \E j \in tasks :
                  j.msg = k.msg /\ (k.pc # "sent" /\ k.msg.queue = "Requests" => j.pc # "sent")
             \/ k.pc = "start" /\ \E m \in ready : m.queue = k.msg.queue /\ m.tx = k.msg.tx
    PROVE  StageInv'
<1>1. AnnouncedInv'
  BY DEF StageInv, AnnouncedInv
<1>2. ASSUME crashes' = 0 PROVE SingleInv'
  <2>1. crashes = 0
    BY <1>2
  <2>2. \A t \in Txs : published["Requests"]'[t] <= 1 /\ published["Signatures"]'[t] <= 1
    BY <2>1 DEF StageInv, SingleInv
  <2>3. \A m : m.tx \in Txs => (UnsignedInv(m) => UnsignedInv(m)') /\ (UnfinishedInv(m) => UnfinishedInv(m)')
    BY DEF UnsignedInv, UnfinishedInv
  <2>4. /\ \A m \in ready : m.tx \in Txs
        /\ \A k \in tasks : k.msg.tx \in Txs
    BY DEF Inv, TypeInv, Task, Message
  <2>5. \A m \in ready' : (UnsignedInv(m) /\ UnfinishedInv(m))'
    BY <2>1, <2>3, <2>4 DEF StageInv, SingleInv
  <2>6. ASSUME NEW k \in tasks' PROVE ((k.pc # "sent" => UnsignedInv(k.msg)) /\ UnfinishedInv(k.msg))'
    <3>1. CASE k \in tasks
      BY <2>1, <2>3, <2>4, <3>1 DEF StageInv, SingleInv
    <3>2. CASE \E j \in tasks : j.msg = k.msg /\ (k.pc # "sent" /\ k.msg.queue = "Requests" => j.pc # "sent")
      BY <2>1, <2>3, <2>4, <3>2 DEF StageInv, SingleInv, UnsignedInv
    <3>3. CASE \E m \in ready : m.queue = k.msg.queue /\ m.tx = k.msg.tx
      BY <2>1, <2>3, <2>4, <3>3 DEF StageInv, SingleInv, UnsignedInv, UnfinishedInv
    <3> QED
      BY <3>1, <3>2, <3>3
  <2> QED
    BY <2>2, <2>5, <2>6 DEF SingleInv
<1> QED
  BY <1>1, <1>2 DEF StageInv, SingleInv

\* StageInv, when a message is sent.
LEMMA StageSends ==
    ASSUME Inv, StageInv, NEW a \in AddressName, NEW t \in Txs, Sends(a, t),
           UNCHANGED <<offlineTx, updates, crashes>>,
           a = "Requests" => published["Requests"][t] = 0,
           a = "Signatures" /\ crashes = 0 =>
             /\ published["Signatures"][t] = 0
             /\ \A m \in ready : ~(m.queue = "Requests" /\ m.tx = t),
           \A k \in tasks' :
             \/ k \in tasks /\ (a = "Signatures" /\ crashes = 0 => ~(k.msg.queue = "Requests" /\ k.msg.tx = t))
             \/ k.pc = "sent" /\ k.msg.queue = "Requests"
             \/ /\ k.pc = "published" /\ published'["Finalizations"][k.msg.tx] > 0
                /\ \E j \in tasks : j.msg = k.msg /\ j.msg.queue = "Signatures"
    PROVE  StageInv'
<1>1. /\ \A b \in AddressName, u \in Txs :
           /\ published[b][u] \in Nat
           /\ published'[b][u] \in {published[b][u], published[b][u] + 1}
           /\ ~(b = a /\ u = t) => published'[b][u] = published[b][u]
      /\ \A m \in ready' \ ready : m \in Message /\ m.tx = t /\ m.queue \in Routes(a)
      /\ {"Requests", "Signatures", "Finalizations"} \subseteq AddressName
  BY SendsFacts DEF Inv, TypeInv, AddressName
<1>2. AnnouncedInv'
  <2>1. \A u \in Txs : published["Finalizations"][u] > 0 => published'["Finalizations"][u] > 0
    BY <1>1
  <2>2. updates \subseteq Txs /\ \A k \in tasks : k.msg.tx \in Txs
    BY DEF Inv, TypeInv, Task, Message
  <2>3. \A u \in updates' : published'["Finalizations"][u] > 0
    BY <2>1, <2>2 DEF StageInv, AnnouncedInv
  <2>4. \A k \in tasks' : k.pc = "published" => published'["Finalizations"][k.msg.tx] > 0
    BY <2>1, <2>2 DEF StageInv, AnnouncedInv
  <2> QED
    BY <2>3, <2>4 DEF AnnouncedInv
<1>3. ASSUME crashes' = 0 PROVE SingleInv'
  <2>1. /\ crashes = 0
        /\ \A u \in Txs : published["Requests"][u] <= 1 /\ published["Signatures"][u] <= 1
        /\ \A m \in ready : m.tx \in Txs /\ UnsignedInv(m) /\ UnfinishedInv(m)
        /\ \A k \in tasks : k.msg.tx \in Txs /\ (k.pc # "sent" => UnsignedInv(k.msg)) /\ UnfinishedInv(k.msg)
    BY <1>3 DEF StageInv, SingleInv, Inv, TypeInv, Task, Message
  <2>2. \A u \in Txs : published'["Requests"][u] <= 1 /\ published'["Signatures"][u] <= 1
    BY <1>1, <2>1
  <2>3. \A m : UnfinishedInv(m) => UnfinishedInv(m)'
    BY DEF UnfinishedInv
  <2>4. ASSUME NEW m, m.tx \in Txs, UnsignedInv(m), a = "Signatures" => ~(m.queue = "Requests" /\ m.tx = t)
        PROVE  UnsignedInv(m)'
    BY <1>1, <2>4 DEF UnsignedInv
  <2>5. ASSUME NEW m \in ready' PROVE (UnsignedInv(m) /\ UnfinishedInv(m))'
    <3>1. CASE m \in ready
      BY <2>1, <2>3, <2>4, <3>1
    <3>2. CASE m \in ready' \ ready
      <4>1. m.tx = t /\ m.queue \in Routes(a)
        BY <1>1, <3>2
      <4>2. m.queue = "Requests" => a = "Requests"
        BY <4>1 DEF Routes
      <4>3. m.queue = "Signatures" => a = "Signatures"
        BY <4>1 DEF Routes
      <4>4. UnsignedInv(m)'
        BY <1>1, <4>1, <4>2 DEF UnsignedInv, Inv, OrderInv
      <4>5. UnfinishedInv(m)'
        BY <1>1, <2>1, <4>1, <4>3 DEF UnfinishedInv, Inv, OrderInv
      <4> QED
        BY <4>4, <4>5
    <3> QED
      BY <3>1, <3>2
  <2>6. ASSUME NEW k \in tasks' PROVE ((k.pc # "sent" => UnsignedInv(k.msg)) /\ UnfinishedInv(k.msg))'
    <3>1. CASE k \in tasks /\ (a = "Signatures" /\ crashes = 0 => ~(k.msg.queue = "Requests" /\ k.msg.tx = t))
      BY <2>1, <2>3, <2>4, <3>1
    <3>2. CASE k.pc = "sent" /\ k.msg.queue = "Requests"
      BY <3>2 DEF UnfinishedInv
    <3>3. CASE \E j \in tasks : j.msg = k.msg /\ j.msg.queue = "Signatures"
      <4>1. UnfinishedInv(k.msg) /\ k.msg.queue = "Signatures"
        BY <2>1, <3>3
      <4> QED
        BY <2>3, <4>1 DEF UnsignedInv
    <3> QED
      BY <3>1, <3>2, <3>3
  <2> QED
    BY <2>2, <2>5, <2>6 DEF SingleInv
<1> QED
  BY <1>2, <1>3 DEF StageInv, SingleInv

-----------------------------------------------------------------------------
(* Every step is a step of OfflineFlow, and keeps StageInv.                *)

FlowStep == FlowMoves \/ UNCHANGED Flow!vars

\* Which transactions were sent on an address, before and after a message.
LEMMA SentAfter ==
    ASSUME Inv, NEW a \in AddressName, NEW t \in Txs, Sends(a, t)
    PROVE  /\ Sent(a)' \in {Sent(a), Sent(a) \cup {t}}
           /\ \A b \in AddressName \ {a} : Sent(b)' = Sent(b)
<1>1. \A b \in AddressName, u \in Txs :
           /\ published[b][u] \in Nat
           /\ published'[b][u] \in {published[b][u], published[b][u] + 1}
           /\ ~(b = a /\ u = t) => published'[b][u] = published[b][u]
  BY SendsFacts DEF Inv, TypeInv
<1>2. \A b \in AddressName \ {a} : Sent(b)' = Sent(b)
  BY <1>1 DEF Sent
<1>3. \A u \in Txs : published[a][u] > 0 => published'[a][u] > 0
  BY <1>1
<1>4. \A u \in Txs \ {t} : published'[a][u] = published[a][u]
  BY <1>1
<1>5. CASE published'[a][t] > 0
  <2>1. Sent(a)' = Sent(a) \cup {t}
    BY <1>3, <1>4, <1>5 DEF Sent
  <2> QED
    BY <1>2, <2>1
<1>6. CASE ~(published'[a][t] > 0)
  <2>1. Sent(a)' = Sent(a)
    BY <1>3, <1>4, <1>6 DEF Sent
  <2> QED
    BY <1>2, <2>1
<1> QED
  BY <1>5, <1>6

\* A step that sends nothing and touches neither rows nor chain.
LEMMA FlowSame ==
    ASSUME UNCHANGED <<published, offlineTx>>, chain' \cap Txs = chain \cap Txs
    PROVE  FlowStep
<1>1. \A a : Sent(a)' = Sent(a)
  BY DEF Sent
<1> QED
  BY <1>1 DEF FlowStep, Flow!vars

\* A listener goes on or ends, and nothing else changes that the stages depend on.
LEMMA QuietTaskStage ==
    ASSUME Inv, StageInv, NEW k \in tasks,
           \/ tasks' = tasks \ {k}
           \/ \E pc \in PcNames \ {k.pc, "published", "start"} :
                Proceed(k, pc) /\ (k.msg.queue = "Requests" => k.pc # "sent"),
           ready' \subseteq ready, updates' = updates,
           UNCHANGED <<published, crashes, offlineTx>>, chain' = chain
    PROVE  StageInv' /\ FlowStep
<1>1. k \in Task
  BY TaskFacts
<1>2. CASE tasks' = tasks \ {k}
  BY <1>2, StageKept, FlowSame
<1>3. ASSUME NEW pc \in PcNames \ {k.pc, "published", "start"}, Proceed(k, pc),
             k.msg.queue = "Requests" => k.pc # "sent"
      PROVE  StageInv' /\ FlowStep
  <2>1. PICK j \in Task : j.msg = k.msg /\ j.pc = pc /\ j # k /\ tasks' = (tasks \ {k}) \cup {j}
    BY <1>1, <1>3, ProceedFacts
  <2>2. \A i \in tasks' :
          \/ i \in tasks
          \/ i.pc # "published" /\ \E h \in tasks :
               h.msg = i.msg /\ (i.pc # "sent" /\ i.msg.queue = "Requests" => h.pc # "sent")
    BY <1>3, <2>1
  <2>3. StageInv'
    BY <2>2, StageKept
  <2> QED
    BY <2>3, FlowSame
<1> QED
  BY <1>2, <1>3

LEMMA PlainWorkStage ==
    ASSUME Inv, StageInv, NEW k \in tasks,
           \/ Sign(k) \/ SignFails(k) \/ SignatureSent(k) \/ Broadcast(k) \/ SubmitReturns(k) \/ SubmitFails(k)
           \/ RecordEvent(k) \/ RecordEventFails(k) \/ EventRecorded(k)
    PROVE  StageInv' /\ FlowStep
<1>1. UNCHANGED <<published, ready, updates, crashes, offlineTx, chain>>
  BY DEF Sign, SignFails, SignatureSent, Broadcast, SubmitReturns, SubmitFails, RecordEvent, RecordEventFails,
     EventRecorded, workVars
<1>2. CASE Sign(k)
  BY <1>1, <1>2, QuietTaskStage DEF Sign, At, PcNames
<1>3. CASE SignFails(k) \/ SignatureSent(k) \/ SubmitFails(k) \/ RecordEventFails(k) \/ EventRecorded(k)
  <2>1. tasks' = tasks \ {k}
    BY <1>3 DEF SignFails, SignatureSent, SubmitFails, RecordEventFails, EventRecorded, Accept, Reject
  <2> QED
    BY <1>1, <2>1, QuietTaskStage
<1>4. CASE Broadcast(k)
  <2>1. tasks' = tasks \ {k} \/ (Proceed(k, "awaiting") /\ k.pc = "submitting" /\ k.msg.queue = "Signatures")
    BY <1>4 DEF Broadcast, Reject, At
  <2> QED
    BY <1>1, <2>1, QuietTaskStage DEF PcNames
<1>5. CASE SubmitReturns(k)
  <2>1. tasks' = tasks \ {k} \/ (Proceed(k, "publishing") /\ k.pc = "awaiting" /\ k.msg.queue = "Signatures")
    BY <1>5 DEF SubmitReturns, Reject, At
  <2> QED
    BY <1>1, <2>1, QuietTaskStage DEF PcNames
<1>6. CASE RecordEvent(k)
  BY <1>1, <1>6, QuietTaskStage DEF RecordEvent, At, PcNames
<1> QED
  BY <1>2, <1>3, <1>4, <1>5, <1>6

LEMMA BeginTransactionStage ==
    ASSUME Inv, StageInv, NEW t \in Txs, BeginTransaction(t)
    PROVE  StageInv' /\ FlowStep
<1>1. UNCHANGED <<published, ready, tasks, updates, crashes, offlineTx, chain>>
  BY DEF BeginTransaction, brokerVars
<1> QED
  BY <1>1, StageKept, FlowSame

LEMMA IncludeOtherStage ==
    ASSUME Inv, StageInv, NEW o \in Others, IncludeOther(o)
    PROVE  StageInv' /\ FlowStep
<1>1. UNCHANGED <<published, ready, tasks, updates, crashes, offlineTx>> /\ chain' = chain \cup {o}
  BY DEF IncludeOther, brokerVars
<1>2. chain' \cap Txs = chain \cap Txs
  BY <1>1, OthersAssumption
<1> QED
  BY <1>1, <1>2, StageKept, FlowSame

LEMMA ReceiveStage ==
    ASSUME Inv, StageInv, NEW m \in ready, Receive(m)
    PROVE  StageInv' /\ FlowStep
<1> DEFINE n == [m EXCEPT !.deliveries = @ + 1]
           k == [msg |-> n, pc |-> "start"]
<1>1. UNCHANGED <<published, updates, crashes, offlineTx, chain>> /\ ready' \subseteq ready
  BY DEF Receive, Deliver, workVars
<1>2. tasks' = tasks \cup {k}
  BY DEF Receive, Deliver
<1>3. k.pc = "start" /\ m.queue = k.msg.queue /\ m.tx = k.msg.tx
  BY DEF Inv, TypeInv, Message
<1> HIDE DEF k
<1> QED
  BY <1>1, <1>2, <1>3, StageKept, FlowSame

\* The request is sent: the transaction enters its first stage.
LEMMA SendRequestStage ==
    ASSUME Inv, StageInv, NEW t \in Txs, SendRequest(t) \/ SendRequestFails(t)
    PROVE  StageInv' /\ FlowStep
<1>1. /\ Sends("Requests", t) /\ UNCHANGED <<tasks, updates, crashes, offlineTx, chain>>
      /\ receipt[t] = "sending"
  BY DEF SendRequest, SendRequestFails, Sends, SendFails
<1>2. published["Requests"][t] = 0 /\ {"Requests", "Signatures", "Finalizations"} \subseteq AddressName
  BY <1>1 DEF Inv, OrderInv, TypeInv, AddressName
<1>3. StageInv'
  BY <1>1, <1>2, StageSends
<1>4. /\ Sent("Requests")' \in {Sent("Requests"), Sent("Requests") \cup {t}}
      /\ Sent("Signatures")' = Sent("Signatures") /\ Sent("Finalizations")' = Sent("Finalizations")
  BY <1>1, <1>2, SentAfter
<1>5. t \notin Sent("Requests")
  BY <1>2 DEF Sent
<1>6. FlowStep
  BY <1>1, <1>4, <1>5 DEF FlowStep, FlowMoves, Flow!Next, Flow!Request, Flow!vars
<1> QED
  BY <1>3, <1>6

\* The signature is sent, for the first time or again.
LEMMA SendSignatureStage ==
    ASSUME Inv, StageInv, NEW k \in tasks, SendSignature(k) \/ SendSignatureFails(k)
    PROVE  StageInv' /\ FlowStep
<1> DEFINE t == k.msg.tx
<1>1. /\ Sends("Signatures", t) /\ UNCHANGED <<updates, crashes, offlineTx, chain>>
      /\ k.msg.queue = "Requests" /\ k.pc = "sending"
  BY DEF SendSignature, SendSignatureFails, Sends, SendFails, At, workVars
<1>2. /\ t \in Txs /\ published["Requests"][t] > 0 /\ k \in Task
      /\ {"Requests", "Signatures", "Finalizations"} \subseteq AddressName
  BY <1>1, TaskFacts DEF AddressName
<1>3. \A j \in tasks' : j \in tasks \ {k} \/ (j.pc = "sent" /\ j.msg = k.msg)
  <2>1. CASE SendSignature(k)
    BY <1>1, <1>2, <2>1, ProceedFacts DEF SendSignature, PcNames
  <2>2. CASE SendSignatureFails(k)
    BY <2>2 DEF SendSignatureFails, Reject
  <2> QED
    BY <2>1, <2>2
<1>4. ASSUME crashes = 0
      PROVE  /\ published["Signatures"][t] = 0
             /\ \A m \in ready : ~(m.queue = "Requests" /\ m.tx = t)
             /\ \A j \in tasks \ {k} : ~(j.msg.queue = "Requests" /\ j.msg.tx = t)
  <2>1. published["Signatures"][t] = 0
    BY <1>1, <1>4 DEF StageInv, SingleInv, UnsignedInv
  <2> QED
    BY <1>1, <1>4, <2>1, OneCopy DEF StageInv, SingleInv
<1> HIDE DEF t
<1>5. StageInv'
  BY <1>1, <1>2, <1>3, <1>4, StageSends
<1>6. /\ Sent("Signatures")' \in {Sent("Signatures"), Sent("Signatures") \cup {t}}
      /\ Sent("Requests")' = Sent("Requests") /\ Sent("Finalizations")' = Sent("Finalizations")
  BY <1>1, <1>2, SentAfter
<1>7. t \in Sent("Requests")
  BY <1>2 DEF Sent
<1>8. CASE Sent("Signatures")' = Sent("Signatures")
  BY <1>1, <1>5, <1>6, <1>8 DEF FlowStep, Flow!vars
<1>9. CASE Sent("Signatures")' # Sent("Signatures")
  <2>1. Flow!Sign(t)
    BY <1>1, <1>6, <1>7, <1>9 DEF Flow!Sign
  <2> QED
    BY <1>2, <1>5, <2>1 DEF FlowStep, FlowMoves, Flow!Next
<1> QED
  BY <1>8, <1>9

\* The row is saved: a new one, the same again, or over a Finalized one, for which a worker
\* must have stopped.
LEMMA CreateTxStage ==
    ASSUME Inv, StageInv, NEW k \in tasks, CreateTx(k) \/ CreateTxFails(k)
    PROVE  StageInv' /\ FlowStep
<1> DEFINE t == k.msg.tx
<1>1. /\ UNCHANGED <<published, ready, updates, crashes, chain>>
      /\ offlineTx' \in {offlineTx, [offlineTx EXCEPT ![t] = "Signed"]}
      /\ k.msg.queue = "Signatures" /\ k.pc = "start"
  BY DEF CreateTx, CreateTxFails, At
<1>2. /\ t \in Txs /\ published["Signatures"][t] > 0 /\ k \in Task
      /\ offlineTx \in [Txs -> {"none", "Signed", "Finalized"}] /\ crashes \in Nat
  BY <1>1, TaskFacts DEF Inv, TypeInv, Statuses
<1>3. \A j \in tasks' : j \in tasks \/ (j.pc = "submitting" /\ j.msg = k.msg)
  <2>1. CASE CreateTx(k)
    BY <1>1, <1>2, <2>1, ProceedFacts DEF CreateTx, PcNames
  <2>2. CASE CreateTxFails(k)
    BY <2>2 DEF CreateTxFails, Reject
  <2> QED
    BY <2>1, <2>2
<1>4. offlineTx[t] = "Finalized" => crashes > 0
  BY <1>1, <1>2 DEF StageInv, SingleInv, UnfinishedInv
<1> HIDE DEF t
<1>5. \A u \in Txs : offlineTx'[u] = "Finalized" => offlineTx[u] = "Finalized"
  BY <1>1, <1>2
<1>6. StageInv'
  <2>1. \A j \in tasks' :
          \/ j \in tasks
          \/ j.pc # "published" /\ \E i \in tasks :
               i.msg = j.msg /\ (j.pc # "sent" /\ j.msg.queue = "Requests" => i.pc # "sent")
    BY <1>1, <1>3
  <2> QED
    BY <1>1, <1>5, <2>1, StageKept
<1>7. (\A a : Sent(a)' = Sent(a)) /\ t \in Sent("Signatures")
  BY <1>1, <1>2 DEF Sent
<1>8. CASE offlineTx' = offlineTx
  BY <1>1, <1>6, <1>8, FlowSame
<1>9. CASE offlineTx' # offlineTx
  <2>1. offlineTx' = [offlineTx EXCEPT ![t] = "Signed"] /\ offlineTx[t] \in {"none", "Finalized"}
    BY <1>1, <1>2, <1>9
  <2>2. CASE offlineTx[t] = "none"
    <3>1. Flow!Save(t)
      BY <1>1, <1>7, <2>1, <2>2 DEF Flow!Save
    <3> QED
      BY <1>2, <1>6, <3>1 DEF FlowStep, FlowMoves, Flow!Next
  <2>3. CASE offlineTx[t] = "Finalized"
    <3>1. Flow!Resave(t) /\ crashes > 0
      BY <1>1, <1>4, <1>7, <2>1, <2>3 DEF Flow!Resave
    <3> QED
      BY <1>2, <1>6, <3>1 DEF FlowStep, FlowMoves
  <2> QED
    BY <2>1, <2>2, <2>3
<1> QED
  BY <1>8, <1>9

LEMMA IncludeStage ==
    ASSUME Inv, StageInv, NEW t \in Txs, Include(t)
    PROVE  StageInv' /\ FlowStep
<1>1. /\ UNCHANGED <<published, ready, tasks, updates, crashes, offlineTx>> /\ t \in mempool
      /\ chain' \in {chain, chain \cup {t}}
  BY DEF Include, brokerVars
<1>2. StageInv'
  BY <1>1, StageKept
<1>3. CASE chain' = chain \/ t \in chain
  <2>1. chain' \cap Txs = chain \cap Txs
    BY <1>1, <1>3
  <2> QED
    BY <1>1, <1>2, <2>1, FlowSame
<1>4. CASE chain' = chain \cup {t} /\ t \notin chain
  <2>1. offlineTx[t] # "none"
    BY <1>1 DEF Inv, OrderInv
  <2>2. \A a : Sent(a)' = Sent(a)
    BY <1>1 DEF Sent
  <2>3. (chain \cap Txs)' = (chain \cap Txs) \cup {t} /\ t \notin chain \cap Txs
    BY <1>4
  <2>4. Flow!Include(t)
    BY <1>1, <2>1, <2>2, <2>3 DEF Flow!Include
  <2> QED
    BY <1>2, <2>4 DEF FlowStep, FlowMoves, Flow!Next
<1> QED
  BY <1>1, <1>3, <1>4

\* The finalization is sent, for the first time or again.
LEMMA PublishFinalizationStage ==
    ASSUME Inv, StageInv, NEW k \in tasks, PublishFinalization(k) \/ PublishFinalizationFails(k)
    PROVE  StageInv' /\ FlowStep
<1> DEFINE t == k.msg.tx
<1>1. /\ Sends("Finalizations", t) /\ UNCHANGED <<updates, crashes, offlineTx, chain>>
      /\ k.msg.queue = "Signatures" /\ k.pc = "publishing"
  BY DEF PublishFinalization, PublishFinalizationFails, Sends, SendFails, At, workVars
<1>2. /\ t \in Txs /\ t \in chain /\ k \in Task
      /\ {"Requests", "Signatures", "Finalizations"} \subseteq AddressName
      /\ published["Finalizations"][t] \in Nat
  BY <1>1, TaskFacts DEF AddressName, TaskInv
<1>3. \A j \in tasks' :
        \/ j \in tasks
        \/ j.pc = "published" /\ j.msg = k.msg /\ published'["Finalizations"][j.msg.tx] > 0
  <2>1. CASE PublishFinalization(k)
    <3>1. published'["Finalizations"][t] > 0
      BY <1>1, <1>2, <2>1, SendsFacts DEF PublishFinalization
    <3> QED
      BY <1>1, <1>2, <2>1, <3>1, ProceedFacts DEF PublishFinalization, PcNames
  <2>2. CASE PublishFinalizationFails(k)
    BY <2>2 DEF PublishFinalizationFails, Reject
  <2> QED
    BY <2>1, <2>2
<1> HIDE DEF t
<1>4. StageInv'
  BY <1>1, <1>2, <1>3, StageSends
<1>5. /\ Sent("Finalizations")' \in {Sent("Finalizations"), Sent("Finalizations") \cup {t}}
      /\ Sent("Requests")' = Sent("Requests") /\ Sent("Signatures")' = Sent("Signatures")
  BY <1>1, <1>2, SentAfter
<1>6. CASE Sent("Finalizations")' = Sent("Finalizations")
  BY <1>1, <1>4, <1>5, <1>6 DEF FlowStep, Flow!vars
<1>7. CASE Sent("Finalizations")' # Sent("Finalizations")
  <2>1. Flow!Announce(t)
    BY <1>1, <1>2, <1>5, <1>7 DEF Flow!Announce
  <2> QED
    BY <1>2, <1>4, <2>1 DEF FlowStep, FlowMoves, Flow!Next
<1> QED
  BY <1>6, <1>7

\* updateTx is called: its signature is done with.
LEMMA FinalizationSentStage ==
    ASSUME Inv, StageInv, NEW k \in tasks, FinalizationSent(k)
    PROVE  StageInv' /\ FlowStep
<1> DEFINE t == k.msg.tx
<1>1. /\ UNCHANGED <<published, ready, crashes, offlineTx, chain>>
      /\ updates' = updates \cup {t} /\ tasks' = tasks \ {k}
      /\ k.msg.queue = "Signatures" /\ k.pc = "published"
  BY DEF FinalizationSent, At, Accept
<1>2. AnnouncedInv'
  BY <1>1 DEF StageInv, AnnouncedInv
<1>3. ASSUME crashes = 0 PROVE SingleInv'
  <2>1. /\ \A m \in ready : ~(m.queue = "Signatures" /\ m.tx = t)
        /\ \A j \in tasks \ {k} : ~(j.msg.queue = "Signatures" /\ j.msg.tx = t)
    BY <1>1, <1>3, OneCopy DEF StageInv, SingleInv
  <2>2. \A m : UnsignedInv(m) => UnsignedInv(m)'
    BY <1>1 DEF UnsignedInv
  <2>3. \A m : UnfinishedInv(m) /\ ~(m.queue = "Signatures" /\ m.tx = t) => UnfinishedInv(m)'
    BY <1>1 DEF UnfinishedInv
  <2> HIDE DEF t
  <2> QED
    BY <1>1, <1>3, <2>1, <2>2, <2>3 DEF StageInv, SingleInv
<1> QED
  BY <1>1, <1>2, <1>3, FlowSame DEF StageInv, SingleInv

LEMMA UpdateTxStage ==
    ASSUME Inv, StageInv, NEW t \in Txs, UpdateTx(t) \/ UpdateTxFails(t)
    PROVE  StageInv' /\ FlowStep
<1>1. /\ UNCHANGED <<published, ready, tasks, crashes, chain>> /\ t \in updates /\ updates' = updates \ {t}
      /\ offlineTx' \in {offlineTx, [offlineTx EXCEPT ![t] = "Finalized"]}
  BY DEF UpdateTx, UpdateTxFails, brokerVars
<1>2. offlineTx \in [Txs -> {"none", "Signed", "Finalized"}]
  BY DEF Inv, TypeInv, Statuses
<1>3. StageInv'
  BY <1>1, <1>2, StageKept
<1>4. CASE offlineTx' = offlineTx
  BY <1>1, <1>3, <1>4, FlowSame
<1>5. CASE offlineTx' # offlineTx
  <2>1. offlineTx' = [offlineTx EXCEPT ![t] = "Finalized"] /\ offlineTx[t] # "Finalized"
    BY <1>1, <1>2, <1>5
  <2>2. offlineTx[t] = "Signed"
    BY <1>1, <1>2, <2>1 DEF Inv, OrderInv
  <2>3. (\A a : Sent(a)' = Sent(a)) /\ t \in Sent("Finalizations")
    BY <1>1 DEF Sent, StageInv, AnnouncedInv
  <2>4. Flow!Finalize(t)
    BY <1>1, <2>1, <2>2, <2>3 DEF Flow!Finalize
  <2> QED
    BY <1>3, <2>4 DEF FlowStep, FlowMoves, Flow!Next
<1> QED
  BY <1>4, <1>5

LEMMA CrashStage ==
    ASSUME Inv, StageInv, NEW q \in QueueName, Crash(q)
    PROVE  StageInv' /\ FlowStep
<1>1. /\ UNCHANGED <<published, offlineTx, chain>> /\ tasks' \subseteq tasks /\ updates' \subseteq updates
      /\ crashes' # 0
  BY DEF Crash, WorkerStops, Inv, TypeInv
<1> QED
  BY <1>1, FlowSame DEF StageInv, AnnouncedInv, SingleInv

LEMMA NextStage ==
    ASSUME Inv, StageInv, [Next]_vars
    PROVE  StageInv' /\ FlowStep
<1>1. ASSUME NEW t \in Txs,
             \/ BeginTransaction(t) \/ SendRequest(t) \/ SendRequestFails(t)
             \/ Include(t) \/ UpdateTx(t) \/ UpdateTxFails(t)
      PROVE  StageInv' /\ FlowStep
  BY <1>1, BeginTransactionStage, SendRequestStage, IncludeStage, UpdateTxStage
<1>2. ASSUME NEW o \in Others, IncludeOther(o) PROVE StageInv' /\ FlowStep
  BY <1>2, IncludeOtherStage
<1>3. ASSUME NEW m \in ready, Receive(m) PROVE StageInv' /\ FlowStep
  BY <1>3, ReceiveStage
<1>4. ASSUME NEW k \in tasks, WorkerStep(k) PROVE StageInv' /\ FlowStep
  BY <1>4, PlainWorkStage, SendSignatureStage, CreateTxStage, PublishFinalizationStage,
     FinalizationSentStage DEF WorkerStep
<1>5. ASSUME NEW k \in tasks, WorkerFails(k) PROVE StageInv' /\ FlowStep
  BY <1>5, PlainWorkStage, SendSignatureStage, CreateTxStage, PublishFinalizationStage DEF WorkerFails
<1>6. ASSUME NEW q \in QueueName, Crash(q) PROVE StageInv' /\ FlowStep
  BY <1>6, CrashStage
<1>7. CASE UNCHANGED vars
  <2>1. UNCHANGED <<published, ready, tasks, updates, crashes, offlineTx, chain>>
    BY <1>7 DEF vars, brokerVars, workVars
  <2> QED
    BY <2>1, StageKept, FlowSame
<1> QED
  BY <1>1, <1>2, <1>3, <1>4, <1>5, <1>6, <1>7 DEF Next

LEMMA InitStage ==
    ASSUME Init
    PROVE  StageInv /\ Flow!Init
<1>1. /\ published = [a \in AddressName |-> [t \in Txs |-> 0]]
      /\ ready = {} /\ tasks = {} /\ updates = {} /\ chain = {} /\ offlineTx = [t \in Txs |-> "none"]
  BY DEF Init, BrokerInit
<1>2. \A a \in AddressName, t \in Txs : published[a][t] = 0
  BY <1>1
<1>3. StageInv
  BY <1>1, <1>2 DEF StageInv, AnnouncedInv, SingleInv, AddressName
<1>4. \A a \in AddressName : Sent(a) = {}
  BY <1>2 DEF Sent
<1> QED
  BY <1>1, <1>3, <1>4 DEF Flow!Init, AddressName

LEMMA AlwaysStage == Spec => []StageInv
<1>1. Inv /\ StageInv /\ [Next]_vars => StageInv'
  BY NextStage
<1> QED
  BY <1>1, InitStage, AlwaysInv, PTL DEF Spec

\* The broker, the workers and the chain take every transaction through the stages of
\* OfflineFlow, whatever is lost, repeated or refused; a Finalized row goes back to
\* Signed only when a worker has stopped (autoSign, submit).
THEOREM StagesInOrderHolds == Spec => StagesInOrder
<1>1. Inv /\ StageInv /\ [Next]_vars => [FlowMoves]_(Flow!vars)
  BY NextStage DEF FlowStep
<1> QED
  BY <1>1, InitStage, AlwaysInv, AlwaysStage, PTL DEF Spec, StagesInOrder

\* As long as no worker stops the AMQP path is exactly OfflineFlow, as the in-memory bus
\* is, although sends, queries and signatures fail.
THEOREM OfflineTxImplementsFlow == Spec /\ [](crashes = 0) => Flow!Spec
<1>1. Inv /\ StageInv /\ [Next]_vars /\ crashes = 0 => [Flow!Next]_(Flow!vars)
  BY NextStage DEF FlowStep, FlowMoves
<1> QED
  BY <1>1, InitStage, AlwaysInv, AlwaysStage, PTL DEF Spec, Flow!Spec
=============================================================================
