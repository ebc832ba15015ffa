--------------------------- MODULE WebhooksProofs ---------------------------
(***************************************************************************)
(* The webhook path for any number of submissions, tries, failing calls    *)
(* and restarts.  The handshake part of the invariant is the one of        *)
(* SubscriptionsProofs, whose lemmas are cited for every step that touches *)
(* the subscriptions.                                                      *)
(***************************************************************************)
EXTENDS Webhooks, SubscriptionsProofs, FiniteSetTheorems

---------------------------------------------------------------------------
(* Notifications.                                                          *)

TasksOf(n) == {d \in deliveries : d.note = n}

Delivering(n) == nTimeouts[n] > 0 \/ TasksOf(n) # {}

\* A timer and a task account for every try that is not left.
TaskLedger(d) ==
    /\ notes[d.note].triesLeft > 0
    /\ sent[d.note] + notes[d.note].triesLeft = InitialTries + 1
    /\ d.pc = "posting" => d.triesLeft = notes[d.note].triesLeft
    /\ d.pc = "retrying" => d.triesLeft = notes[d.note].triesLeft - 1

NoteInv(n) ==
    /\ \A d, e \in TasksOf(n) : d = e
    /\ TasksOf(n) # {} => nTimeouts[n] = 0
    /\ nTimeouts[n] = (IF n \in nRegistry THEN 1 ELSE 0)
    /\ sent[n] <= InitialTries
    /\ ~Noted(n) => sent[n] = 0 /\ ~Delivering(n) /\ n \notin acked
    /\ nTimeouts[n] > 0 =>
         notes[n].triesLeft > 0 /\ sent[n] + notes[n].triesLeft = InitialTries
    /\ \A d \in TasksOf(n) : TaskLedger(d)
    /\ faults = 0 /\ notes[n].status = "failed" => sent[n] = InitialTries /\ n \notin acked
    /\ notes[n].status = "acknowledged" => n \in acked
    /\ notes[n].status = "orphaned" => SubOf(n) \in expired
    /\ faults = 0 /\ Delivering(n) => notes[n].status = "active" /\ n \notin acked

DeliveryInv == NoteTypeOK /\ \A n \in Notes : NoteInv(n)

---------------------------------------------------------------------------
(* Submissions and status handlers.                                        *)

\* The status of a transaction only goes up.
Rank(status) ==
    IF status = "Idle" THEN 0 ELSE IF status = "Unapproved" THEN 1 ELSE IF status = "Running" THEN 2 ELSE 3

Happened(e) == Rank(StatusOf(e)) <= Rank(txStatus[TxOf(e)])

Ran == {"running", "responded"}

\* Internal ids stay in range, and tell the submissions of one process apart.
ScopeInv ==
    /\ currentId <= Cardinality({s \in Subs : request[s] # "new"})
    /\ \A s \in Subs : txId[s] \in Scopes
    /\ restarts = 0 =>
         /\ \A s \in Subs :
              /\ txId[s] <= currentId
              /\ request[s] # "new" => txId[s] # 0
              /\ Created(s) => subs[s].scope = txId[s] /\ request[s] # "new"
              /\ request[s] \notin Ran => txStatus[s] = "Idle"
              /\ request[s] \in Ran => subs[s].nextNonce >= 1
         /\ \A s, t \in Subs : txId[s] = txId[t] /\ txId[s] # 0 => s = t

\* A notification is of a status the transaction had, for a confirmed URL, and in
\* one process for the subscription of that transaction.
NotesInv ==
    \A n \in Notes : Noted(n) =>
        /\ Happened(EventOf(n))
        /\ SubOf(n) \in confirmed
        /\ restarts = 0 =>
             /\ TxOf(EventOf(n)) = SubOf(n)
             /\ 1 <= notes[n].nonce /\ notes[n].nonce < subs[SubOf(n)].nextNonce

\* What a handler knows of the subscriptions it found.
HandlerInv(h) ==
    /\ Happened(h.event)
    /\ h.ids \subseteq confirmed
    /\ h.pc \in {"finding", "bumping"} => \A s \in Subs : ~Noted(<<h.event, s>>)
    /\ h.pc = "creating" => \A s \in h.ids : ~Noted(<<h.event, s>>)
    /\ restarts = 0 =>
         /\ request[TxOf(h.event)] \in Ran
         /\ \A s \in h.ids :
              /\ s = TxOf(h.event)
              /\ h.pc = "bumping" => 1 <= h.nonces[s] /\ h.nonces[s] <= subs[s].nextNonce
              /\ h.pc = "creating" => 1 <= h.nonces[s] /\ h.nonces[s] < subs[s].nextNonce
         /\ h.pc \in {"ending", "marking"} =>
              /\ h.event \in processed /\ StatusOf(h.event) \in TerminalStatus
              /\ TxOf(h.event) \notin transactionStore

HandlersInv ==
    /\ \A h \in handlers : HandlerInv(h)
    /\ \A g, h \in handlers : g.event = h.event => g = h

\* The nonces that were handed out: to a notification, or to a handler that is
\* about to create one.
Owed(s) == NotesOf(s) \cup
    {n \in Notes : SubOf(n) = s /\ \E h \in handlers : h.event = EventOf(n) /\ h.pc = "creating" /\ s \in h.ids}

CountInv ==
    restarts = 0 /\ faults = 0 =>
        \A s \in Subs : request[s] \in Ran =>
            IsFiniteSet(Owed(s)) /\ Cardinality(Owed(s)) = subs[s].nextNonce - 1

NoncesOrdered == NoncesFollowStatus /\ NoncesUnique

\* With the local store one handler runs at a time, for the latest status.
LocalInv ==
    Store = "local" =>
        /\ restarts = 0
        /\ \A g, h \in handlers : g = h
        /\ \A h \in handlers :
             /\ txStatus[TxOf(h.event)] = StatusOf(h.event)
             /\ h.pc = "bumping" => \A s \in h.ids : h.nonces[s] = subs[s].nextNonce
             /\ h.pc = "creating" =>
                  \A s \in h.ids : \A n \in NotesOf(s) : notes[n].nonce < h.nonces[s]
        /\ NoncesOrdered

TxInv ==
    /\ TxTypeOK /\ ScopeInv /\ NotesInv /\ HandlersInv /\ CountInv
    /\ DoneOnlyAfterTerminal /\ LocalInv

Inv == HandshakeInv /\ DeliveryInv /\ TxInv

---------------------------------------------------------------------------
(* Deliveries.                                                             *)

LEMMA TriesNat == InitialTries \in Nat \ {0}
BY NotificationTriesAssumption DEF InitialTries

\* What a note, its row and its tasks are.
LEMMA NoteType ==
    ASSUME NoteTypeOK, NEW n \in Notes
    PROVE  /\ notes[n].status \in NotificationStatus /\ notes[n].triesLeft \in Nat
           /\ notes[n].nonce \in Nat /\ nTimeouts[n] \in Nat /\ sent[n] \in Nat
BY DEF NoteTypeOK, Notification

LEMMA DeliveryType ==
    ASSUME NoteTypeOK, NEW d \in deliveries
    PROVE  /\ d \in DeliveryTask /\ d.note \in Notes /\ d.no \in Nat /\ d.triesLeft \in Nat
           /\ d.pc \in {"reading", "posting", "retrying"}
BY DEF NoteTypeOK, DeliveryTask

\* A step that is about one notification.
LEMMA OneNote ==
    ASSUME DeliveryInv, NoteTypeOK', NEW n0 \in Notes,
           \A n \in Notes \ {n0} :
               /\ notes'[n] = notes[n] /\ nTimeouts'[n] = nTimeouts[n] /\ sent'[n] = sent[n]
               /\ (n \in nRegistry' <=> n \in nRegistry) /\ (n \in acked' <=> n \in acked),
           \A d \in deliveries : d.note # n0 => d \in deliveries',
           \A d \in deliveries' : d.note # n0 => d \in deliveries,
           expired \subseteq expired', faults \in Nat, faults' \in Nat, faults <= faults',
           NoteInv(n0)'
    PROVE  DeliveryInv'
<1>1. ASSUME NEW n \in Notes, n # n0 PROVE NoteInv(n)'
  <2>1. NoteInv(n)
    BY DEF DeliveryInv
  <2>2. TasksOf(n)' = TasksOf(n)
    BY <1>1 DEF TasksOf
  <2>3. /\ notes'[n] = notes[n] /\ nTimeouts'[n] = nTimeouts[n] /\ sent'[n] = sent[n]
        /\ (n \in nRegistry' <=> n \in nRegistry) /\ (n \in acked' <=> n \in acked)
    BY <1>1
  <2>4. ASSUME NEW d \in TasksOf(n) PROVE TaskLedger(d)'
    <3>1. d.note = n /\ TaskLedger(d)
      BY <2>1, <2>4 DEF NoteInv, TasksOf
    <3> QED
      BY <2>3, <3>1 DEF TaskLedger, InitialTries
  <2>5. faults' = 0 => faults = 0
    OBVIOUS
  <2>6. InitialTries' = InitialTries /\ SubOf(n)' = SubOf(n)
    BY DEF InitialTries, SubOf
  <2>7. Delivering(n)' = Delivering(n) /\ Noted(n)' = Noted(n)
    BY <2>2, <2>3 DEF Delivering, Noted
  <2> QED
    BY <2>1, <2>2, <2>3, <2>4, <2>5, <2>6, <2>7 DEF NoteInv
<1>2. Notes' = Notes
  BY DEF Notes
<1> QED
  BY <1>1, <1>2 DEF DeliveryInv

\* A step of the other components.
LEMMA NoNote ==
    ASSUME DeliveryInv, UNCHANGED noteVars, expired \subseteq expired',
           faults \in Nat, faults' \in Nat, faults <= faults'
    PROVE  DeliveryInv'
<1>1. UNCHANGED <<notes, deliveries, nTimeouts, nRegistry, sent, acked>>
  BY DEF noteVars
<1>2. NoteTypeOK'
  BY <1>1 DEF DeliveryInv, NoteTypeOK
<1>3. ASSUME NEW n \in Notes PROVE NoteInv(n)'
  <2>1. NoteInv(n)
    BY DEF DeliveryInv
  <2>2. TasksOf(n)' = TasksOf(n) /\ Delivering(n)' = Delivering(n) /\ Noted(n)' = Noted(n)
    BY <1>1 DEF TasksOf, Delivering, Noted
  <2>3. \A d : TaskLedger(d)' = TaskLedger(d)
    BY <1>1 DEF TaskLedger, InitialTries
  <2>4. InitialTries' = InitialTries
    BY DEF InitialTries
  <2> QED
    BY <1>1, <2>1, <2>2, <2>3, <2>4 DEF NoteInv
<1> QED
  BY <1>2, <1>3 DEF DeliveryInv, Notes

\* The task of a notification is the only thing under way for it.
LEMMA TaskOfNote ==
    ASSUME DeliveryInv, NEW d \in deliveries
    PROVE  /\ d \in DeliveryTask /\ d.note \in Notes /\ d \in TasksOf(d.note)
           /\ NoteInv(d.note) /\ TaskLedger(d) /\ Noted(d.note)
           /\ nTimeouts[d.note] = 0 /\ d.note \notin nRegistry
           /\ \A e \in deliveries : e.note = d.note => e = d
           /\ faults = 0 => notes[d.note].status = "active" /\ d.note \notin acked
           /\ notes[d.note].triesLeft \in Nat /\ sent[d.note] \in Nat
<1>1. d \in DeliveryTask /\ d.note \in Notes /\ d \in TasksOf(d.note)
  BY DeliveryType DEF DeliveryInv, TasksOf
<1>2. NoteInv(d.note)
  BY <1>1 DEF DeliveryInv
<1>3. TaskLedger(d) /\ nTimeouts[d.note] = 0 /\ d.note \notin nRegistry
  BY <1>1, <1>2 DEF NoteInv
<1>4. Delivering(d.note)
  BY <1>1 DEF Delivering
<1>5. \A e \in deliveries : e.note = d.note => e = d
  BY <1>1, <1>2 DEF NoteInv, TasksOf
<1>6. notes[d.note].triesLeft \in Nat /\ sent[d.note] \in Nat
  BY <1>1, NoteType DEF DeliveryInv
<1> QED
  BY <1>1, <1>2, <1>3, <1>4, <1>5, <1>6 DEF NoteInv

\* How the row of a notification may change while its task runs.
RowChange(n) ==
    /\ notes' \in [Notes -> Notification]
    /\ \A m \in Notes \ {n} : notes'[m] = notes[m]
    /\ Noted(n)' /\ notes'[n].nonce = notes[n].nonce
    /\ acked' \in {acked, acked \cup {n}}
    /\ notes'[n].status = "acknowledged" => n \in acked'
    /\ notes'[n].status = "orphaned" => SubOf(n) \in expired'

FaultsGrow == faults \in Nat /\ faults' \in Nat /\ faults <= faults'

LEMMA DeliveryEnds ==
    ASSUME DeliveryInv, NEW d \in deliveries, EndDelivery(d), RowChange(d.note), FaultsGrow,
           UNCHANGED <<nTimeouts, nRegistry, sent>>, expired \subseteq expired',
           faults' = 0 /\ notes'[d.note].status = "failed" =>
               sent[d.note] = InitialTries /\ d.note \notin acked'
    PROVE  DeliveryInv'
<1> DEFINE n == d.note
<1>1. /\ n \in Notes /\ nTimeouts[n] = 0 /\ n \notin nRegistry /\ NoteInv(n)
      /\ \A e \in deliveries : e.note = n => e = d
  BY TaskOfNote
<1>2. deliveries' = deliveries \ {d}
  BY DEF EndDelivery
<1>3. TasksOf(n)' = {}
  BY <1>1, <1>2 DEF TasksOf
<1>4. ~Delivering(n)' /\ Noted(n)'
  BY <1>1, <1>3 DEF Delivering, RowChange
<1>5. InitialTries' = InitialTries
  BY DEF InitialTries
<1>6. NoteInv(n)'
  BY <1>1, <1>3, <1>4, <1>5 DEF NoteInv, RowChange
<1>7. NoteTypeOK'
  BY <1>1, <1>2 DEF DeliveryInv, NoteTypeOK, RowChange
<1> HIDE DEF n
<1>8. \A m \in Notes \ {n} : /\ notes'[m] = notes[m] /\ (m \in acked' <=> m \in acked)
  BY DEF RowChange, n
<1>9. (\A e \in deliveries : e.note # n => e \in deliveries') /\ (\A e \in deliveries' : e.note # n => e \in deliveries)
  BY <1>2 DEF n
<1> QED
  BY <1>1, <1>6, <1>7, <1>8, <1>9, OneNote DEF FaultsGrow

LEMMA DeliveryGoesOn ==
    ASSUME DeliveryInv, NEW d \in deliveries, NEW e \in DeliveryTask, e.note = d.note, StepDelivery(d, e),
           RowChange(d.note), notes'[d.note].triesLeft = notes[d.note].triesLeft, FaultsGrow,
           UNCHANGED <<nTimeouts, nRegistry, sent>>, expired \subseteq expired',
           e.pc = "posting" => e.triesLeft = notes[d.note].triesLeft,
           e.pc = "retrying" => e.triesLeft = notes[d.note].triesLeft - 1,
           faults' = 0 => notes'[d.note].status = notes[d.note].status /\ acked' = acked
    PROVE  DeliveryInv'
<1> DEFINE n == d.note
<1>1. /\ n \in Notes /\ nTimeouts[n] = 0 /\ n \notin nRegistry /\ NoteInv(n) /\ TaskLedger(d)
      /\ \A c \in deliveries : c.note = n => c = d
      /\ faults = 0 => notes[n].status = "active" /\ n \notin acked
  BY TaskOfNote
<1>2. deliveries' = (deliveries \ {d}) \cup {e}
  BY DEF StepDelivery
<1>3. \A c \in TasksOf(n)' : c = e
  BY <1>1, <1>2 DEF TasksOf
<1>4. Noted(n)'
  BY DEF RowChange
<1>5. InitialTries' = InitialTries
  BY DEF InitialTries
<1>6. TaskLedger(e)'
  BY <1>1, <1>5 DEF TaskLedger
<1>7. faults' = 0 => faults = 0
  BY DEF FaultsGrow
<1>8. faults' = 0 => notes'[n].status = "active" /\ n \notin acked'
  BY <1>1, <1>7
<1>9. NoteInv(n)'
  BY <1>1, <1>3, <1>4, <1>5, <1>6, <1>8 DEF NoteInv, RowChange
<1>10. NoteTypeOK'
  BY <1>1, <1>2 DEF DeliveryInv, NoteTypeOK, RowChange
<1> HIDE DEF n
<1>11. \A m \in Notes \ {n} : /\ notes'[m] = notes[m] /\ (m \in acked' <=> m \in acked)
  BY DEF RowChange, n
<1>12. (\A c \in deliveries : c.note # n => c \in deliveries') /\ (\A c \in deliveries' : c.note # n => c \in deliveries)
  BY <1>2 DEF n
<1> QED
  BY <1>1, <1>9, <1>10, <1>11, <1>12, OneNote DEF FaultsGrow

\* No notification appears, and none gets another nonce.
NotesSame ==
    \A n \in Notes : (Noted(n)' <=> Noted(n)) /\ notes'[n].nonce = notes[n].nonce

LEMMA RowChangeSame ==
    ASSUME DeliveryInv, NEW d \in deliveries, RowChange(d.note)
    PROVE  NotesSame
BY TaskOfNote DEF RowChange, NotesSame, Noted

\* What the rows look like after each of the updates of a task.
LEMMA StatusWritten ==
    ASSUME DeliveryInv, NEW n \in Notes, NEW st \in NotificationStatus,
           notes' = [notes EXCEPT ![n].status = st]
    PROVE  /\ notes' \in [Notes -> Notification]
           /\ \A m \in Notes \ {n} : notes'[m] = notes[m]
           /\ notes'[n].status = st /\ notes'[n].triesLeft = notes[n].triesLeft
           /\ notes'[n].nonce = notes[n].nonce
BY DEF DeliveryInv, NoteTypeOK, Notification

LEMMA RetryWritten ==
    ASSUME DeliveryInv, NEW n \in Notes, NEW tries \in Nat,
           notes' = [notes EXCEPT ![n] = AfterNotificationRetry(@, tries)]
    PROVE  /\ notes' \in [Notes -> Notification]
           /\ \A m \in Notes \ {n} : notes'[m] = notes[m]
           /\ notes'[n].status = IF tries = 0 THEN "failed" ELSE notes[n].status
           /\ notes'[n].triesLeft = tries
           /\ notes'[n].nonce = notes[n].nonce
<1>1. notes \in [Notes -> Notification]
  BY DEF DeliveryInv, NoteTypeOK
<1>2. notes[n] \in Notification
  BY <1>1
<1> DEFINE r == AfterNotificationRetry(notes[n], tries)
<1>3. r \in Notification /\ r.status = (IF tries = 0 THEN "failed" ELSE notes[n].status)
      /\ r.triesLeft = tries /\ r.nonce = notes[n].nonce
  BY <1>2 DEF AfterNotificationRetry, Notification, NotificationStatus
<1>4. notes' = [notes EXCEPT ![n] = r]
  OBVIOUS
<1> HIDE DEF r
<1> QED
  BY <1>1, <1>3, <1>4

LEMMA RowsUntouched ==
    ASSUME DeliveryInv, NEW n \in Notes, UNCHANGED notes
    PROVE  /\ notes' \in [Notes -> Notification]
           /\ \A m \in Notes \ {n} : notes'[m] = notes[m]
           /\ notes'[n] = notes[n]
BY DEF DeliveryInv, NoteTypeOK

\* A task that enters its retry branch.
LEMMA RetryingTask ==
    ASSUME NEW d \in DeliveryTask, NEW tries \in Nat, tries > 0
    PROVE  \E e \in DeliveryTask : e = Retrying(d, tries) /\ e.note = d.note /\ e.pc = "retrying" /\ e.triesLeft = tries - 1
<1> DEFINE e == Retrying(d, tries)
<1>1. tries - 1 \in Nat
  OBVIOUS
<1>2. e \in DeliveryTask /\ e.note = d.note /\ e.pc = "retrying" /\ e.triesLeft = tries - 1
  BY <1>1 DEF Retrying, DeliveryTask
<1> HIDE DEF e
<1> QED
  BY <1>2 DEF e

LEMMA SendNotificationInv ==
    ASSUME SubTypeOK, DeliveryInv, NEW d \in deliveries, SendNotification(d)
    PROVE  DeliveryInv' /\ NotesSame
<1> DEFINE n == d.note
<1>1. /\ d \in DeliveryTask /\ n \in Notes /\ NoteInv(n) /\ Noted(n)
      /\ faults = 0 => notes[n].status = "active" /\ n \notin acked
      /\ notes[n].triesLeft \in Nat
  BY TaskOfNote
<1>2. /\ UNCHANGED subVars /\ UNCHANGED <<nTimeouts, nRegistry, sent, acked>>
      /\ UNCHANGED <<expired, faults>> /\ FaultsGrow
  BY DEF SendNotification, subVars, FaultsGrow, SubTypeOK
<1>3. CASE SubOf(n) \in expired
  <2>1. notes' = [notes EXCEPT ![n].status = "orphaned"] /\ EndDelivery(d)
    BY <1>3 DEF SendNotification
  <2>2. "orphaned" \in NotificationStatus
    BY DEF NotificationStatus
  <2>3. RowChange(n) /\ notes'[n].status = "orphaned"
    BY <1>1, <1>2, <1>3, <2>1, <2>2, StatusWritten DEF RowChange, Noted
  <2> QED
    BY <1>2, <2>1, <2>3, DeliveryEnds, RowChangeSame
<1>4. CASE SubOf(n) \notin expired
  <2> DEFINE e == [d EXCEPT !.pc = "posting", !.triesLeft = notes[d.note].triesLeft]
  <2>1. e \in DeliveryTask /\ e.note = n /\ e.pc = "posting" /\ e.triesLeft = notes[n].triesLeft
    BY <1>1 DEF DeliveryTask
  <2>2. StepDelivery(d, e) /\ UNCHANGED notes
    BY <1>4 DEF SendNotification
  <2> HIDE DEF e
  <2>3. RowChange(n) /\ notes'[n] = notes[n]
    BY <1>1, <1>2, <2>2, RowsUntouched DEF RowChange, Noted, NoteInv
  <2> QED
    BY <1>2, <2>1, <2>2, <2>3, DeliveryGoesOn, RowChangeSame
<1> QED
  BY <1>3, <1>4

LEMMA SendNotificationFailsInv ==
    ASSUME SubTypeOK, DeliveryInv, NEW d \in deliveries, SendNotificationFails(d)
    PROVE  DeliveryInv' /\ NotesSame
<1> DEFINE n == d.note
<1>1. /\ d \in DeliveryTask /\ n \in Notes /\ NoteInv(n) /\ Noted(n) /\ TaskLedger(d)
      /\ notes[n].triesLeft \in Nat /\ notes[n].triesLeft > 0
  BY TaskOfNote DEF TaskLedger
<1>2. /\ UNCHANGED <<nTimeouts, nRegistry, sent, acked>>
      /\ UNCHANGED expired /\ FaultsGrow /\ faults' # 0
  BY DEF SendNotificationFails, Fault, FaultsGrow, SubTypeOK
<1>3. CASE EndDelivery(d) /\ UNCHANGED notes
  <2>1. RowChange(n)
    BY <1>1, <1>2, <1>3, RowsUntouched DEF RowChange, Noted, NoteInv
  <2> QED
    BY <1>2, <1>3, <2>1, DeliveryEnds, RowChangeSame
<1>4. CASE /\ StepDelivery(d, Retrying(d, notes[n].triesLeft))
           /\ \/ UNCHANGED notes
              \/ /\ SubOf(n) \in expired
                 /\ notes' = [notes EXCEPT ![n].status = "orphaned"]
  <2>1. PICK e \in DeliveryTask : /\ e = Retrying(d, notes[n].triesLeft) /\ e.note = n
                                  /\ e.pc = "retrying" /\ e.triesLeft = notes[n].triesLeft - 1
    BY <1>1, RetryingTask
  <2>2. "orphaned" \in NotificationStatus
    BY DEF NotificationStatus
  <2>3. RowChange(n) /\ notes'[n].triesLeft = notes[n].triesLeft
    <3>1. CASE UNCHANGED notes
      BY <1>1, <1>2, <3>1, RowsUntouched DEF RowChange, Noted, NoteInv
    <3>2. CASE SubOf(n) \in expired /\ notes' = [notes EXCEPT ![n].status = "orphaned"]
      BY <1>1, <1>2, <2>2, <3>2, StatusWritten, ZenonT(40) DEF RowChange, Noted
    <3> QED
      BY <1>4, <3>1, <3>2
  <2> QED
    BY <1>2, <1>4, <2>1, <2>3, DeliveryGoesOn, RowChangeSame
<1>5. \/ EndDelivery(d) /\ UNCHANGED notes
      \/ /\ StepDelivery(d, Retrying(d, notes[n].triesLeft))
         /\ \/ UNCHANGED notes
            \/ /\ SubOf(n) \in expired
               /\ notes' = [notes EXCEPT ![n].status = "orphaned"]
  BY Zenon DEF SendNotificationFails
<1> QED
  BY <1>3, <1>4, <1>5

LEMMA WebhookOkInv ==
    ASSUME SubTypeOK, DeliveryInv, NEW d \in deliveries, WebhookOk(d)
    PROVE  DeliveryInv' /\ NotesSame
<1> DEFINE n == d.note
<1>1. n \in Notes /\ Noted(n) /\ "acknowledged" \in NotificationStatus
  BY TaskOfNote DEF NotificationStatus
<1>2. /\ UNCHANGED <<nTimeouts, nRegistry, sent>> /\ UNCHANGED <<expired, faults>> /\ FaultsGrow
      /\ acked' = acked \cup {n} /\ EndDelivery(d)
      /\ notes' = [notes EXCEPT ![n].status = "acknowledged"]
  BY DEF WebhookOk, subVars, FaultsGrow, SubTypeOK
<1>3. /\ notes' \in [Notes -> Notification]
      /\ \A m \in Notes \ {n} : notes'[m] = notes[m]
      /\ notes'[n].status = "acknowledged" /\ notes'[n].nonce = notes[n].nonce
  BY <1>1, <1>2, StatusWritten
<1>4. RowChange(n)
  BY <1>2, <1>3 DEF RowChange, Noted
<1> QED
  BY <1>2, <1>3, <1>4, DeliveryEnds, RowChangeSame

LEMMA WebhookOkFailsInv ==
    ASSUME SubTypeOK, DeliveryInv, NEW d \in deliveries, WebhookOkFails(d)
    PROVE  DeliveryInv' /\ NotesSame
<1> DEFINE n == d.note
<1>1. /\ d \in DeliveryTask /\ n \in Notes /\ NoteInv(n) /\ Noted(n) /\ TaskLedger(d)
      /\ notes[n].triesLeft \in Nat /\ notes[n].triesLeft > 0 /\ d.pc = "posting"
      /\ d.triesLeft = notes[n].triesLeft
  BY TaskOfNote DEF TaskLedger, WebhookOkFails
<1>2. /\ UNCHANGED <<nTimeouts, nRegistry, sent>> /\ acked' = acked \cup {n}
      /\ UNCHANGED expired /\ FaultsGrow /\ faults' # 0
      /\ StepDelivery(d, Retrying(d, d.triesLeft))
  BY DEF WebhookOkFails, Fault, FaultsGrow, SubTypeOK
<1>3. PICK e \in DeliveryTask : /\ e = Retrying(d, notes[n].triesLeft) /\ e.note = n
                                /\ e.pc = "retrying" /\ e.triesLeft = notes[n].triesLeft - 1
  BY <1>1, RetryingTask
<1>4. "acknowledged" \in NotificationStatus
  BY DEF NotificationStatus
<1>5. RowChange(n) /\ notes'[n].triesLeft = notes[n].triesLeft
  <2>1. CASE UNCHANGED notes
    BY <1>1, <1>2, <2>1, RowsUntouched DEF RowChange, Noted, NoteInv
  <2>2. CASE notes' = [notes EXCEPT ![n].status = "acknowledged"]
    BY <1>1, <1>2, <1>4, <2>2, StatusWritten, ZenonT(40) DEF RowChange, Noted
  <2> QED
    BY <2>1, <2>2 DEF WebhookOkFails
<1> QED
  BY <1>1, <1>2, <1>3, <1>5, DeliveryGoesOn, RowChangeSame

LEMMA WebhookNotOkInv ==
    ASSUME SubTypeOK, DeliveryInv, NEW d \in deliveries, WebhookNotOk(d)
    PROVE  DeliveryInv' /\ NotesSame
<1> DEFINE n == d.note
<1>1. /\ d \in DeliveryTask /\ n \in Notes /\ NoteInv(n) /\ Noted(n) /\ TaskLedger(d)
      /\ notes[n].triesLeft \in Nat /\ notes[n].triesLeft > 0
      /\ d.triesLeft = notes[n].triesLeft
  BY TaskOfNote DEF TaskLedger, WebhookNotOk
<1>2. /\ UNCHANGED <<nTimeouts, nRegistry, sent, acked>> /\ UNCHANGED <<expired, faults, notes>> /\ FaultsGrow
      /\ StepDelivery(d, Retrying(d, d.triesLeft))
  BY DEF WebhookNotOk, subVars, FaultsGrow, SubTypeOK
<1>3. PICK e \in DeliveryTask : /\ e = Retrying(d, notes[n].triesLeft) /\ e.note = n
                                /\ e.pc = "retrying" /\ e.triesLeft = notes[n].triesLeft - 1
  BY <1>1, RetryingTask
<1>4. RowChange(n) /\ notes'[n] = notes[n]
  BY <1>1, <1>2, RowsUntouched DEF RowChange, Noted, NoteInv
<1> QED
  BY <1>1, <1>2, <1>3, <1>4, DeliveryGoesOn, RowChangeSame

\* retry: the row is updated, and unless that was the last try a timer is armed.
LEMMA RetryNotificationInv ==
    ASSUME SubTypeOK, DeliveryInv, NEW d \in deliveries, RetryNotification(d)
    PROVE  DeliveryInv' /\ NotesSame
<1> DEFINE n == d.note
<1>1. /\ d \in DeliveryTask /\ n \in Notes /\ NoteInv(n) /\ Noted(n) /\ TaskLedger(d)
      /\ notes[n].triesLeft \in Nat /\ notes[n].triesLeft > 0 /\ sent[n] \in Nat
      /\ nTimeouts[n] = 0 /\ n \notin nRegistry
      /\ faults = 0 => notes[n].status = "active" /\ n \notin acked
      /\ \A e \in deliveries : e.note = n => e = d
  BY TaskOfNote DEF TaskLedger
<1>2. d.triesLeft = notes[n].triesLeft - 1 /\ d.triesLeft \in Nat /\ sent[n] + d.triesLeft = InitialTries
  BY <1>1, TriesNat DEF TaskLedger, RetryNotification
<1>3. /\ UNCHANGED <<sent, acked, expired, faults>> /\ FaultsGrow /\ EndDelivery(d)
      /\ notes' = [notes EXCEPT ![n] = AfterNotificationRetry(@, d.triesLeft)]
  BY DEF RetryNotification, subVars, FaultsGrow, SubTypeOK
<1>4. /\ notes' \in [Notes -> Notification]
      /\ \A m \in Notes \ {n} : notes'[m] = notes[m]
      /\ notes'[n].status = IF d.triesLeft = 0 THEN "failed" ELSE notes[n].status
      /\ notes'[n].triesLeft = d.triesLeft
      /\ notes'[n].nonce = notes[n].nonce
  BY <1>1, <1>2, <1>3, RetryWritten
<1>5. RowChange(n)
  BY <1>1, <1>3, <1>4 DEF RowChange, Noted, NoteInv
<1>6. CASE d.triesLeft = 0
  <2>1. UNCHANGED <<nTimeouts, nRegistry, sent>>
    BY <1>3, <1>6 DEF RetryNotification
  <2>2. sent[n] = InitialTries
    BY <1>1, <1>2, <1>6
  <2>3. faults' = 0 /\ notes'[n].status = "failed" => sent[n] = InitialTries /\ n \notin acked'
    BY <1>1, <1>3, <2>2
  <2>4. expired \subseteq expired'
    BY <1>3
  <2> HIDE DEF n
  <2> QED
    BY <1>3, <1>5, <2>1, <2>3, <2>4, DeliveryEnds, RowChangeSame DEF n
<1>7. CASE d.triesLeft # 0
  <2>1. nTimeouts' = [nTimeouts EXCEPT ![n] = @ + 1] /\ nRegistry' = nRegistry \cup {n}
    BY <1>7 DEF RetryNotification, NS!AddTimeout
  <2>2. nTimeouts \in [Notes -> Nat] /\ nRegistry \subseteq Notes
    BY DEF DeliveryInv, NoteTypeOK
  <2>3. /\ nTimeouts' \in [Notes -> Nat] /\ nTimeouts'[n] = 1 /\ nRegistry' \subseteq Notes
        /\ \A m \in Notes \ {n} : nTimeouts'[m] = nTimeouts[m]
    BY <1>1, <2>1, <2>2
  <2>4. deliveries' = deliveries \ {d}
    BY <1>3 DEF EndDelivery
  <2>5. TasksOf(n)' = {}
    BY <1>1, <2>4 DEF TasksOf
  <2>6. NoteTypeOK'
    BY <1>3, <1>4, <2>3, <2>4 DEF DeliveryInv, NoteTypeOK
  <2>7. InitialTries' = InitialTries
    BY DEF InitialTries
  <2>8. notes'[n].status = notes[n].status /\ Noted(n)'
    BY <1>1, <1>4, <1>7 DEF Noted
  <2>9. notes'[n].triesLeft > 0 /\ sent'[n] + notes'[n].triesLeft = InitialTries
    <3>1. notes'[n].triesLeft = d.triesLeft /\ sent'[n] = sent[n]
      BY <1>3, <1>4
    <3>2. d.triesLeft > 0
      <4>1. d.triesLeft \in Nat
        BY <1>2
      <4> QED
        BY <1>7, <4>1
    <3> QED
      BY <1>2, <3>1, <3>2
  <2>10. NoteInv(n)'
    BY <1>1, <1>3, <2>1, <2>3, <2>5, <2>7, <2>8, <2>9 DEF NoteInv
  <2> HIDE DEF n
  <2>11. \A m \in Notes \ {n} :
           /\ notes'[m] = notes[m] /\ nTimeouts'[m] = nTimeouts[m] /\ sent'[m] = sent[m]
           /\ (m \in nRegistry' <=> m \in nRegistry) /\ (m \in acked' <=> m \in acked)
    BY <1>3, <1>4, <2>1, <2>3
  <2>12. (\A e \in deliveries : e.note # n => e \in deliveries') /\ (\A e \in deliveries' : e.note # n => e \in deliveries)
    BY <2>4 DEF n
  <2>13. expired \subseteq expired'
    BY <1>3
  <2>14. DeliveryInv'
    BY <1>1, <1>3, <2>6, <2>10, <2>11, <2>12, <2>13, OneNote DEF FaultsGrow
  <2> QED
    BY <1>5, <2>14, RowChangeSame DEF n
<1> QED
  BY <1>6, <1>7

LEMMA RetryNotificationFailsInv ==
    ASSUME SubTypeOK, DeliveryInv, NEW d \in deliveries, RetryNotificationFails(d)
    PROVE  DeliveryInv' /\ NotesSame
<1> DEFINE n == d.note
<1>1. /\ n \in Notes /\ NoteInv(n) /\ Noted(n) /\ d.triesLeft \in Nat
  BY TaskOfNote DEF DeliveryTask
<1>2. /\ UNCHANGED <<nTimeouts, nRegistry, sent, acked>> /\ EndDelivery(d)
      /\ UNCHANGED expired /\ FaultsGrow /\ faults' # 0
  BY DEF RetryNotificationFails, Fault, FaultsGrow, SubTypeOK
<1>3. RowChange(n)
  <2>1. CASE UNCHANGED notes
    BY <1>1, <1>2, <2>1, RowsUntouched DEF RowChange, Noted, NoteInv
  <2>2. CASE notes' = [notes EXCEPT ![n] = AfterNotificationRetry(@, d.triesLeft)]
    <3>1. /\ notes' \in [Notes -> Notification]
          /\ \A m \in Notes \ {n} : notes'[m] = notes[m]
          /\ notes'[n].status = IF d.triesLeft = 0 THEN "failed" ELSE notes[n].status
          /\ notes'[n].nonce = notes[n].nonce
      BY <1>1, <2>2, RetryWritten
    <3> QED
      BY <1>1, <1>2, <3>1 DEF RowChange, Noted, NoteInv
  <2> QED
    BY <2>1, <2>2 DEF RetryNotificationFails
<1> QED
  BY <1>2, <1>3, DeliveryEnds, RowChangeSame

LEMMA NotificationTimeoutInv ==
    ASSUME SubTypeOK, DeliveryInv, NEW n \in Notes, NotificationTimeout(n)
    PROVE  DeliveryInv' /\ NotesSame
<1> DEFINE v == [note |-> n, no |-> sent[n] + 1, pc |-> "reading", triesLeft |-> 0]
<1>1. NoteInv(n) /\ NoteTypeOK /\ nTimeouts[n] > 0 /\ sent[n] \in Nat
  BY NoteType DEF DeliveryInv, NotificationTimeout, NS!TimeoutFires
<1>2. n \in nRegistry /\ nTimeouts[n] = 1 /\ TasksOf(n) = {} /\ Delivering(n) /\ Noted(n)
  BY <1>1 DEF NoteInv, Delivering
<1>3. /\ sent' = [sent EXCEPT ![n] = @ + 1] /\ deliveries' = deliveries \cup {v}
      /\ nTimeouts' = [nTimeouts EXCEPT ![n] = @ - 1] /\ nRegistry' = nRegistry \ {n}
      /\ UNCHANGED <<notes, acked, expired, faults>> /\ FaultsGrow
  BY <1>2 DEF NotificationTimeout, NS!TimeoutFires, NS!CallbackRuns, subVars, FaultsGrow, SubTypeOK
<1>4. PICK u \in DeliveryTask : u = v /\ u.note = n /\ u.pc = "reading" /\ deliveries' = deliveries \cup {u}
  <2>1. v \in DeliveryTask /\ v.note = n /\ v.pc = "reading"
    BY <1>1 DEF DeliveryTask
  <2> HIDE DEF v
  <2> QED
    BY <1>3, <2>1
<1> HIDE DEF v
<1>5. /\ sent' \in [Notes -> Nat] /\ sent'[n] = sent[n] + 1
      /\ nTimeouts' \in [Notes -> Nat] /\ nTimeouts'[n] = 0 /\ n \notin nRegistry'
      /\ \A m \in Notes \ {n} : sent'[m] = sent[m] /\ nTimeouts'[m] = nTimeouts[m]
  <2>1. sent \in [Notes -> Nat] /\ nTimeouts \in [Notes -> Nat]
    BY <1>1 DEF NoteTypeOK
  <2>2. nTimeouts[n] - 1 = 0
    BY <1>2
  <2> QED
    BY <1>3, <2>1, <2>2
<1>6. NoteTypeOK'
  BY <1>1, <1>3, <1>4, <1>5 DEF NoteTypeOK
<1>7. \A d \in TasksOf(n)' : d = u
  BY <1>2, <1>4 DEF TasksOf
<1>8. InitialTries' = InitialTries /\ Noted(n)' = Noted(n)
  BY <1>3 DEF InitialTries, Noted
<1>9. notes[n].triesLeft > 0 /\ sent[n] + notes[n].triesLeft = InitialTries /\ notes[n].triesLeft \in Nat
  BY <1>1, NoteType DEF NoteInv
<1>10. TaskLedger(u)'
  <2>1. (sent[n] + 1) + notes[n].triesLeft = InitialTries + 1
    BY <1>1, <1>9, TriesNat
  <2>2. sent'[n] + notes'[n].triesLeft = InitialTries' + 1 /\ notes'[n].triesLeft > 0
    BY <1>3, <1>5, <1>8, <1>9, <2>1
  <2> QED
    BY <1>4, <2>2 DEF TaskLedger
<1>11. sent'[n] <= InitialTries
  BY <1>1, <1>5, <1>9, TriesNat
<1>12. faults = 0 => notes[n].status = "active" /\ n \notin acked
  BY <1>1, <1>2 DEF NoteInv
<1>13. NoteInv(n)'
  <2>1. /\ \A d, e \in TasksOf(n)' : d = e
        /\ \A d \in TasksOf(n)' : TaskLedger(d)'
    BY <1>7, <1>10
  <2>2. nTimeouts'[n] = 0 /\ n \notin nRegistry' /\ Noted(n)' /\ notes' = notes /\ acked' = acked /\ expired' = expired /\ faults' = faults
    BY <1>2, <1>3, <1>5, <1>8
  <2>3. /\ notes[n].status = "acknowledged" => n \in acked
        /\ notes[n].status = "orphaned" => SubOf(n) \in expired
    BY <1>1 DEF NoteInv
  <2> QED
    BY <1>8, <1>11, <1>12, <2>1, <2>2, <2>3 DEF NoteInv
<1>14. \A m \in Notes \ {n} :
         /\ notes'[m] = notes[m] /\ nTimeouts'[m] = nTimeouts[m] /\ sent'[m] = sent[m]
         /\ (m \in nRegistry' <=> m \in nRegistry) /\ (m \in acked' <=> m \in acked)
  BY <1>3, <1>5
<1>15. (\A e \in deliveries : e.note # n => e \in deliveries') /\ (\A e \in deliveries' : e.note # n => e \in deliveries)
  BY <1>3, <1>4
<1>16. expired \subseteq expired'
  BY <1>3
<1>17. DeliveryInv'
  BY <1>3, <1>6, <1>13, <1>14, <1>15, <1>16, OneNote DEF FaultsGrow
<1>18. NotesSame
  BY <1>3 DEF NotesSame, Noted
<1> QED
  BY <1>17, <1>18

\* Every step of a delivery preserves its part of the invariant.
LEMMA DeliveryStepsInv ==
    ASSUME SubTypeOK, DeliveryInv, NEW d \in deliveries, DeliveryStep(d) \/ DeliveryFault(d)
    PROVE  DeliveryInv' /\ NotesSame
BY SendNotificationInv, WebhookOkInv, WebhookNotOkInv, RetryNotificationInv, SendNotificationFailsInv,
   WebhookOkFailsInv, RetryNotificationFailsInv DEF DeliveryStep, DeliveryFault

\* A notification that did not exist is created, with or without its timer.
LEMMA CreateNotificationInv ==
    ASSUME DeliveryInv, FaultsGrow, UNCHANGED expired, NEW n \in Notes, ~Noted(n), NEW nonce \in Nat,
           \/ CreateNotification(n, nonce)
           \/ CreateNotificationFails(n, nonce)
    PROVE  /\ DeliveryInv'
           /\ \A m \in Notes \ {n} : notes'[m] = notes[m]
           /\ Noted(n)' => notes'[n].nonce = nonce
           /\ CreateNotification(n, nonce) => Noted(n)'
<1> DEFINE r == NewNotification(nonce)
<1>1. NoteTypeOK /\ NoteInv(n)
  BY DEF DeliveryInv
<1>2. /\ r \in Notification /\ r.status = "active" /\ r.triesLeft = InitialTries /\ r.nonce = nonce
  BY TriesNat DEF NewNotification, Notification, NotificationStatus
<1>3. sent[n] = 0 /\ nTimeouts[n] = 0 /\ n \notin nRegistry /\ TasksOf(n) = {} /\ n \notin acked
  BY <1>1, NoteType DEF NoteInv, Delivering
<1>4. UNCHANGED <<deliveries, sent, acked>>
  BY DEF CreateNotification, CreateNotificationFails
<1>5. notes' = [notes EXCEPT ![n] = r] \/ notes' = notes
  BY DEF CreateNotification, CreateNotificationFails
<1>6. \/ nTimeouts' = nTimeouts /\ nRegistry' = nRegistry
      \/ /\ nTimeouts' = [nTimeouts EXCEPT ![n] = @ + 1] /\ nRegistry' = nRegistry \cup {n}
         /\ notes' = [notes EXCEPT ![n] = r]
  BY DEF CreateNotification, CreateNotificationFails, NS!AddTimeout
<1>7. CreateNotification(n, nonce) => notes' = [notes EXCEPT ![n] = r]
  BY DEF CreateNotification
<1> HIDE DEF r
<1>8. /\ notes' \in [Notes -> Notification] /\ notes'[n] \in {r, notes[n]}
      /\ \A m \in Notes \ {n} : notes'[m] = notes[m]
      /\ notes' = [notes EXCEPT ![n] = r] => notes'[n] = r
  BY <1>1, <1>2, <1>5 DEF NoteTypeOK
<1>9. /\ nTimeouts' \in [Notes -> Nat] /\ nRegistry' \subseteq Notes
      /\ \A m \in Notes \ {n} : nTimeouts'[m] = nTimeouts[m] /\ (m \in nRegistry' <=> m \in nRegistry)
      /\ \/ nTimeouts'[n] = 0 /\ n \notin nRegistry'
         \/ nTimeouts'[n] = 1 /\ n \in nRegistry' /\ notes'[n] = r
  BY <1>1, <1>3, <1>6, <1>8 DEF NoteTypeOK
<1>10. NoteTypeOK'
  BY <1>1, <1>4, <1>8, <1>9 DEF NoteTypeOK
<1>11. TasksOf(n)' = {} /\ InitialTries' = InitialTries
  BY <1>3, <1>4 DEF TasksOf, InitialTries
<1>12. notes[n].status = "none"
  BY DEF Noted
<1>13. NoteInv(n)'
  <2>1. CASE nTimeouts'[n] = 0 /\ n \notin nRegistry'
    BY <1>2, <1>3, <1>4, <1>8, <1>11, <1>12, <2>1, TriesNat DEF NoteInv, Noted, Delivering
  <2>2. CASE nTimeouts'[n] = 1 /\ n \in nRegistry' /\ notes'[n] = r
    BY <1>2, <1>3, <1>4, <1>11, <2>2, TriesNat DEF NoteInv, Noted, Delivering
  <2> QED
    BY <1>9, <2>1, <2>2
<1>14. DeliveryInv'
  BY <1>4, <1>8, <1>9, <1>10, <1>13, OneNote DEF FaultsGrow
<1>15. Noted(n)' => notes'[n].nonce = nonce
  BY <1>2, <1>8, <1>12 DEF Noted
<1>16. CreateNotification(n, nonce) => Noted(n)'
  BY <1>2, <1>7, <1>8 DEF Noted
<1> QED
  BY <1>8, <1>14, <1>15, <1>16

\* A restart: timers and tasks are gone, the rows remain.
LEMMA DeliveriesLost ==
    ASSUME DeliveryInv, NS!ScheduleLost, deliveries' = {}, UNCHANGED <<notes, sent, acked, expired, faults>>
    PROVE  DeliveryInv'
<1>1. nTimeouts' = [n \in Notes |-> 0] /\ nRegistry' = {}
  BY DEF NS!ScheduleLost
<1>2. NoteTypeOK'
  BY <1>1 DEF DeliveryInv, NoteTypeOK
<1>3. ASSUME NEW n \in Notes PROVE NoteInv(n)'
  <2>1. NoteInv(n)
    BY DEF DeliveryInv
  <2>2. TasksOf(n)' = {} /\ ~Delivering(n)' /\ Noted(n)' = Noted(n) /\ nTimeouts'[n] = 0
    BY <1>1 DEF TasksOf, Delivering, Noted
  <2>3. InitialTries' = InitialTries
    BY DEF InitialTries
  <2> QED
    BY <1>1, <2>1, <2>2, <2>3 DEF NoteInv
<1> QED
  BY <1>2, <1>3 DEF DeliveryInv, Notes

LEMMA DeliveryInvInit ==
    ASSUME NoteInit
    PROVE  DeliveryInv
<1>1. /\ notes = [n \in Notes |-> [status |-> "none", triesLeft |-> 0, nonce |-> 0]]
      /\ deliveries = {} /\ nTimeouts = [n \in Notes |-> 0] /\ nRegistry = {}
      /\ sent = [n \in Notes |-> 0] /\ acked = {}
  BY DEF NoteInit, NS!ScheduleInit
<1>2. NoteTypeOK
  BY <1>1 DEF NoteTypeOK, Notification, NotificationStatus
<1>3. ASSUME NEW n \in Notes PROVE NoteInv(n)
  BY <1>1, TriesNat DEF NoteInv, Noted, Delivering, TasksOf
<1> QED
  BY <1>2, <1>3 DEF DeliveryInv

---------------------------------------------------------------------------
(* Steps of the two lower components.                                      *)

\* What the submissions rely on of a subscription.
SubsSame ==
    \A s \in Subs :
        /\ Created(s)' <=> Created(s)
        /\ subs'[s].scope = subs[s].scope /\ subs'[s].nextNonce = subs[s].nextNonce
        /\ subs'[s].status = "done" => subs[s].status = "done"

LEMMA HandshakeSame ==
    ASSUME HandshakeInv, NEW t \in handshakes, HandshakeStep(t) \/ HandshakeFault(t)
    PROVE  SubsSame /\ confirmed \subseteq confirmed' /\ FaultsGrow /\ UNCHANGED expired
<1>1. t.sub \in Subs /\ t.triesLeft \in Nat /\ SubTypeOK
  BY TaskType DEF HandshakeInv
<1>2. Created(t.sub)
  BY <1>1 DEF HandshakeInv, HandshakeLedger, Pending
<1>3. UNCHANGED faults \/ Fault
  BY DEF HandshakeStep, HandshakeFault, SendHandshake, HandshakeAccepted, HandshakeRefused, RetryHandshake,
     SendHandshakeLost, HandshakeAcceptedFails, RetryHandshakeFails
<1>4. FaultsGrow
  BY <1>1, <1>3 DEF FaultsGrow, Fault, SubTypeOK
<1>5. confirmed \subseteq confirmed' /\ UNCHANGED expired
  BY DEF HandshakeStep, HandshakeFault, SendHandshake, HandshakeAccepted, HandshakeRefused, RetryHandshake,
     SendHandshakeLost, HandshakeAcceptedFails, RetryHandshakeFails
<1>6. \/ UNCHANGED subs
      \/ subs' = [subs EXCEPT ![t.sub].status = "active"]
      \/ subs' = [subs EXCEPT ![t.sub] = AfterRetry(@, t.triesLeft)]
  BY Zenon DEF HandshakeStep, HandshakeFault, SendHandshake, HandshakeAccepted, HandshakeRefused, RetryHandshake,
     SendHandshakeLost, HandshakeAcceptedFails, RetryHandshakeFails
<1>7. CASE UNCHANGED subs
  BY <1>4, <1>5, <1>7 DEF SubsSame, Created
<1>8. CASE subs' = [subs EXCEPT ![t.sub].status = "active"]
  <2>1. SubsSame
    BY <1>1, <1>2, <1>8 DEF SubsSame, Created, SubTypeOK, Subscription
  <2> QED
    BY <1>4, <1>5, <2>1
<1>9. CASE subs' = [subs EXCEPT ![t.sub] = AfterRetry(@, t.triesLeft)]
  <2>1. subs \in [Subs -> Subscription] /\ subs[t.sub] \in Subscription
    BY <1>1 DEF SubTypeOK
  <2> DEFINE r == AfterRetry(subs[t.sub], t.triesLeft)
  <2>2. /\ r.scope = subs[t.sub].scope /\ r.nextNonce = subs[t.sub].nextNonce
        /\ r.status \in {"rejected", subs[t.sub].status}
    BY <2>1 DEF AfterRetry, Subscription
  <2>3. subs' = [subs EXCEPT ![t.sub] = r]
    BY <1>9
  <2> HIDE DEF r
  <2>4. SubsSame
    BY <1>1, <1>2, <2>1, <2>2, <2>3 DEF SubsSame, Created
  <2> QED
    BY <1>4, <1>5, <2>4
<1> QED
  BY <1>6, <1>7, <1>8, <1>9

\* What a handler and an event are.
LEMMA HandlerType ==
    ASSUME TxTypeOK, NEW h \in handlers
    PROVE  /\ h \in Handler /\ h.event \in Events /\ h.ids \subseteq Subs
           /\ \A s \in Subs : h.nonces[s] \in Nat
           /\ TxOf(h.event) \in Subs /\ StatusOf(h.event) \in TransactionStatus \ {"Idle"}
<1>1. h \in Handler
  BY DEF TxTypeOK
<1>2. h.event \in Events /\ h.ids \subseteq Subs /\ h.nonces \in [Subs -> Nat]
  BY <1>1 DEF Handler
<1>3. h.event \in TxEvents
  BY <1>2, WebhooksAssumption
<1> QED
  BY <1>1, <1>2, <1>3 DEF TxEvents, TxOf, StatusOf

LEMMA NoteParts ==
    ASSUME NEW n \in Notes
    PROVE  /\ n = <<EventOf(n), SubOf(n)>> /\ EventOf(n) \in Events /\ SubOf(n) \in Subs
           /\ TxOf(EventOf(n)) \in Subs /\ StatusOf(EventOf(n)) \in TransactionStatus \ {"Idle"}
<1>1. n = <<EventOf(n), SubOf(n)>> /\ EventOf(n) \in Events /\ SubOf(n) \in Subs
  BY DEF Notes, EventOf, SubOf
<1>2. EventOf(n) \in TxEvents
  BY <1>1, WebhooksAssumption
<1> QED
  BY <1>1, <1>2 DEF TxEvents, TxOf, StatusOf

LEMMA LowerInv ==
    ASSUME TxInv, UNCHANGED txVars, NotesSame, SubsSame, confirmed \subseteq confirmed', FaultsGrow
    PROVE  TxInv'
<1>1. UNCHANGED <<request, txStatus, currentId, txId, transactionStore, handlers, processed, restarts>>
  BY DEF txVars
<1>2. TxTypeOK /\ ScopeInv /\ NotesInv /\ HandlersInv /\ CountInv /\ DoneOnlyAfterTerminal /\ LocalInv
  BY DEF TxInv
<1>3. TxTypeOK'
  BY <1>1, <1>2 DEF TxTypeOK
<1>4. ScopeInv'
  BY <1>1, <1>2 DEF ScopeInv, SubsSame
<1>5. \A e : Happened(e)' = Happened(e)
  BY <1>1 DEF Happened
<1>6. NotesInv'
  BY <1>1, <1>2, <1>5, NoteParts DEF NotesInv, NotesSame, SubsSame
<1>7. ASSUME NEW h \in handlers PROVE HandlerInv(h)'
  <2>1. HandlerInv(h)
    BY <1>2 DEF HandlersInv
  <2>2. h.event \in Events /\ h.ids \subseteq Subs
    BY <1>2, HandlerType
  <2>3. ASSUME NEW s \in Subs PROVE Noted(<<h.event, s>>)' <=> Noted(<<h.event, s>>)
    <3>1. <<h.event, s>> \in Notes
      BY <2>2 DEF Notes
    <3> QED
      BY <3>1 DEF NotesSame
  <2>4. \A s \in Subs : subs'[s].nextNonce = subs[s].nextNonce
    BY DEF SubsSame
  <2> QED
    BY <1>1, <1>5, <2>1, <2>2, <2>3, <2>4 DEF HandlerInv
<1>8. HandlersInv'
  BY <1>1, <1>2, <1>7 DEF HandlersInv
<1>9. \A s : NotesOf(s)' = NotesOf(s)
  BY DEF NotesOf, NotesSame
<1>10. \A s : Owed(s)' = Owed(s)
  BY <1>1, <1>9 DEF Owed
<1>11. CountInv'
  BY <1>1, <1>2, <1>10 DEF CountInv, SubsSame, FaultsGrow
<1>12. DoneOnlyAfterTerminal'
  BY <1>1, <1>2 DEF DoneOnlyAfterTerminal, SubsSame
<1>13. LocalInv'
  <2>1. \A s : \A n \in NotesOf(s) : n \in Notes /\ notes'[n].nonce = notes[n].nonce
    BY DEF NotesOf, NotesSame
  <2>2. NoncesOrdered => NoncesOrdered'
    BY <1>9, <2>1 DEF NoncesOrdered, NoncesFollowStatus, NoncesUnique
  <2>3. \A h \in handlers : \A s \in h.ids : s \in Subs
    BY <1>2, HandlerType
  <2>4. ASSUME Store = "local", NEW h \in handlers
        PROVE  /\ txStatus'[TxOf(h.event)] = StatusOf(h.event)
               /\ h.pc = "bumping" => \A s \in h.ids : h.nonces[s] = subs'[s].nextNonce
               /\ h.pc = "creating" =>
                    \A s \in h.ids : \A n \in NotesOf(s)' : notes'[n].nonce < h.nonces[s]
    <3>1. \A s \in h.ids : subs'[s].nextNonce = subs[s].nextNonce
      BY <2>3 DEF SubsSame
    <3>2. h.pc = "creating" => \A s \in h.ids : \A n \in NotesOf(s) : notes[n].nonce < h.nonces[s]
      BY <1>2, <2>4 DEF LocalInv
    <3>3. h.pc = "creating" => \A s \in h.ids : \A n \in NotesOf(s)' : notes'[n].nonce < h.nonces[s]
      BY <1>9, <2>1, <3>2
    <3> QED
      BY <1>1, <1>2, <2>4, <3>1, <3>3 DEF LocalInv
  <2> QED
    BY <1>1, <1>2, <2>2, <2>4 DEF LocalInv
<1> QED
  BY <1>3, <1>4, <1>6, <1>8, <1>11, <1>12, <1>13 DEF TxInv

\* The steps of the handshakes, of the clock and of the deliveries.
LEMMA SubscribingInv ==
    ASSUME Inv, NEW s \in Subs, Subscribing(s) \/ TimePasses(s)
    PROVE  Inv'
<1>1. HandshakeInv /\ DeliveryInv /\ TxInv /\ SubTypeOK
  BY DEF Inv, HandshakeInv
<1>2. UNCHANGED noteVars /\ UNCHANGED txVars
  BY DEF Subscribing, TimePasses
<1>3. NotesSame
  BY <1>2 DEF NotesSame, noteVars, Noted
<1>4. CASE HandshakeTimeout(s) \/ Expire(s)
  <2>1. HandshakeInv'
    BY <1>1, <1>4, HandshakeTimeoutInv, ExpireInv
  <2>2. UNCHANGED <<subs, confirmed, faults>> /\ expired \subseteq expired'
    BY <1>4 DEF HandshakeTimeout, Expire
  <2>3. SubsSame /\ FaultsGrow
    BY <1>1, <2>2 DEF SubsSame, Created, FaultsGrow, SubTypeOK
  <2> QED
    BY <1>1, <1>2, <1>3, <2>1, <2>2, <2>3, LowerInv, NoNote DEF Inv, FaultsGrow
<1>5. ASSUME NEW t \in handshakes, HandshakeStep(t) PROVE Inv'
  <2>1. HandshakeInv'
    BY <1>1, <1>5, HandshakeStepInv
  <2>2. SubsSame /\ confirmed \subseteq confirmed' /\ FaultsGrow /\ UNCHANGED expired
    BY <1>1, <1>5, HandshakeSame
  <2> QED
    BY <1>1, <1>2, <1>3, <2>1, <2>2, LowerInv, NoNote DEF Inv, FaultsGrow
<1> QED
  BY <1>4, <1>5 DEF Subscribing, TimePasses

LEMMA SubscribingFailsInv ==
    ASSUME Inv, SubscribingFails
    PROVE  Inv'
<1>1. HandshakeInv /\ DeliveryInv /\ TxInv /\ SubTypeOK
  BY DEF Inv, HandshakeInv
<1>2. UNCHANGED noteVars /\ UNCHANGED txVars
  BY DEF SubscribingFails
<1>3. NotesSame
  BY <1>2 DEF NotesSame, noteVars, Noted
<1>4. PICK t \in handshakes : HandshakeFault(t)
  BY DEF SubscribingFails
<1>5. HandshakeInv'
  BY <1>1, <1>4, HandshakeStepInv
<1>6. SubsSame /\ confirmed \subseteq confirmed' /\ FaultsGrow /\ UNCHANGED expired
  BY <1>1, <1>4, HandshakeSame
<1> QED
  BY <1>1, <1>2, <1>3, <1>5, <1>6, LowerInv, NoNote DEF Inv, FaultsGrow

\* Nothing of the handshakes changes but the number of failed calls.
LEMMA HandshakeKept ==
    ASSUME HandshakeInv, UNCHANGED <<subs, expired, handshakes, hsTimeouts, hsRegistry, started, confirmed>>, FaultsGrow
    PROVE  HandshakeInv' /\ SubsSame
<1>1. faults' = 0 => faults = 0
  BY DEF FaultsGrow
<1>2. \A s : Created(s)' = Created(s) /\ Pending(s)' = Pending(s)
  BY DEF Created, Pending
<1>3. SubTypeOK' /\ HandshakeSingleFlight'
  BY DEF HandshakeInv, SubTypeOK, HandshakeSingleFlight, FaultsGrow
<1>4. HandshakeLedger'
  BY <1>2 DEF HandshakeInv, HandshakeLedger
<1>5. HandshakeBudget' /\ ActiveOnlyIfConfirmed' /\ PendingIsInactive'
  BY <1>1, <1>2 DEF HandshakeInv, HandshakeBudget, ActiveOnlyIfConfirmed, PendingIsInactive
<1>6. SubsSame
  BY <1>2 DEF SubsSame
<1> QED
  BY <1>3, <1>4, <1>5, <1>6 DEF HandshakeInv

\* What the delivery steps leave alone.
LEMMA DeliverySame ==
    ASSUME HandshakeInv, NEW d \in deliveries, DeliveryStep(d) \/ DeliveryFault(d)
    PROVE  FaultsGrow /\ UNCHANGED <<subs, expired, handshakes, hsTimeouts, hsRegistry, started, confirmed>>
<1>1. UNCHANGED faults \/ Fault
  BY DEF DeliveryStep, DeliveryFault, SendNotification, WebhookOk, WebhookNotOk, RetryNotification,
     SendNotificationFails, WebhookOkFails, RetryNotificationFails, subVars
<1>2. FaultsGrow
  BY <1>1 DEF FaultsGrow, Fault, HandshakeInv, SubTypeOK
<1>3. UNCHANGED <<subs, expired, handshakes, hsTimeouts, hsRegistry, started, confirmed>>
  BY DEF DeliveryStep, DeliveryFault, SendNotification, WebhookOk, WebhookNotOk, RetryNotification,
     SendNotificationFails, WebhookOkFails, RetryNotificationFails, subVars
<1> QED
  BY <1>2, <1>3

LEMMA NotifyingInv ==
    ASSUME Inv, NEW n \in Notes, Notifying(n) \/ NotifyingFails
    PROVE  Inv'
<1>1. HandshakeInv /\ DeliveryInv /\ TxInv /\ SubTypeOK
  BY DEF Inv, HandshakeInv
<1>2. UNCHANGED txVars
  BY DEF Notifying, NotifyingFails
<1>3. CASE NotificationTimeout(n)
  <2>1. DeliveryInv' /\ NotesSame
    BY <1>1, <1>3, NotificationTimeoutInv
  <2>2. UNCHANGED <<subs, expired, handshakes, hsTimeouts, hsRegistry, started, confirmed>> /\ FaultsGrow
    BY <1>1, <1>3 DEF NotificationTimeout, subVars, FaultsGrow, SubTypeOK
  <2>3. HandshakeInv' /\ SubsSame /\ confirmed \subseteq confirmed'
    BY <1>1, <2>2, HandshakeKept
  <2> QED
    BY <1>1, <1>2, <2>1, <2>2, <2>3, LowerInv DEF Inv
<1>4. ASSUME NEW d \in deliveries, DeliveryStep(d) \/ DeliveryFault(d) PROVE Inv'
  <2>1. DeliveryInv' /\ NotesSame
    BY <1>1, <1>4, DeliveryStepsInv
  <2>2. UNCHANGED <<subs, expired, handshakes, hsTimeouts, hsRegistry, started, confirmed>> /\ FaultsGrow
    BY <1>1, <1>4, DeliverySame
  <2>3. HandshakeInv' /\ SubsSame /\ confirmed \subseteq confirmed'
    BY <1>1, <2>2, HandshakeKept
  <2> QED
    BY <1>1, <1>2, <2>1, <2>2, <2>3, LowerInv DEF Inv
<1> QED
  BY <1>3, <1>4 DEF Notifying, NotifyingFails

---------------------------------------------------------------------------
(* Submissions.                                                            *)

\* Before a transaction runs there is nothing to tell about it.
LEMMA RanIfNoted ==
    ASSUME TxInv, restarts = 0, NEW n \in Notes, Noted(n)
    PROVE  request[SubOf(n)] \in Ran
<1>1. Happened(EventOf(n)) /\ TxOf(EventOf(n)) = SubOf(n)
  BY DEF TxInv, NotesInv
<1>2. SubOf(n) \in Subs /\ StatusOf(EventOf(n)) \in TransactionStatus \ {"Idle"}
  BY NoteParts
<1>3. txStatus[SubOf(n)] # "Idle"
  BY <1>1, <1>2 DEF Happened, Rank
<1> QED
  BY <1>2, <1>3 DEF TxInv, ScopeInv

LEMMA NothingOwed ==
    ASSUME TxInv, restarts = 0, NEW s \in Subs, request[s] \notin Ran
    PROVE  Owed(s) = {}
<1>1. NotesOf(s) = {}
  BY RanIfNoted DEF NotesOf
<1>2. \A h \in handlers : s \notin h.ids
  BY DEF TxInv, HandlersInv, HandlerInv
<1> QED
  BY <1>1, <1>2 DEF Owed

\* A step of a submission keeps what is known of the others.
LEMMA TxKept ==
    ASSUME TxInv, TxTypeOK', ScopeInv', FaultsGrow,
           UNCHANGED <<notes, txStatus, handlers, processed, restarts>>,
           confirmed \subseteq confirmed',
           \A s \in Subs : request[s] \in Ran => request'[s] \in Ran /\ subs'[s].nextNonce = subs[s].nextNonce,
           \A s \in Subs : request'[s] \in Ran /\ request[s] \notin Ran => subs'[s].nextNonce = 1,
           \A s \in Subs : s \in transactionStore' => s \in transactionStore \/ request[s] = "new",
           \A s \in Subs : subs'[s].status = "done" => subs[s].status = "done"
    PROVE  TxInv'
<1>1. TxTypeOK /\ ScopeInv /\ NotesInv /\ HandlersInv /\ CountInv /\ DoneOnlyAfterTerminal /\ LocalInv
  BY DEF TxInv
<1>2. \A n : Noted(n)' = Noted(n)
  BY DEF Noted
<1>3. \A e : Happened(e)' = Happened(e)
  BY DEF Happened
<1>4. ASSUME NEW n \in Notes, Noted(n), restarts = 0 PROVE subs'[SubOf(n)].nextNonce = subs[SubOf(n)].nextNonce
  BY <1>4, RanIfNoted, NoteParts
<1>5. NotesInv'
  BY <1>1, <1>2, <1>3, <1>4 DEF NotesInv
<1>6. ASSUME NEW h \in handlers PROVE HandlerInv(h)'
  <2>1. HandlerInv(h) /\ TxOf(h.event) \in Subs
    BY <1>1, HandlerType DEF HandlersInv
  <2>2. restarts = 0 => /\ request[TxOf(h.event)] \in Ran /\ request'[TxOf(h.event)] \in Ran
                        /\ subs'[TxOf(h.event)].nextNonce = subs[TxOf(h.event)].nextNonce
    BY <2>1 DEF HandlerInv
  <2>3. restarts = 0 /\ TxOf(h.event) \notin transactionStore => TxOf(h.event) \notin transactionStore'
    BY <2>1, <2>2 DEF Ran
  <2>4. restarts = 0 => \A s \in h.ids : s = TxOf(h.event)
    BY <2>1 DEF HandlerInv
  <2>5. ASSUME restarts = 0, NEW s \in h.ids
        PROVE  /\ h.pc = "bumping" => 1 <= h.nonces[s] /\ h.nonces[s] <= subs'[s].nextNonce
               /\ h.pc = "creating" => 1 <= h.nonces[s] /\ h.nonces[s] < subs'[s].nextNonce
    <3>1. subs'[s].nextNonce = subs[s].nextNonce
      BY <2>2, <2>4, <2>5
    <3> QED
      BY <2>1, <2>5, <3>1 DEF HandlerInv
  <2> QED
    BY <1>2, <1>3, <2>1, <2>2, <2>3, <2>4, <2>5 DEF HandlerInv
<1>7. HandlersInv'
  BY <1>1, <1>6 DEF HandlersInv
<1>8. \A s : NotesOf(s)' = NotesOf(s) /\ Owed(s)' = Owed(s)
  BY <1>2 DEF NotesOf, Owed
<1>9. CountInv'
  <2>1. ASSUME restarts = 0, faults' = 0, NEW s \in Subs, request'[s] \in Ran
        PROVE  IsFiniteSet(Owed(s)) /\ Cardinality(Owed(s)) = subs'[s].nextNonce - 1
    <3>1. CASE request[s] \in Ran
      <4>1. faults = 0
        BY <2>1 DEF FaultsGrow
      <4> QED
        BY <1>1, <2>1, <3>1, <4>1 DEF CountInv
    <3>2. CASE request[s] \notin Ran
      <4>1. Owed(s) = {} /\ subs'[s].nextNonce = 1
        BY <2>1, <3>2, NothingOwed
      <4> QED
        BY <4>1, FS_EmptySet
    <3> QED
      BY <3>1, <3>2
  <2> QED
    BY <1>8, <2>1 DEF CountInv
<1>10. DoneOnlyAfterTerminal'
  <2>1. ASSUME restarts = 0, NEW s \in Subs, subs'[s].status = "done"
        PROVE  s \notin transactionStore' /\ \E e \in processed : TxOf(e) = s /\ StatusOf(e) \in TerminalStatus
    <3>1. subs[s].status = "done"
      BY <2>1
    <3>2. request[s] # "new"
      BY <1>1, <2>1, <3>1 DEF ScopeInv, Created
    <3> QED
      BY <1>1, <2>1, <3>1, <3>2 DEF DoneOnlyAfterTerminal
  <2> QED
    BY <2>1 DEF DoneOnlyAfterTerminal
<1>11. LocalInv'
  <2>1. NoncesOrdered' = NoncesOrdered
    BY <1>8 DEF NoncesOrdered, NoncesFollowStatus, NoncesUnique
  <2>2. ASSUME Store = "local", NEW h \in handlers, NEW s \in h.ids
        PROVE  subs'[s].nextNonce = subs[s].nextNonce
    <3>1. restarts = 0
      BY <1>1, <2>2 DEF LocalInv
    <3>2. s \in Subs /\ request[s] \in Ran
      BY <1>1, <3>1, HandlerType DEF HandlersInv, HandlerInv
    <3> QED
      BY <3>2
  <2> QED
    BY <1>1, <1>8, <2>1, <2>2 DEF LocalInv
<1> QED
  BY <1>5, <1>7, <1>9, <1>10, <1>11 DEF TxInv

\* Ids when a submission that has one goes on.
LEMMA ScopeKept ==
    ASSUME TxInv, NEW s0 \in Subs, NEW to \in RequestState \ {"new"}, request[s0] # "new",
           request' = [request EXCEPT ![s0] = to],
           UNCHANGED <<txStatus, currentId, txId, restarts>>,
           restarts = 0 =>
             /\ \A s \in Subs : Created(s)' => subs'[s].scope = txId[s] /\ request[s] # "new"
             /\ \A s \in Subs : request'[s] \in Ran => subs'[s].nextNonce >= 1,
           request[s0] \in Ran => to \in Ran
    PROVE  ScopeInv'
<1>1. request \in [Subs -> RequestState] /\ ScopeInv
  BY DEF TxInv, TxTypeOK
<1>2. \A s \in Subs : (request'[s] # "new" <=> request[s] # "new") /\ (request'[s] \notin Ran => request[s] \notin Ran)
  BY <1>1
<1>3. {s \in Subs : request'[s] # "new"} = {s \in Subs : request[s] # "new"}
  BY <1>2
<1> QED
  BY <1>1, <1>2, <1>3 DEF ScopeInv

\* addListener: one more submission has an id.
LEMMA AddListenerInv ==
    ASSUME Inv, NEW s0 \in Subs, AddListener(s0)
    PROVE  Inv'
<1>1. HandshakeInv /\ DeliveryInv /\ TxInv /\ SubTypeOK /\ TxTypeOK /\ ScopeInv
  BY DEF Inv, HandshakeInv, TxInv
<1>2. /\ request[s0] = "new" /\ request' = [request EXCEPT ![s0] = "subscribing"]
      /\ currentId' = currentId + 1 /\ txId' = [txId EXCEPT ![s0] = currentId + 1]
      /\ transactionStore' = transactionStore \cup {s0}
      /\ UNCHANGED subVars /\ UNCHANGED noteVars /\ UNCHANGED <<txStatus, handlers, processed, restarts>>
  BY DEF AddListener, Request
<1>3. UNCHANGED <<subs, expired, handshakes, hsTimeouts, hsRegistry, started, confirmed>> /\ FaultsGrow
  BY <1>1, <1>2 DEF subVars, FaultsGrow, SubTypeOK
<1>4. HandshakeInv' /\ DeliveryInv'
  BY <1>1, <1>2, <1>3, HandshakeKept, NoNote DEF FaultsGrow
<1>5. request \in [Subs -> RequestState] /\ txId \in [Subs -> Nat] /\ currentId \in Nat
  BY <1>1 DEF TxTypeOK
<1>6. /\ request' \in [Subs -> RequestState] /\ request'[s0] = "subscribing"
      /\ \A s \in Subs \ {s0} : request'[s] = request[s]
      /\ txId' \in [Subs -> Nat] /\ txId'[s0] = currentId + 1 /\ \A s \in Subs \ {s0} : txId'[s] = txId[s]
  BY <1>2, <1>5 DEF RequestState
<1>7. TxTypeOK'
  BY <1>1, <1>2, <1>5, <1>6 DEF TxTypeOK
<1>8. currentId' <= Cardinality({s \in Subs : request'[s] # "new"}) /\ currentId + 1 \in 0..Cardinality(Subs)
  <2> DEFINE A == {s \in Subs : request[s] # "new"}
  <2> DEFINE B == {s \in Subs : request'[s] # "new"}
  <2>1. B = A \cup {s0} /\ s0 \notin A /\ A \subseteq Subs /\ B \subseteq Subs
    BY <1>2, <1>6
  <2>2. IsFiniteSet(Subs)
    BY WebhooksAssumption
  <2>3. IsFiniteSet(A) /\ IsFiniteSet(B)
    BY <2>1, <2>2, FS_Subset
  <2>4. Cardinality(A) \in Nat /\ Cardinality(B) \in Nat /\ Cardinality(Subs) \in Nat
    BY <2>2, <2>3, FS_CardinalityType
  <2>5. Cardinality(B) = Cardinality(A) + 1
    BY <2>1, <2>3, FS_AddElement
  <2>6. Cardinality(B) <= Cardinality(Subs)
    BY <2>1, <2>2, FS_Subset
  <2>7. currentId <= Cardinality(A)
    BY <1>1 DEF ScopeInv
  <2> HIDE DEF A
  <2>8. currentId + 1 <= Cardinality(B) /\ currentId + 1 \in 0..Cardinality(Subs)
    <3> HIDE DEF B
    <3> QED
      BY <1>5, <2>4, <2>5, <2>6, <2>7
  <2> QED
    BY <1>2, <2>8
<1>9. currentId + 1 \in Scopes
  BY <1>8, WebhooksAssumption
<1>10. ScopeInv'
  <2>1. \A s \in Subs : txId'[s] \in Scopes
    BY <1>1, <1>6, <1>9 DEF ScopeInv
  <2>2. ASSUME restarts = 0, NEW s \in Subs
        PROVE  /\ txId'[s] <= currentId'
               /\ request'[s] # "new" => txId'[s] # 0
               /\ Created(s)' => subs'[s].scope = txId'[s] /\ request'[s] # "new"
               /\ request'[s] \notin Ran => txStatus'[s] = "Idle"
               /\ request'[s] \in Ran => subs'[s].nextNonce >= 1
    <3>1. /\ txId[s] <= currentId
          /\ request[s] # "new" => txId[s] # 0
          /\ Created(s) => subs[s].scope = txId[s] /\ request[s] # "new"
          /\ request[s] \notin Ran => txStatus[s] = "Idle"
          /\ request[s] \in Ran => subs[s].nextNonce >= 1
      BY <1>1, <2>2 DEF ScopeInv
    <3>2. Created(s)' = Created(s) /\ subs' = subs /\ txStatus' = txStatus
      BY <1>2, <1>3 DEF Created
    <3>3. CASE s = s0
      BY <1>2, <1>5, <1>6, <3>1, <3>2, <3>3 DEF Ran
    <3>4. CASE s # s0
      BY <1>2, <1>5, <1>6, <3>1, <3>2, <3>4
    <3> QED
      BY <3>3, <3>4
  <2>3. ASSUME restarts = 0, NEW s \in Subs, NEW t \in Subs, txId'[s] = txId'[t], txId'[s] # 0 PROVE s = t
    <3>1. txId[s] <= currentId /\ txId[t] <= currentId /\ txId[s] \in Nat /\ txId[t] \in Nat
      BY <1>1, <1>5, <2>3 DEF ScopeInv
    <3>2. CASE s # s0 /\ t # s0
      BY <1>1, <1>6, <2>3, <3>2 DEF ScopeInv
    <3>3. CASE s = s0 /\ t # s0
      BY <1>5, <1>6, <2>3, <3>1, <3>3
    <3>4. CASE s # s0 /\ t = s0
      BY <1>5, <1>6, <2>3, <3>1, <3>4
    <3> QED
      BY <3>2, <3>3, <3>4
  <2> QED
    BY <1>2, <1>8, <2>1, <2>2, <2>3 DEF ScopeInv
<1>11. /\ \A s \in Subs : request[s] \in Ran => request'[s] \in Ran
       /\ \A s \in Subs : request'[s] \in Ran => request[s] \in Ran
  BY <1>2, <1>6 DEF Ran
<1>12. TxInv'
  BY <1>1, <1>2, <1>3, <1>7, <1>10, <1>11, TxKept DEF noteVars
<1> QED
  BY <1>4, <1>12 DEF Inv

\* createSubscription, answered or not.
LEMMA SubscribeInv ==
    ASSUME Inv, NEW s0 \in Subs, Subscribe(s0) \/ SubscribeFails(s0)
    PROVE  Inv'
<1> DEFINE r == NewSubscription(txId[s0])
<1>1. HandshakeInv /\ DeliveryInv /\ TxInv /\ SubTypeOK /\ TxTypeOK /\ ScopeInv
  BY DEF Inv, HandshakeInv, TxInv
<1>2. PICK to \in {"numbering", "failed"} : request' = [request EXCEPT ![s0] = to]
  BY DEF Subscribe, SubscribeFails, Request
<1>3. /\ request[s0] = "subscribing" /\ ~Created(s0)
      /\ UNCHANGED noteVars /\ UNCHANGED <<txStatus, currentId, txId, transactionStore, handlers, processed, restarts>>
      /\ UNCHANGED <<expired, confirmed>>
  BY DEF Subscribe, SubscribeFails, Request, CreateSubscription, CreateSubscriptionFails
<1>4. UNCHANGED subs \/ subs' = [subs EXCEPT ![s0] = r]
  BY DEF Subscribe, SubscribeFails, CreateSubscription, CreateSubscriptionFails
<1>5. txId[s0] \in Scopes
  BY <1>1 DEF ScopeInv
<1>6. FaultsGrow
  BY <1>1 DEF Subscribe, SubscribeFails, CreateSubscription, CreateSubscriptionFails, Fault, FaultsGrow, SubTypeOK
<1>7. HandshakeInv' /\ DeliveryInv'
  <2>1. HandshakeInv'
    BY <1>1, <1>5, CreateSubscriptionInv, CreateSubscriptionFailsInv DEF Subscribe, SubscribeFails
  <2> QED
    BY <1>1, <1>3, <1>6, <2>1, NoNote DEF FaultsGrow
<1>8. r.scope = txId[s0] /\ r.status = "inactive" /\ r \in Subscription
  BY <1>5, HandshakeTriesAssumption DEF NewSubscription, Subscription, SubscriptionStatus
<1> HIDE DEF r
<1>9. /\ \A s \in Subs \ {s0} : subs'[s] = subs[s]
      /\ subs'[s0] \in {r, subs[s0]}
  BY <1>1, <1>4 DEF SubTypeOK
<1>10. request \in [Subs -> RequestState] /\ to \in RequestState \ {"new"} /\ to \notin Ran /\ request[s0] \notin Ran
  BY <1>1, <1>2, <1>3 DEF TxTypeOK, RequestState, Ran
<1>11. /\ request' \in [Subs -> RequestState] /\ request'[s0] = to
       /\ \A s \in Subs \ {s0} : request'[s] = request[s]
  BY <1>2, <1>10
<1>12. TxTypeOK'
  BY <1>1, <1>3, <1>11 DEF TxTypeOK
<1>13. ScopeInv'
  <2>1. ASSUME restarts = 0, NEW s \in Subs, Created(s)' PROVE subs'[s].scope = txId[s] /\ request[s] # "new"
    <3>1. CASE s = s0
      BY <1>3, <1>8, <1>9, <2>1, <3>1 DEF Created
    <3>2. CASE s # s0
      BY <1>1, <1>9, <2>1, <3>2 DEF ScopeInv, Created
    <3> QED
      BY <3>1, <3>2
  <2>2. ASSUME restarts = 0, NEW s \in Subs, request'[s] \in Ran PROVE subs'[s].nextNonce >= 1
    BY <1>1, <1>9, <1>10, <1>11, <2>2 DEF ScopeInv
  <2> QED
    BY <1>1, <1>2, <1>3, <1>10, <2>1, <2>2, ScopeKept
<1>14. \A s \in Subs : request[s] \in Ran => request'[s] \in Ran /\ subs'[s].nextNonce = subs[s].nextNonce
  BY <1>9, <1>10, <1>11
<1>15. \A s \in Subs : request'[s] \in Ran => request[s] \in Ran
  BY <1>10, <1>11
<1>16. \A s \in Subs : subs'[s].status = "done" => subs[s].status = "done"
  BY <1>8, <1>9
<1>17. TxInv'
  BY <1>1, <1>3, <1>6, <1>12, <1>13, <1>14, <1>15, <1>16, TxKept DEF noteVars
<1> QED
  BY <1>7, <1>17 DEF Inv

\* The nonce of the first notification, and the response.
LEMMA StartNonceAtOneInv ==
    ASSUME Inv, NEW s0 \in Subs, StartNonceAtOne(s0) \/ StartNonceAtOneFails(s0)
    PROVE  Inv'
<1>1. HandshakeInv /\ DeliveryInv /\ TxInv /\ SubTypeOK /\ TxTypeOK /\ ScopeInv
  BY DEF Inv, HandshakeInv, TxInv
<1>2. PICK to \in {"running", "failed"} :
        request' = [request EXCEPT ![s0] = to] /\ (to = "running" => UpdateNextNonce(s0, 1))
  BY DEF StartNonceAtOne, StartNonceAtOneFails, Request
<1>3. /\ request[s0] = "numbering"
      /\ UNCHANGED noteVars /\ UNCHANGED <<txStatus, currentId, txId, transactionStore, handlers, processed, restarts>>
      /\ UNCHANGED <<expired, confirmed>>
  BY DEF StartNonceAtOne, StartNonceAtOneFails, Request, UpdateNextNonce
<1>4. FaultsGrow
  BY <1>1 DEF StartNonceAtOne, StartNonceAtOneFails, Fault, FaultsGrow, SubTypeOK
<1>5. UpdateNextNonce(s0, 1) \/ UNCHANGED <<subs, expired, handshakes, hsTimeouts, hsRegistry, started, confirmed>>
  BY DEF StartNonceAtOne, StartNonceAtOneFails
<1>6. HandshakeInv' /\ DeliveryInv'
  <2>1. HandshakeInv'
    BY <1>1, <1>4, <1>5, UpdateNextNonceInv, HandshakeKept DEF FaultsGrow
  <2> QED
    BY <1>1, <1>3, <1>4, <2>1, NoNote DEF FaultsGrow
<1>7. /\ \A s \in Subs \ {s0} : subs'[s] = subs[s]
      /\ subs'[s0].scope = subs[s0].scope /\ subs'[s0].status = subs[s0].status
      /\ to = "running" => subs'[s0].nextNonce = 1
  BY <1>1, <1>2, <1>5 DEF SubTypeOK, Subscription, UpdateNextNonce
<1>8. request \in [Subs -> RequestState] /\ to \in RequestState \ {"new"} /\ request[s0] \notin Ran
      /\ (to \in Ran <=> to = "running")
  BY <1>1, <1>2, <1>3 DEF TxTypeOK, RequestState, Ran
<1>9. /\ request' \in [Subs -> RequestState] /\ request'[s0] = to
      /\ \A s \in Subs \ {s0} : request'[s] = request[s]
  BY <1>2, <1>8
<1>10. TxTypeOK'
  BY <1>1, <1>3, <1>9 DEF TxTypeOK
<1>11. ScopeInv'
  <2>1. ASSUME restarts = 0, NEW s \in Subs, Created(s)' PROVE subs'[s].scope = txId[s] /\ request[s] # "new"
    BY <1>1, <1>7, <2>1 DEF ScopeInv, Created
  <2>2. ASSUME restarts = 0, NEW s \in Subs, request'[s] \in Ran PROVE subs'[s].nextNonce >= 1
    <3>1. CASE s = s0
      BY <1>7, <1>8, <1>9, <2>2, <3>1
    <3>2. CASE s # s0
      BY <1>1, <1>7, <1>9, <2>2, <3>2 DEF ScopeInv
    <3> QED
      BY <3>1, <3>2
  <2>3. request[s0] # "new" /\ (request[s0] \in Ran => to \in Ran)
    BY <1>3, <1>8
  <2> QED
    BY <1>1, <1>2, <1>3, <1>8, <2>1, <2>2, <2>3, ScopeKept
<1>12. \A s \in Subs : request[s] \in Ran => request'[s] \in Ran /\ subs'[s].nextNonce = subs[s].nextNonce
  BY <1>7, <1>8, <1>9
<1>13. \A s \in Subs : request'[s] \in Ran /\ request[s] \notin Ran => subs'[s].nextNonce = 1
  BY <1>7, <1>8, <1>9
<1>14. \A s \in Subs : subs'[s].status = "done" => subs[s].status = "done"
  BY <1>7
<1>15. TxInv'
  BY <1>1, <1>3, <1>4, <1>10, <1>11, <1>12, <1>13, <1>14, TxKept DEF noteVars
<1> QED
  BY <1>6, <1>15 DEF Inv

LEMMA RespondInv ==
    ASSUME Inv, NEW s0 \in Subs, Respond(s0)
    PROVE  Inv'
<1>1. HandshakeInv /\ DeliveryInv /\ TxInv /\ SubTypeOK /\ TxTypeOK /\ ScopeInv
  BY DEF Inv, HandshakeInv, TxInv
<1>2. /\ request[s0] = "running" /\ request' = [request EXCEPT ![s0] = "responded"]
      /\ UNCHANGED subVars /\ UNCHANGED noteVars
      /\ UNCHANGED <<txStatus, currentId, txId, transactionStore, handlers, processed, restarts>>
  BY DEF Respond, Request
<1>3. UNCHANGED <<subs, expired, handshakes, hsTimeouts, hsRegistry, started, confirmed>> /\ FaultsGrow
  BY <1>1, <1>2 DEF subVars, FaultsGrow, SubTypeOK
<1>4. HandshakeInv' /\ DeliveryInv'
  BY <1>1, <1>2, <1>3, HandshakeKept, NoNote DEF FaultsGrow
<1>5. request \in [Subs -> RequestState] /\ "responded" \in RequestState \ {"new"} /\ "responded" \in Ran /\ "running" \in Ran
  BY <1>1 DEF TxTypeOK, RequestState, Ran
<1>6. /\ request' \in [Subs -> RequestState] /\ request'[s0] = "responded"
      /\ \A s \in Subs \ {s0} : request'[s] = request[s]
  BY <1>2, <1>5
<1>7. TxTypeOK'
  BY <1>1, <1>2, <1>6 DEF TxTypeOK
<1>8. \A s \in Subs : request'[s] \in Ran <=> request[s] \in Ran
  BY <1>2, <1>5, <1>6
<1>9. ScopeInv'
  <2>1. ASSUME restarts = 0, NEW s \in Subs, Created(s)' PROVE subs'[s].scope = txId[s] /\ request[s] # "new"
    BY <1>1, <1>3, <2>1 DEF ScopeInv, Created
  <2>2. ASSUME restarts = 0, NEW s \in Subs, request'[s] \in Ran PROVE subs'[s].nextNonce >= 1
    BY <1>1, <1>3, <1>8, <2>2 DEF ScopeInv
  <2> QED
    BY <1>1, <1>2, <1>5, <2>1, <2>2, ScopeKept
<1>10. TxInv'
  BY <1>1, <1>2, <1>3, <1>7, <1>8, <1>9, TxKept DEF noteVars
<1> QED
  BY <1>4, <1>10 DEF Inv

---------------------------------------------------------------------------
(* Status handlers.                                                        *)

\* One handler goes on as G (its next state, or nothing): what the step does to
\* the rows is what the other handlers can live with.
HandlerMoves(h, G) ==
    /\ handlers' = (handlers \ {h}) \cup G
    /\ UNCHANGED txUnchanged /\ UNCHANGED confirmed /\ FaultsGrow
    /\ transactionStore' \subseteq transactionStore
    /\ processed \subseteq processed' /\ processed' \subseteq Events
    /\ \A s \in Subs :
         /\ Created(s)' <=> Created(s)
         /\ subs'[s].scope = subs[s].scope
         /\ subs'[s].nextNonce \in Nat /\ subs[s].nextNonce <= subs'[s].nextNonce
         /\ restarts = 0 /\ subs'[s].status = "done" =>
              \/ subs[s].status = "done"
              \/ /\ s \notin transactionStore
                 /\ \E e \in processed : TxOf(e) = s /\ StatusOf(e) \in TerminalStatus
    /\ \A n \in Notes :
         /\ Noted(n) \/ EventOf(n) # h.event => notes'[n] = notes[n]
         /\ Noted(n)' /\ ~Noted(n) =>
              /\ SubOf(n) \in confirmed
              /\ restarts = 0 =>
                   /\ TxOf(EventOf(n)) = SubOf(n)
                   /\ 1 <= notes'[n].nonce /\ notes'[n].nonce < subs'[SubOf(n)].nextNonce

LEMMA HandlerMovesInv ==
    ASSUME TxInv, SubTypeOK, NoteTypeOK, NEW h \in handlers, NEW G \in SUBSET Handler,
           \A g \in G : g.event = h.event /\ HandlerInv(g)',
           \A f, g \in G : f = g,
           HandlerMoves(h, G), CountInv', LocalInv'
    PROVE  TxInv'
<1>1. TxTypeOK /\ ScopeInv /\ NotesInv /\ HandlersInv /\ CountInv /\ DoneOnlyAfterTerminal /\ LocalInv
  BY DEF TxInv
<1>2. UNCHANGED <<request, txStatus, currentId, txId, restarts>> /\ confirmed' = confirmed
  BY DEF HandlerMoves, txUnchanged
<1>3. handlers' = (handlers \ {h}) \cup G
  BY DEF HandlerMoves
<1>4. TxTypeOK'
  <2>1. handlers' \subseteq Handler /\ transactionStore' \subseteq Subs /\ processed' \subseteq Events
    BY <1>1, <1>3 DEF TxTypeOK, HandlerMoves
  <2> QED
    BY <1>1, <1>2, <2>1 DEF TxTypeOK
<1>5. \A s \in Subs : /\ (Created(s)' <=> Created(s)) /\ subs'[s].scope = subs[s].scope
                      /\ subs[s].nextNonce \in Nat /\ subs'[s].nextNonce \in Nat
                      /\ subs[s].nextNonce <= subs'[s].nextNonce
  BY DEF HandlerMoves, SubTypeOK, Subscription
<1>6. ScopeInv'
  <2>1. \A s \in Subs : subs[s].nextNonce >= 1 => subs'[s].nextNonce >= 1
    BY <1>5
  <2> QED
    BY <1>1, <1>2, <1>5, <2>1 DEF ScopeInv
<1>7. \A e : Happened(e)' <=> Happened(e)
  BY <1>2 DEF Happened
<1>8. NotesInv'
  <2>1. ASSUME NEW n \in Notes, Noted(n)'
        PROVE  /\ Happened(EventOf(n)) /\ SubOf(n) \in confirmed
               /\ restarts = 0 =>
                    /\ TxOf(EventOf(n)) = SubOf(n)
                    /\ 1 <= notes'[n].nonce /\ notes'[n].nonce < subs'[SubOf(n)].nextNonce
    <3>1. SubOf(n) \in Subs
      BY NoteParts
    <3>2. CASE Noted(n)
      <4>1. notes'[n] = notes[n] /\ notes[n].nonce \in Nat
        BY <3>2, NoteType DEF HandlerMoves
      <4>2. /\ Happened(EventOf(n)) /\ SubOf(n) \in confirmed
            /\ restarts = 0 =>
                 /\ TxOf(EventOf(n)) = SubOf(n)
                 /\ 1 <= notes[n].nonce /\ notes[n].nonce < subs[SubOf(n)].nextNonce
        BY <1>1, <3>2 DEF NotesInv
      <4> QED
        BY <1>5, <3>1, <4>1, <4>2
    <3>3. CASE ~Noted(n)
      <4>1. EventOf(n) = h.event
        BY <2>1, <3>3 DEF HandlerMoves, Noted
      <4>2. Happened(EventOf(n))
        BY <1>1, <4>1 DEF HandlersInv, HandlerInv
      <4> QED
        BY <2>1, <3>3, <4>2 DEF HandlerMoves
    <3> QED
      BY <3>2, <3>3
  <2> QED
    BY <1>2, <1>7, <2>1 DEF NotesInv
<1>9. ASSUME NEW k \in handlers \ {h} PROVE HandlerInv(k)' /\ k.event # h.event
  <2>1. HandlerInv(k) /\ k.event # h.event
    BY <1>1, <1>9 DEF HandlersInv
  <2>2. k.event \in Events /\ k.ids \subseteq Subs /\ \A s \in Subs : k.nonces[s] \in Nat
    BY <1>1, HandlerType
  <2>3. ASSUME NEW s \in Subs, Noted(<<k.event, s>>)' PROVE Noted(<<k.event, s>>)
    <3>1. <<k.event, s>> \in Notes /\ EventOf(<<k.event, s>>) = k.event
      BY <2>2 DEF Notes, EventOf
    <3>2. notes'[<<k.event, s>>] = notes[<<k.event, s>>]
      BY <2>1, <3>1 DEF HandlerMoves
    <3> QED
      BY <2>3, <3>2 DEF Noted
  <2>4. ASSUME restarts = 0, NEW s \in k.ids
        PROVE  /\ s = TxOf(k.event)
               /\ k.pc = "bumping" => 1 <= k.nonces[s] /\ k.nonces[s] <= subs'[s].nextNonce
               /\ k.pc = "creating" => 1 <= k.nonces[s] /\ k.nonces[s] < subs'[s].nextNonce
    <3>1. /\ s = TxOf(k.event)
          /\ k.pc = "bumping" => 1 <= k.nonces[s] /\ k.nonces[s] <= subs[s].nextNonce
          /\ k.pc = "creating" => 1 <= k.nonces[s] /\ k.nonces[s] < subs[s].nextNonce
      BY <2>1, <2>4 DEF HandlerInv
    <3> QED
      BY <1>5, <2>2, <3>1
  <2>5. restarts = 0 => /\ request[TxOf(k.event)] \in Ran
                        /\ k.pc \in {"ending", "marking"} =>
                             /\ k.event \in processed' /\ StatusOf(k.event) \in TerminalStatus
                             /\ TxOf(k.event) \notin transactionStore'
    BY <2>1 DEF HandlerInv, HandlerMoves
  <2>6. Happened(k.event)' /\ k.ids \subseteq confirmed'
    BY <1>2, <1>7, <2>1 DEF HandlerInv
  <2>7. /\ k.pc \in {"finding", "bumping"} => \A s \in Subs : ~Noted(<<k.event, s>>)'
        /\ k.pc = "creating" => \A s \in k.ids : ~Noted(<<k.event, s>>)'
    BY <2>1, <2>2, <2>3 DEF HandlerInv
  <2> QED
    BY <1>2, <2>1, <2>4, <2>5, <2>6, <2>7 DEF HandlerInv
<1>10. HandlersInv'
  <2>1. \A k \in handlers' : HandlerInv(k)'
    BY <1>3, <1>9
  <2>2. \A f, g \in handlers' : f.event = g.event => f = g
    BY <1>1, <1>3, <1>9 DEF HandlersInv
  <2> QED
    BY <2>1, <2>2 DEF HandlersInv
<1>11. DoneOnlyAfterTerminal'
  <2>1. ASSUME restarts = 0, NEW s \in Subs, subs'[s].status = "done"
        PROVE  s \notin transactionStore' /\ \E e \in processed' : TxOf(e) = s /\ StatusOf(e) \in TerminalStatus
    <3>1. s \notin transactionStore /\ \E e \in processed : TxOf(e) = s /\ StatusOf(e) \in TerminalStatus
      BY <1>1, <2>1 DEF HandlerMoves, DoneOnlyAfterTerminal
    <3> QED
      BY <3>1 DEF HandlerMoves
  <2> QED
    BY <1>2, <2>1 DEF DoneOnlyAfterTerminal
<1> QED
  BY <1>4, <1>6, <1>8, <1>10, <1>11 DEF TxInv

\* A step of a handler that writes no row: the numbers it owes stay owed, unless
\* a call failed.
LEMMA HandlerQuiet ==
    ASSUME Inv, NEW h \in handlers, NEW G \in SUBSET Handler,
           \A g \in G : g.event = h.event /\ HandlerInv(g)',
           \A f, g \in G : f = g,
           handlers' = (handlers \ {h}) \cup G,
           UNCHANGED <<subs, expired, handshakes, hsTimeouts, hsRegistry, started, confirmed>>, FaultsGrow,
           UNCHANGED noteVars, UNCHANGED txUnchanged,
           transactionStore' \subseteq transactionStore,
           processed \subseteq processed', processed' \subseteq Events,
           \/ faults' > 0
           \/ \A s \in Subs : (h.pc = "creating" /\ s \in h.ids) <=> \E g \in G : g.pc = "creating" /\ s \in g.ids,
           Store = "local" => \A g \in G :
             /\ g.pc = "bumping" => \A s \in g.ids : g.nonces[s] = subs[s].nextNonce
             /\ g.pc = "creating" => \A s \in g.ids : \A n \in NotesOf(s) : notes[n].nonce < g.nonces[s]
    PROVE  Inv'
<1>1. HandshakeInv /\ DeliveryInv /\ TxInv /\ SubTypeOK /\ NoteTypeOK /\ TxTypeOK /\ CountInv /\ LocalInv
  BY DEF Inv, HandshakeInv, TxInv, DeliveryInv
<1>2. HandshakeInv' /\ DeliveryInv'
  BY <1>1, HandshakeKept, NoNote DEF FaultsGrow
<1>3. UNCHANGED <<request, txStatus, currentId, txId, restarts, notes>>
  BY DEF txUnchanged, noteVars
<1>4. HandlerMoves(h, G)
  <2>1. \A n : Noted(n)' <=> Noted(n)
    BY <1>3 DEF Noted
  <2>2. \A s \in Subs : /\ (Created(s)' <=> Created(s)) /\ subs'[s] = subs[s] /\ subs[s].nextNonce \in Nat
                        /\ subs[s].nextNonce <= subs[s].nextNonce
    BY <1>1 DEF Created, SubTypeOK, Subscription
  <2> QED
    BY <1>3, <2>1, <2>2 DEF HandlerMoves
<1>5. \A s : NotesOf(s)' = NotesOf(s)
  BY <1>3 DEF NotesOf, Noted
<1>6. CountInv'
  <2>1. CASE faults' > 0
    BY <2>1 DEF CountInv, FaultsGrow
  <2>2. CASE \A s \in Subs : (h.pc = "creating" /\ s \in h.ids) <=> \E g \in G : g.pc = "creating" /\ s \in g.ids
    <3>1. ASSUME NEW s \in Subs PROVE Owed(s)' = Owed(s)
      <4>1. ASSUME NEW n \in Notes
            PROVE  (\E k \in handlers' : k.event = EventOf(n) /\ k.pc = "creating" /\ s \in k.ids)
                     <=> (\E k \in handlers : k.event = EventOf(n) /\ k.pc = "creating" /\ s \in k.ids)
        BY <2>2
      <4> QED
        BY <1>5, <4>1 DEF Owed
    <3>2. faults' = 0 => faults = 0
      BY DEF FaultsGrow
    <3> QED
      BY <1>1, <1>3, <3>1, <3>2 DEF CountInv
  <2> QED
    BY <2>1, <2>2
<1>7. LocalInv'
  <2>1. NoncesOrdered' <=> NoncesOrdered
    BY <1>3, <1>5 DEF NoncesOrdered, NoncesFollowStatus, NoncesUnique
  <2>2. ASSUME Store = "local", NEW k \in handlers' 
        PROVE  /\ txStatus'[TxOf(k.event)] = StatusOf(k.event)
               /\ k.pc = "bumping" => \A s \in k.ids : k.nonces[s] = subs'[s].nextNonce
               /\ k.pc = "creating" => \A s \in k.ids : \A n \in NotesOf(s)' : notes'[n].nonce < k.nonces[s]
    <3>1. txStatus[TxOf(h.event)] = StatusOf(h.event)
      BY <1>1, <2>2 DEF LocalInv
    <3>2. CASE k \in G
      BY <1>3, <1>5, <2>2, <3>1, <3>2
    <3>3. CASE k \in handlers
      BY <1>1, <1>3, <1>5, <2>2, <3>3 DEF LocalInv
    <3> QED
      BY <3>2, <3>3
  <2>3. Store = "local" => \A f, g \in handlers' : f = g
    BY <1>1 DEF LocalInv
  <2> QED
    BY <1>1, <1>3, <2>1, <2>2, <2>3 DEF LocalInv
<1>8. TxInv'
  BY <1>1, <1>4, <1>6, <1>7, HandlerMovesInv
<1> QED
  BY <1>2, <1>8 DEF Inv

LEMMA HandlerKept ==
    ASSUME NEW g, HandlerInv(g),
           UNCHANGED <<notes, txStatus, confirmed, request, restarts, subs, transactionStore, processed>>
    PROVE  HandlerInv(g)'
<1>1. (Happened(g.event)' <=> Happened(g.event)) /\ \A n : Noted(n)' <=> Noted(n)
  BY DEF Happened, Noted
<1> QED
  BY <1>1 DEF HandlerInv

\* What is found is Active, so confirmed; in one process it is the subscription of
\* the transaction itself.
LEMMA FoundActive ==
    ASSUME Inv, NEW h \in handlers, NEW s \in FindActive(Scope(h))
    PROVE  /\ s \in Subs /\ s \in confirmed
           /\ restarts = 0 => s = TxOf(h.event) /\ subs[s].nextNonce >= 1
<1>1. s \in Subs /\ subs[s].status = "active" /\ subs[s].scope = txId[TxOf(h.event)]
  BY DEF FindActive, Scope
<1>2. HandshakeInv /\ TxInv /\ TxTypeOK
  BY DEF Inv, TxInv
<1>3. s \in confirmed
  BY <1>1, <1>2 DEF HandshakeInv, ActiveOnlyIfConfirmed
<1>4. TxOf(h.event) \in Subs
  BY <1>2, HandlerType
<1>5. ASSUME restarts = 0 PROVE s = TxOf(h.event) /\ subs[s].nextNonce >= 1
  <2>1. request[TxOf(h.event)] \in Ran
    BY <1>2, <1>5 DEF TxInv, HandlersInv, HandlerInv
  <2>2. subs[s].scope = txId[s] /\ request[s] # "new"
    BY <1>1, <1>2, <1>5 DEF TxInv, ScopeInv, Created
  <2>3. txId[s] # 0
    BY <1>1, <1>2, <1>5, <2>2 DEF TxInv, ScopeInv
  <2>4. s = TxOf(h.event)
    BY <1>1, <1>2, <1>4, <1>5, <2>2, <2>3 DEF TxInv, ScopeInv
  <2> QED
    BY <1>1, <1>2, <1>5, <2>1, <2>4 DEF TxInv, ScopeInv
<1> QED
  BY <1>1, <1>3, <1>5

\* createEventNotifications: the query.
LEMMA FindAffectedInv ==
    ASSUME Inv, NEW h \in handlers, FindAffected(h)
    PROVE  Inv'
<1>1. HandshakeInv /\ TxInv /\ TxTypeOK /\ SubTypeOK /\ HandlerInv(h)
  BY DEF Inv, TxInv, HandshakeInv, HandlersInv
<1>2. /\ h \in Handler /\ h.event \in Events /\ TxOf(h.event) \in Subs
      /\ StatusOf(h.event) \in TransactionStatus \ {"Idle"}
  BY <1>1, HandlerType
<1>3. FindActive(Scope(h)) \subseteq Subs /\ [s \in Subs |-> subs[s].nextNonce] \in [Subs -> Nat]
  BY <1>1 DEF FindActive, SubTypeOK, Subscription
<1>4. PICK g \in Handler :
        /\ g.event = h.event /\ g.pc \in {"processing", "bumping"}
        /\ g.ids = FindActive(Scope(h)) /\ g.nonces = [s \in Subs |-> subs[s].nextNonce]
        /\ handlers' = (handlers \ {h}) \cup {g}
  <2> DEFINE f == [h EXCEPT !.pc = IF FindActive(Scope(h)) = {} THEN "processing" ELSE "bumping",
                            !.ids = FindActive(Scope(h)),
                            !.nonces = [s \in Subs |-> subs[s].nextNonce]]
  <2>1. /\ f \in Handler /\ f.event = h.event /\ f.pc \in {"processing", "bumping"}
        /\ f.ids = FindActive(Scope(h)) /\ f.nonces = [s \in Subs |-> subs[s].nextNonce]
    BY <1>2, <1>3 DEF Handler
  <2>2. handlers' = (handlers \ {h}) \cup {f}
    BY DEF FindAffected, StepHandler
  <2> HIDE DEF f
  <2> QED
    BY <2>1, <2>2
<1> DEFINE G == {g}
<1>5. h.pc = "finding" /\ handlers' = (handlers \ {h}) \cup G
  BY <1>4 DEF FindAffected
<1>6. UNCHANGED subVars /\ UNCHANGED noteVars /\ UNCHANGED txUnchanged /\ UNCHANGED <<transactionStore, processed>>
  BY DEF FindAffected
<1>7. HandlerInv(g)
  <2>1. Happened(g.event) /\ (\A s \in Subs : ~Noted(<<g.event, s>>)) /\ g.ids \subseteq confirmed
    BY <1>1, <1>4, <1>5, FoundActive DEF HandlerInv
  <2>2. restarts = 0 => request[TxOf(g.event)] \in Ran
    BY <1>1, <1>4 DEF HandlerInv
  <2>3. ASSUME restarts = 0, NEW s \in g.ids
        PROVE  s = TxOf(g.event) /\ 1 <= g.nonces[s] /\ g.nonces[s] <= subs[s].nextNonce
    <3>1. s \in Subs /\ s = TxOf(h.event) /\ subs[s].nextNonce >= 1
      BY <1>4, <2>3, FoundActive
    <3>2. g.nonces[s] = subs[s].nextNonce /\ subs[s].nextNonce \in Nat
      BY <1>1, <1>4, <3>1 DEF SubTypeOK, Subscription
    <3> QED
      BY <1>4, <3>1, <3>2
  <2> QED
    BY <1>4, <2>1, <2>2, <2>3 DEF HandlerInv
<1>8. HandlerInv(g)'
  BY <1>6, <1>7, HandlerKept DEF subVars, noteVars, txUnchanged
<1>9. /\ G \subseteq Handler /\ (\A k \in G : k.event = h.event /\ HandlerInv(k)') /\ \A j, k \in G : j = k
  BY <1>4, <1>8
<1>10. \A s \in Subs : (h.pc = "creating" /\ s \in h.ids) <=> \E k \in G : k.pc = "creating" /\ s \in k.ids
  BY <1>4, <1>5
<1>11. \A k \in G : /\ k.pc = "bumping" => \A s \in k.ids : k.nonces[s] = subs[s].nextNonce
                    /\ k.pc # "creating"
  BY <1>3, <1>4
<1>12. UNCHANGED <<subs, expired, handshakes, hsTimeouts, hsRegistry, started, confirmed>> /\ FaultsGrow
  BY <1>1, <1>6 DEF subVars, FaultsGrow, SubTypeOK
<1>13. processed' \subseteq Events
  BY <1>1, <1>6 DEF TxTypeOK
<1> HIDE DEF G
<1> QED
  BY <1>5, <1>6, <1>9, <1>10, <1>11, <1>12, <1>13, HandlerQuiet

\* A handler that owes no notification ends.
LEMMA HandlerEnds ==
    ASSUME Inv, NEW h \in handlers, EndHandler(h),
           UNCHANGED <<subs, expired, handshakes, hsTimeouts, hsRegistry, started, confirmed>>, FaultsGrow,
           UNCHANGED noteVars, UNCHANGED txUnchanged, UNCHANGED transactionStore,
           processed \subseteq processed', processed' \subseteq Events,
           faults' > 0 \/ h.pc # "creating" \/ h.ids = {}
    PROVE  Inv'
<1> DEFINE G == {}
<1>1. handlers' = (handlers \ {h}) \cup G /\ G \subseteq Handler
  BY DEF EndHandler
<1>2. faults' > 0 \/ \A s \in Subs : (h.pc = "creating" /\ s \in h.ids) <=> \E g \in G : g.pc = "creating" /\ s \in g.ids
  OBVIOUS
<1>3. (\A g \in G : g.event = h.event /\ HandlerInv(g)') /\ \A f, g \in G : f = g
  OBVIOUS
<1>4. \A g \in G : /\ g.pc = "bumping" => \A s \in g.ids : g.nonces[s] = subs[s].nextNonce
                   /\ g.pc = "creating" => \A s \in g.ids : \A n \in NotesOf(s) : notes[n].nonce < g.nonces[s]
  OBVIOUS
<1> HIDE DEF G
<1> QED
  BY <1>1, <1>2, <1>3, <1>4, HandlerQuiet

\* What a handler is at its next step.
LEMMA GotoType ==
    ASSUME NEW h \in Handler, NEW pc \in {"finding", "bumping", "creating", "processing", "ending", "marking"}
    PROVE  /\ Goto(h, pc) \in Handler /\ Goto(h, pc).pc = pc
           /\ Goto(h, pc).event = h.event /\ Goto(h, pc).ids = h.ids /\ Goto(h, pc).nonces = h.nonces
BY DEF Goto, Handler

\* Promise.all of createNotifications.
LEMMA CreatedAllInv ==
    ASSUME Inv, NEW h \in handlers, CreatedAll(h)
    PROVE  Inv'
<1>1. HandshakeInv /\ TxInv /\ TxTypeOK /\ SubTypeOK /\ HandlerInv(h)
  BY DEF Inv, TxInv, HandshakeInv, HandlersInv
<1>2. h \in Handler
  BY <1>1, HandlerType
<1>3. h.pc = "creating" /\ h.ids = {} /\ (EndHandler(h) \/ StepHandler(h, Goto(h, "processing")))
  BY DEF CreatedAll
<1>4. UNCHANGED subVars /\ UNCHANGED noteVars /\ UNCHANGED txUnchanged /\ UNCHANGED <<transactionStore, processed>>
  BY DEF CreatedAll
<1>5. UNCHANGED <<subs, expired, handshakes, hsTimeouts, hsRegistry, started, confirmed>> /\ FaultsGrow
  BY <1>1, <1>4 DEF subVars, FaultsGrow, SubTypeOK
<1>6. processed' \subseteq Events
  BY <1>1, <1>4 DEF TxTypeOK
<1>7. CASE EndHandler(h)
  BY <1>3, <1>4, <1>5, <1>6, <1>7, HandlerEnds
<1>8. CASE StepHandler(h, Goto(h, "processing"))
  <2>1. PICK g \in Handler : /\ g.event = h.event /\ g.pc = "processing" /\ g.ids = {}
                             /\ handlers' = (handlers \ {h}) \cup {g}
    BY <1>2, <1>3, <1>8, GotoType DEF StepHandler
  <2> DEFINE G == {g}
  <2>2. HandlerInv(g)
    BY <1>1, <2>1 DEF HandlerInv
  <2>3. HandlerInv(g)'
    BY <1>4, <1>5, <2>2, HandlerKept DEF noteVars, txUnchanged
  <2>4. /\ G \subseteq Handler /\ (\A k \in G : k.event = h.event /\ HandlerInv(k)') /\ \A j, k \in G : j = k
    BY <2>1, <2>3
  <2>5. \A s \in Subs : (h.pc = "creating" /\ s \in h.ids) <=> \E k \in G : k.pc = "creating" /\ s \in k.ids
    BY <1>3, <2>1
  <2>6. \A k \in G : k.pc # "bumping" /\ k.pc # "creating"
    BY <2>1
  <2>7. handlers' = (handlers \ {h}) \cup G
    BY <2>1
  <2> HIDE DEF G
  <2> QED
    BY <1>4, <1>5, <1>6, <2>4, <2>5, <2>6, <2>7, HandlerQuiet
<1> QED
  BY <1>3, <1>7, <1>8

\* markEventAsProcessed, and the listener of a transaction that has ended.
LEMMA MarkProcessedInv ==
    ASSUME Inv, NEW h \in handlers, MarkProcessed(h)
    PROVE  Inv'
<1>1. HandshakeInv /\ TxInv /\ TxTypeOK /\ SubTypeOK /\ HandlerInv(h)
  BY DEF Inv, TxInv, HandshakeInv, HandlersInv
<1>2. h \in Handler /\ h.event \in Events
  BY <1>1, HandlerType
<1>3. h.pc = "processing" /\ processed' = processed \cup {h.event}
  BY DEF MarkProcessed, MarkEventAsProcessed
<1>4. UNCHANGED subVars /\ UNCHANGED noteVars /\ UNCHANGED txUnchanged
  BY DEF MarkProcessed
<1>5. UNCHANGED <<subs, expired, handshakes, hsTimeouts, hsRegistry, started, confirmed>> /\ FaultsGrow
  BY <1>1, <1>4 DEF subVars, FaultsGrow, SubTypeOK
<1>6. processed \subseteq processed' /\ processed' \subseteq Events
  BY <1>1, <1>2, <1>3 DEF TxTypeOK
<1>7. CASE StatusOf(h.event) \notin TerminalStatus
  <2>1. EndHandler(h) /\ UNCHANGED transactionStore
    BY <1>7 DEF MarkProcessed
  <2> QED
    BY <1>3, <1>4, <1>5, <1>6, <2>1, HandlerEnds
<1>8. CASE StatusOf(h.event) \in TerminalStatus
  <2>1. StepHandler(h, Goto(h, "ending")) /\ transactionStore' = transactionStore \ {TxOf(h.event)}
    BY <1>8 DEF MarkProcessed
  <2>2. PICK g \in Handler : /\ g.event = h.event /\ g.pc = "ending" /\ g.ids = h.ids
                             /\ handlers' = (handlers \ {h}) \cup {g}
    BY <1>2, <2>1, GotoType DEF StepHandler
  <2> DEFINE G == {g}
  <2>3. UNCHANGED <<txStatus, request, restarts>>
    BY <1>4 DEF txUnchanged
  <2>4. Happened(g.event)' /\ g.ids \subseteq confirmed'
    BY <1>1, <1>5, <2>2, <2>3 DEF HandlerInv, Happened
  <2>5. restarts = 0 => /\ request'[TxOf(g.event)] \in Ran
                        /\ \A s \in g.ids : s = TxOf(g.event)
    BY <1>1, <2>2, <2>3 DEF HandlerInv
  <2>6. g.event \in processed' /\ StatusOf(g.event) \in TerminalStatus /\ TxOf(g.event) \notin transactionStore'
    BY <1>3, <1>8, <2>1, <2>2
  <2>7. HandlerInv(g)'
    BY <2>2, <2>3, <2>4, <2>5, <2>6 DEF HandlerInv
  <2>8. /\ G \subseteq Handler /\ (\A k \in G : k.event = h.event /\ HandlerInv(k)') /\ \A j, k \in G : j = k
    BY <2>2, <2>7
  <2>9. \A s \in Subs : (h.pc = "creating" /\ s \in h.ids) <=> \E k \in G : k.pc = "creating" /\ s \in k.ids
    BY <1>3, <2>2
  <2>10. \A k \in G : k.pc # "bumping" /\ k.pc # "creating"
    BY <2>2
  <2>11. handlers' = (handlers \ {h}) \cup G /\ transactionStore' \subseteq transactionStore
    BY <2>1, <2>2
  <2> HIDE DEF G
  <2> QED
    BY <1>4, <1>5, <1>6, <2>8, <2>9, <2>10, <2>11, HandlerQuiet
<1> QED
  BY <1>7, <1>8

\* markSubsAsDone: the query, and the end.
LEMMA FindEndingInv ==
    ASSUME Inv, NEW h \in handlers, FindEnding(h)
    PROVE  Inv'
<1>1. HandshakeInv /\ TxInv /\ TxTypeOK /\ SubTypeOK /\ HandlerInv(h)
  BY DEF Inv, TxInv, HandshakeInv, HandlersInv
<1>2. h \in Handler /\ FindActive(Scope(h)) \subseteq Subs
  BY <1>1, HandlerType DEF FindActive
<1>3. PICK g \in Handler : /\ g.event = h.event /\ g.pc = "marking" /\ g.ids = FindActive(Scope(h))
                           /\ handlers' = (handlers \ {h}) \cup {g}
  <2> DEFINE f == [h EXCEPT !.pc = "marking", !.ids = FindActive(Scope(h))]
  <2>1. f \in Handler /\ f.event = h.event /\ f.pc = "marking" /\ f.ids = FindActive(Scope(h))
    BY <1>2 DEF Handler
  <2>2. handlers' = (handlers \ {h}) \cup {f}
    BY DEF FindEnding, StepHandler
  <2> HIDE DEF f
  <2> QED
    BY <2>1, <2>2
<1> DEFINE G == {g}
<1>4. h.pc = "ending" /\ handlers' = (handlers \ {h}) \cup G
  BY <1>3 DEF FindEnding
<1>5. UNCHANGED subVars /\ UNCHANGED noteVars /\ UNCHANGED txUnchanged /\ UNCHANGED <<transactionStore, processed>>
  BY DEF FindEnding
<1>6. UNCHANGED <<subs, expired, handshakes, hsTimeouts, hsRegistry, started, confirmed>> /\ FaultsGrow
  BY <1>1, <1>5 DEF subVars, FaultsGrow, SubTypeOK
<1>7. HandlerInv(g)
  BY <1>1, <1>3, <1>4, FoundActive DEF HandlerInv
<1>8. HandlerInv(g)'
  BY <1>5, <1>6, <1>7, HandlerKept DEF noteVars, txUnchanged
<1>9. /\ G \subseteq Handler /\ (\A k \in G : k.event = h.event /\ HandlerInv(k)') /\ \A j, k \in G : j = k
  BY <1>3, <1>8
<1>10. \A s \in Subs : (h.pc = "creating" /\ s \in h.ids) <=> \E k \in G : k.pc = "creating" /\ s \in k.ids
  BY <1>3, <1>4
<1>11. \A k \in G : k.pc # "bumping" /\ k.pc # "creating"
  BY <1>3
<1>12. processed' \subseteq Events
  BY <1>1, <1>5 DEF TxTypeOK
<1> HIDE DEF G
<1> QED
  BY <1>4, <1>5, <1>6, <1>9, <1>10, <1>11, <1>12, HandlerQuiet

LEMMA MarkedAllInv ==
    ASSUME Inv, NEW h \in handlers, MarkedAll(h)
    PROVE  Inv'
<1>1. SubTypeOK /\ TxTypeOK
  BY DEF Inv, TxInv, HandshakeInv
<1>2. UNCHANGED subVars /\ UNCHANGED noteVars /\ UNCHANGED txUnchanged /\ UNCHANGED <<transactionStore, processed>>
  BY DEF MarkedAll
<1>3. UNCHANGED <<subs, expired, handshakes, hsTimeouts, hsRegistry, started, confirmed>> /\ FaultsGrow
  BY <1>1, <1>2 DEF subVars, FaultsGrow, SubTypeOK
<1>4. processed' \subseteq Events
  BY <1>1, <1>2 DEF TxTypeOK
<1> QED
  BY <1>2, <1>3, <1>4, HandlerEnds DEF MarkedAll

\* batchBumpNonce: the numbers the handler read are owed from here on.
LEMMA BumpNoncesInv ==
    ASSUME Inv, NEW h \in handlers, h.pc = "bumping", IncrementNonces(h.ids),
           UNCHANGED noteVars, UNCHANGED txUnchanged, UNCHANGED <<transactionStore, processed>>,
           \/ StepHandler(h, Goto(h, "creating")) /\ UNCHANGED faults
           \/ EndHandler(h) /\ Fault
    PROVE  Inv'
<1>1. /\ HandshakeInv /\ DeliveryInv /\ TxInv /\ TxTypeOK /\ SubTypeOK /\ NoteTypeOK
      /\ NotesInv /\ HandlersInv /\ HandlerInv(h) /\ CountInv /\ LocalInv
  BY DEF Inv, TxInv, HandshakeInv, HandlersInv, DeliveryInv
<1>2. /\ h \in Handler /\ h.event \in Events /\ h.ids \subseteq Subs
      /\ (\A s \in Subs : h.nonces[s] \in Nat) /\ TxOf(h.event) \in Subs
  BY <1>1, HandlerType
<1>3. UNCHANGED <<request, txStatus, currentId, txId, restarts, notes, expired, confirmed>>
  BY DEF txUnchanged, noteVars, IncrementNonces
<1>4. FaultsGrow
  BY <1>1 DEF FaultsGrow, Fault, SubTypeOK
<1>5. HandshakeInv' /\ DeliveryInv'
  <2>1. HandshakeInv'
    BY <1>1, <1>4, IncrementNoncesInv DEF FaultsGrow
  <2> QED
    BY <1>1, <1>3, <1>4, <2>1, NoNote DEF FaultsGrow
<1>6. ASSUME NEW s \in Subs
      PROVE  /\ subs'[s].status = subs[s].status /\ subs'[s].scope = subs[s].scope
             /\ subs[s].nextNonce \in Nat
             /\ subs'[s].nextNonce = IF s \in h.ids THEN subs[s].nextNonce + 1 ELSE subs[s].nextNonce
  BY <1>1 DEF IncrementNonces, SubTypeOK, Subscription
<1>7. \A n : Noted(n)' <=> Noted(n)
  BY <1>3 DEF Noted
<1>8. \A s : NotesOf(s)' = NotesOf(s)
  BY <1>7 DEF NotesOf
<1>9. processed' \subseteq Events
  BY <1>1 DEF TxTypeOK
<1>10. \A s \in Subs : /\ (Created(s)' <=> Created(s)) /\ subs'[s].nextNonce \in Nat
                       /\ subs[s].nextNonce <= subs'[s].nextNonce
  BY <1>6 DEF Created
<1>11. NoncesOrdered' <=> NoncesOrdered
  BY <1>3, <1>8 DEF NoncesOrdered, NoncesFollowStatus, NoncesUnique
<1>12. ASSUME NEW G, handlers' = (handlers \ {h}) \cup G PROVE HandlerMoves(h, G)
  <2>1. \A s \in Subs : subs'[s].scope = subs[s].scope /\ subs'[s].status = subs[s].status
    BY <1>6
  <2> QED
    BY <1>3, <1>4, <1>7, <1>9, <1>10, <1>12, <2>1 DEF HandlerMoves
<1>13. CASE EndHandler(h) /\ Fault
  <2> DEFINE G == {}
  <2>1. handlers' = (handlers \ {h}) \cup G /\ G \subseteq Handler
    BY <1>13 DEF EndHandler
  <2>2. CountInv'
    BY <1>1, <1>13 DEF CountInv, Fault, SubTypeOK
  <2>3. LocalInv'
    BY <1>13 DEF LocalInv, Fault
  <2>4. (\A g \in G : g.event = h.event /\ HandlerInv(g)') /\ \A f, g \in G : f = g
    OBVIOUS
  <2> HIDE DEF G
  <2>5. TxInv'
    BY <1>1, <1>12, <2>1, <2>2, <2>3, <2>4, HandlerMovesInv
  <2> QED
    BY <1>5, <2>5 DEF Inv
<1>14. CASE StepHandler(h, Goto(h, "creating")) /\ UNCHANGED faults
  <2>1. PICK g \in Handler : /\ g.event = h.event /\ g.pc = "creating" /\ g.ids = h.ids /\ g.nonces = h.nonces
                             /\ handlers' = (handlers \ {h}) \cup {g}
    BY <1>2, <1>14, GotoType DEF StepHandler
  <2>2. HandlerInv(g)'
    <3>1. Happened(g.event)' /\ g.ids \subseteq confirmed' /\ \A s \in g.ids : ~Noted(<<g.event, s>>)'
      BY <1>1, <1>2, <1>3, <1>7, <2>1 DEF HandlerInv, Happened
    <3>2. restarts = 0 => request'[TxOf(g.event)] \in Ran
      BY <1>1, <1>3, <2>1 DEF HandlerInv
    <3>3. ASSUME restarts = 0, NEW s \in g.ids
          PROVE  s = TxOf(g.event) /\ 1 <= g.nonces[s] /\ g.nonces[s] < subs'[s].nextNonce
      <4>1. s \in Subs /\ s \in h.ids /\ g.nonces[s] \in Nat
        BY <1>2, <2>1
      <4>2. s = TxOf(g.event) /\ 1 <= g.nonces[s] /\ g.nonces[s] <= subs[s].nextNonce
        BY <1>1, <2>1, <3>3 DEF HandlerInv
      <4>3. subs'[s].nextNonce = subs[s].nextNonce + 1 /\ subs[s].nextNonce \in Nat
        BY <1>6, <4>1
      <4> QED
        BY <4>1, <4>2, <4>3
    <3> QED
      BY <1>3, <2>1, <3>1, <3>2, <3>3 DEF HandlerInv
  <2>3. CountInv'
    <3>1. ASSUME restarts = 0, faults = 0, NEW s \in Subs, request[s] \in Ran
          PROVE  IsFiniteSet(Owed(s)') /\ Cardinality(Owed(s)') = subs'[s].nextNonce - 1
      <4>1. IsFiniteSet(Owed(s)) /\ Cardinality(Owed(s)) = subs[s].nextNonce - 1
        BY <1>1, <3>1 DEF CountInv
      <4> DEFINE new == <<h.event, s>>
      <4>2. new \in Notes /\ EventOf(new) = h.event /\ SubOf(new) = s
        BY <1>2 DEF Notes, EventOf, SubOf
      <4>3. ~Noted(new)
        BY <1>1 DEF HandlerInv
      <4>4. \A k \in handlers : k.event = h.event => k = h
        BY <1>1 DEF HandlersInv
      <4>5. new \notin Owed(s)
        BY <4>2, <4>3, <4>4 DEF Owed, NotesOf
      <4>6. \A n \in Notes : SubOf(n) = s /\ EventOf(n) = h.event => n = new
        BY NoteParts
      <4> HIDE DEF new
      <4>7. CASE s \in h.ids
        <5>1. ASSUME NEW n \in Notes, SubOf(n) = s
              PROVE  (\E k \in handlers' : k.event = EventOf(n) /\ k.pc = "creating" /\ s \in k.ids)
                       <=> \/ n = new
                           \/ \E k \in handlers : k.event = EventOf(n) /\ k.pc = "creating" /\ s \in k.ids
          BY <2>1, <4>2, <4>6, <4>7, <5>1
        <5>2. Owed(s)' = Owed(s) \cup {new}
          BY <1>8, <4>2, <5>1 DEF Owed
        <5>3. IsFiniteSet(Owed(s)') /\ Cardinality(Owed(s)') = Cardinality(Owed(s)) + 1
          BY <4>1, <4>5, <5>2, FS_AddElement
        <5> QED
          BY <1>6, <4>1, <4>7, <5>3
      <4>8. CASE s \notin h.ids
        <5>1. ASSUME NEW n \in Notes
              PROVE  (\E k \in handlers' : k.event = EventOf(n) /\ k.pc = "creating" /\ s \in k.ids)
                       <=> \E k \in handlers : k.event = EventOf(n) /\ k.pc = "creating" /\ s \in k.ids
          BY <2>1, <4>8
        <5>2. Owed(s)' = Owed(s)
          BY <1>8, <5>1 DEF Owed
        <5> QED
          BY <1>6, <4>1, <4>8, <5>2
      <4> QED
        BY <4>7, <4>8
    <3> QED
      BY <1>3, <1>14, <3>1 DEF CountInv
  <2>4. LocalInv'
    <3>1. Store = "local" => restarts = 0 /\ handlers = {h}
      BY <1>1 DEF LocalInv
    <3>2. Store = "local" => handlers' = {g}
      BY <2>1, <3>1
    <3>3. ASSUME Store = "local", NEW s \in g.ids, NEW n \in NotesOf(s)
          PROVE  notes[n].nonce < g.nonces[s]
      <4>1. restarts = 0 /\ g.nonces[s] = subs[s].nextNonce
        BY <1>1, <2>1, <3>3 DEF LocalInv
      <4>2. n \in Notes /\ SubOf(n) = s /\ Noted(n)
        BY DEF NotesOf
      <4> QED
        BY <1>1, <4>1, <4>2 DEF NotesInv
    <3>4. Store = "local" => txStatus[TxOf(g.event)] = StatusOf(g.event)
      BY <1>1, <2>1 DEF LocalInv
    <3> QED
      BY <1>1, <1>3, <1>8, <1>11, <2>1, <3>1, <3>2, <3>3, <3>4 DEF LocalInv
  <2> DEFINE G == {g}
  <2>5. /\ G \in SUBSET Handler /\ (\A k \in G : k.event = h.event /\ HandlerInv(k)') /\ (\A j, k \in G : j = k)
        /\ handlers' = (handlers \ {h}) \cup G
    BY <2>1, <2>2
  <2> HIDE DEF G
  <2>6. TxInv'
    BY <1>1, <1>12, <2>3, <2>4, <2>5, HandlerMovesInv
  <2> QED
    BY <1>5, <2>6 DEF Inv
<1> QED
  BY <1>13, <1>14

\* The order of statuses, as Earlier and Rank have it.
LEMMA EarlierRank ==
    ASSUME NEW a, NEW b, Earlier(a, b), b \in TransactionStatus \ {"Idle"}
    PROVE  Rank(a) < Rank(b)
BY DEF Earlier, Rank, TransactionStatus, TerminalStatus

\* createNotification: a number that was owed is used.
LEMMA CreateOneInv ==
    ASSUME Inv, NEW h \in handlers, NEW s0 \in h.ids, CreateOne(h, s0) \/ CreateOneFails(h, s0)
    PROVE  Inv'
<1> DEFINE new == <<h.event, s0>>
<1>1. /\ HandshakeInv /\ DeliveryInv /\ TxInv /\ TxTypeOK /\ SubTypeOK /\ NoteTypeOK
      /\ NotesInv /\ HandlersInv /\ HandlerInv(h) /\ CountInv /\ LocalInv
  BY DEF Inv, TxInv, HandshakeInv, HandlersInv, DeliveryInv
<1>2. /\ h \in Handler /\ h.event \in Events /\ h.ids \subseteq Subs /\ s0 \in Subs
      /\ (\A s \in Subs : h.nonces[s] \in Nat) /\ TxOf(h.event) \in Subs
      /\ StatusOf(h.event) \in TransactionStatus \ {"Idle"}
  BY <1>1, HandlerType
<1>3. /\ h.pc = "creating" /\ UNCHANGED txUnchanged /\ UNCHANGED <<transactionStore, processed>>
      /\ UNCHANGED <<subs, expired, handshakes, hsTimeouts, hsRegistry, started, confirmed>>
  BY DEF CreateOne, CreateOneFails, subVars
<1>4. UNCHANGED <<request, txStatus, currentId, txId, restarts>>
  BY <1>3 DEF txUnchanged
<1>5. FaultsGrow
  BY <1>1 DEF CreateOne, CreateOneFails, subVars, Fault, FaultsGrow, SubTypeOK
<1>6. new \in Notes /\ EventOf(new) = h.event /\ SubOf(new) = s0 /\ ~Noted(new)
  BY <1>1, <1>2, <1>3 DEF Notes, EventOf, SubOf, HandlerInv
<1>7. CreateNotification(new, h.nonces[s0]) \/ CreateNotificationFails(new, h.nonces[s0])
  BY DEF CreateOne, CreateOneFails
<1>8. PICK g \in Handler : /\ g.event = h.event /\ g.pc = "creating" /\ g.ids = h.ids \ {s0} /\ g.nonces = h.nonces
                           /\ handlers' = (handlers \ {h}) \cup {g}
  <2>1. CASE CreateOne(h, s0)
    <3> DEFINE f == [h EXCEPT !.ids = @ \ {s0}]
    <3>1. /\ f \in Handler /\ f.event = h.event /\ f.pc = h.pc /\ f.ids = h.ids \ {s0}
          /\ f.nonces = h.nonces
      BY <1>2 DEF Handler
    <3>2. handlers' = (handlers \ {h}) \cup {f}
      BY <2>1 DEF CreateOne, StepHandler
    <3> HIDE DEF f
    <3> QED
      BY <1>3, <3>1, <3>2
  <2>2. CASE CreateOneFails(h, s0)
    <3> DEFINE f == [h EXCEPT !.ids = @ \ {s0}, !.failed = TRUE]
    <3>1. /\ f \in Handler /\ f.event = h.event /\ f.pc = h.pc /\ f.ids = h.ids \ {s0}
          /\ f.nonces = h.nonces
      BY <1>2 DEF Handler
    <3>2. handlers' = (handlers \ {h}) \cup {f}
      BY <2>2 DEF CreateOneFails, StepHandler
    <3> HIDE DEF f
    <3> QED
      BY <1>3, <3>1, <3>2
  <2> QED
    BY <2>1, <2>2
<1>9. CreateOne(h, s0) => CreateNotification(new, h.nonces[s0])
  BY DEF CreateOne
<1> HIDE DEF new
<1>10. /\ HandshakeInv' /\ DeliveryInv' /\ (\A m \in Notes \ {new} : notes'[m] = notes[m])
       /\ (Noted(new)' => notes'[new].nonce = h.nonces[s0]) /\ (CreateOne(h, s0) => Noted(new)')
  BY <1>1, <1>2, <1>3, <1>5, <1>6, <1>7, <1>9, CreateNotificationInv, HandshakeKept
<1>11. \A n \in Notes \ {new} : Noted(n)' <=> Noted(n)
  BY <1>10 DEF Noted
<1>12. \A n \in Notes : SubOf(n) = s0 /\ EventOf(n) = h.event => n = new
  BY <1>6, NoteParts
<1>13. s0 \in confirmed /\ (restarts = 0 => /\ s0 = TxOf(h.event) /\ 1 <= h.nonces[s0]
                                             /\ h.nonces[s0] < subs[s0].nextNonce)
  BY <1>1, <1>3 DEF HandlerInv
<1> DEFINE G == {g}
<1>14. HandlerMoves(h, G)
  <2>1. \A s \in Subs : /\ (Created(s)' <=> Created(s)) /\ subs'[s] = subs[s] /\ subs[s].nextNonce \in Nat
                        /\ subs[s].nextNonce <= subs[s].nextNonce
    BY <1>1, <1>3 DEF Created, SubTypeOK, Subscription
  <2>2. \A n \in Notes : Noted(n) \/ EventOf(n) # h.event => notes'[n] = notes[n]
    BY <1>6, <1>10
  <2>3. ASSUME NEW n \in Notes, Noted(n)', ~Noted(n)
        PROVE  /\ SubOf(n) \in confirmed
               /\ restarts = 0 =>
                    /\ TxOf(EventOf(n)) = SubOf(n)
                    /\ 1 <= notes'[n].nonce /\ notes'[n].nonce < subs'[SubOf(n)].nextNonce
    <3>1. n = new
      BY <1>11, <2>3
    <3> QED
      BY <1>3, <1>6, <1>10, <1>13, <2>3, <3>1
  <2>4. processed' \subseteq Events /\ confirmed' = confirmed
    BY <1>1, <1>3 DEF TxTypeOK
  <2> QED
    BY <1>3, <1>5, <1>8, <2>1, <2>2, <2>3, <2>4 DEF HandlerMoves
<1>15. HandlerInv(g)'
  <2>1. Happened(g.event)' /\ g.ids \subseteq confirmed'
    BY <1>1, <1>3, <1>4, <1>8 DEF HandlerInv, Happened
  <2>2. ASSUME NEW s \in g.ids PROVE ~Noted(<<g.event, s>>)'
    <3>1. <<g.event, s>> \in Notes /\ SubOf(<<g.event, s>>) = s /\ s # s0 /\ s \in h.ids
      BY <1>2, <1>8 DEF Notes, SubOf
    <3>2. ~Noted(<<g.event, s>>) /\ <<g.event, s>> # new
      BY <1>1, <1>3, <1>6, <1>8, <3>1 DEF HandlerInv
    <3> QED
      BY <1>11, <3>1, <3>2
  <2>3. restarts = 0 => request'[TxOf(g.event)] \in Ran
    BY <1>1, <1>4, <1>8 DEF HandlerInv
  <2>4. ASSUME restarts = 0, NEW s \in g.ids
        PROVE  s = TxOf(g.event) /\ 1 <= g.nonces[s] /\ g.nonces[s] < subs'[s].nextNonce
    BY <1>1, <1>3, <1>8, <2>4 DEF HandlerInv
  <2> QED
    BY <1>4, <1>8, <2>1, <2>2, <2>3, <2>4 DEF HandlerInv
<1>16. CountInv'
  <2>1. CASE CreateOneFails(h, s0)
    BY <1>1, <2>1 DEF CreateOneFails, CountInv, Fault, SubTypeOK
  <2>2. CASE CreateOne(h, s0)
    <3>1. ASSUME NEW s \in Subs PROVE Owed(s)' = Owed(s)
      <4>1. ASSUME NEW n \in Notes, SubOf(n) = s, n # new
            PROVE  (\E k \in handlers' : k.event = EventOf(n) /\ k.pc = "creating" /\ s \in k.ids)
                     <=> \E k \in handlers : k.event = EventOf(n) /\ k.pc = "creating" /\ s \in k.ids
        <5>1. ~(EventOf(n) = h.event /\ s = s0)
          BY <1>12, <4>1
        <5>2. EventOf(n) = h.event => (s \in g.ids <=> s \in h.ids)
          BY <1>8, <5>1
        <5> QED
          BY <1>3, <1>8, <5>2
      <4>2. s = s0 => new \in Owed(s) /\ new \in Owed(s)'
        <5>1. Noted(new)'
          BY <1>10, <2>2
        <5> QED
          BY <1>3, <1>6, <5>1 DEF Owed, NotesOf
      <4>3. s # s0 => new \notin Owed(s) /\ new \notin Owed(s)'
        BY <1>6 DEF Owed, NotesOf
      <4>4. ASSUME NEW n \in Notes \ {new} PROVE n \in Owed(s)' <=> n \in Owed(s)
        BY <1>11, <4>1 DEF Owed, NotesOf
      <4>5. Owed(s) \subseteq Notes /\ Owed(s)' \subseteq Notes
        BY DEF Owed, NotesOf, Notes
      <4> QED
        BY <4>2, <4>3, <4>4, <4>5
    <3>2. UNCHANGED faults
      BY <2>2 DEF CreateOne, subVars
    <3> QED
      BY <1>1, <1>3, <1>4, <3>1, <3>2 DEF CountInv
  <2> QED
    BY <2>1, <2>2
<1>17. LocalInv'
  <2>1. SUFFICES ASSUME Store = "local" PROVE LocalInv'
    BY DEF LocalInv
  <2>2. restarts = 0 /\ handlers = {h} /\ NoncesOrdered /\ txStatus[TxOf(h.event)] = StatusOf(h.event)
    BY <1>1, <2>1 DEF LocalInv
  <2>3. handlers' = {g} /\ h.ids = {s0} /\ g.ids = {}
    BY <1>1, <1>8, <2>2, <1>13 DEF HandlerInv
  <2>4. \A n \in NotesOf(s0) : notes[n].nonce < h.nonces[s0] /\ n \in Notes /\ notes[n].nonce \in Nat
    <3>1. \A n \in NotesOf(s0) : notes[n].nonce < h.nonces[s0]
      BY <1>1, <1>3, <2>1 DEF LocalInv
    <3>2. \A n \in NotesOf(s0) : n \in Notes /\ notes[n].nonce \in Nat
      BY <1>1, NoteType DEF NotesOf
    <3> QED
      BY <3>1, <3>2
  <2>5. \A s \in Subs : \A n \in NotesOf(s)' : n = new \/ (n \in NotesOf(s) /\ notes'[n] = notes[n])
    BY <1>10, <1>11 DEF NotesOf
  <2>6. \A s \in Subs : new \in NotesOf(s)' => s = s0 /\ notes'[new].nonce = h.nonces[s0]
    BY <1>6, <1>10 DEF NotesOf
  <2>7. ASSUME NEW s \in Subs, NEW m \in NotesOf(s)', NEW n \in NotesOf(s)',
               Earlier(StatusOf(EventOf(m)), StatusOf(EventOf(n)))
        PROVE  notes'[m].nonce < notes'[n].nonce
    <3>1. m \in Notes /\ n \in Notes
      BY DEF NotesOf, Notes
    <3>2. Rank(StatusOf(EventOf(m))) < Rank(StatusOf(EventOf(n)))
      BY <2>7, <3>1, NoteParts, EarlierRank
    <3>3. CASE m # new /\ n # new
      BY <2>2, <2>5, <2>7, <3>3 DEF NoncesOrdered, NoncesFollowStatus, NoncesUnique
    <3>4. CASE m # new /\ n = new
      BY <2>4, <2>5, <2>6, <3>4
    <3>5. CASE m = new /\ n # new
      <4>1. n \in NotesOf(s) /\ s = s0 /\ Noted(n) /\ SubOf(n) = s0
        BY <2>5, <2>6, <3>5 DEF NotesOf
      <4>2. Happened(EventOf(n)) /\ TxOf(EventOf(n)) = s0
        BY <1>1, <2>2, <3>1, <4>1 DEF NotesInv
      <4>3. Rank(StatusOf(EventOf(n))) <= Rank(StatusOf(h.event))
        BY <1>13, <2>2, <4>2 DEF Happened
      <4>4. EventOf(m) = h.event
        BY <1>6, <3>5
      <4> QED
        BY <3>2, <4>3, <4>4 DEF Rank
    <3>6. CASE m = new /\ n = new
      BY <3>2, <3>6 DEF Rank
    <3> QED
      BY <3>3, <3>4, <3>5, <3>6
  <2>8. ASSUME NEW s \in Subs, NEW m \in NotesOf(s)', NEW n \in NotesOf(s)', m # n
        PROVE  notes'[m].nonce # notes'[n].nonce
    <3>1. CASE m # new /\ n # new
      BY <2>2, <2>5, <2>8, <3>1 DEF NoncesOrdered, NoncesUnique
    <3>2. CASE m # new /\ n = new
      BY <1>2, <2>4, <2>5, <2>6, <3>2
    <3>3. CASE m = new /\ n # new
      BY <1>2, <2>4, <2>5, <2>6, <3>3
    <3> QED
      BY <2>8, <3>1, <3>2, <3>3
  <2>9. NoncesOrdered'
    BY <2>7, <2>8 DEF NoncesOrdered, NoncesFollowStatus, NoncesUnique
  <2> QED
    BY <1>4, <1>8, <2>2, <2>3, <2>9 DEF LocalInv
<1>18. /\ G \in SUBSET Handler /\ (\A k \in G : k.event = h.event /\ HandlerInv(k)') /\ (\A j, k \in G : j = k)
  BY <1>8, <1>15
<1> HIDE DEF G
<1>19. TxInv'
  BY <1>1, <1>14, <1>16, <1>17, <1>18, HandlerMovesInv
<1> QED
  BY <1>10, <1>19 DEF Inv

\* One update of batchMarkAsDone, written or not.
LEMMA MarkOneInv ==
    ASSUME Inv, NEW h \in handlers, NEW s0 \in h.ids, h.pc = "marking",
           \/ MarkAsDone(s0)
           \/ UNCHANGED <<subs, expired, handshakes, hsTimeouts, hsRegistry, started, confirmed>>,
           StepHandler(h, [h EXCEPT !.ids = @ \ {s0}]), FaultsGrow,
           UNCHANGED noteVars, UNCHANGED txUnchanged, UNCHANGED <<transactionStore, processed>>
    PROVE  Inv'
<1>1. /\ HandshakeInv /\ DeliveryInv /\ TxInv /\ TxTypeOK /\ SubTypeOK /\ NoteTypeOK
      /\ HandlersInv /\ HandlerInv(h) /\ CountInv /\ LocalInv
  BY DEF Inv, TxInv, HandshakeInv, HandlersInv, DeliveryInv
<1>2. h \in Handler /\ h.event \in Events /\ h.ids \subseteq Subs /\ s0 \in Subs
  BY <1>1, HandlerType
<1>3. UNCHANGED <<request, txStatus, currentId, txId, restarts, notes, expired, confirmed>>
  BY DEF txUnchanged, noteVars, MarkAsDone
<1>4. s0 \in confirmed /\ Created(s0)
  BY <1>1, <1>2 DEF HandlerInv, HandshakeInv, HandshakeLedger
<1>5. HandshakeInv' /\ DeliveryInv'
  <2>1. HandshakeInv'
    BY <1>1, <1>2, <1>4, MarkAsDoneInv, HandshakeKept DEF FaultsGrow
  <2> QED
    BY <1>1, <1>3, <2>1, NoNote DEF FaultsGrow
<1>6. PICK g \in Handler : /\ g.event = h.event /\ g.pc = "marking" /\ g.ids = h.ids \ {s0}
                           /\ handlers' = (handlers \ {h}) \cup {g}
  <2> DEFINE f == [h EXCEPT !.ids = @ \ {s0}]
  <2>1. f \in Handler /\ f.event = h.event /\ f.pc = h.pc /\ f.ids = h.ids \ {s0}
    BY <1>2 DEF Handler
  <2>2. handlers' = (handlers \ {h}) \cup {f}
    BY DEF StepHandler
  <2> HIDE DEF f
  <2> QED
    BY <2>1, <2>2
<1>7. ASSUME NEW s \in Subs
      PROVE  /\ subs'[s].scope = subs[s].scope /\ subs'[s].nextNonce = subs[s].nextNonce /\ subs[s].nextNonce \in Nat
             /\ s # s0 => subs'[s].status = subs[s].status
             /\ subs'[s0].status \in {"done", subs[s0].status}
  BY <1>1, <1>2 DEF MarkAsDone, SubTypeOK, Subscription
<1>8. \A n : Noted(n)' <=> Noted(n)
  BY <1>3 DEF Noted
<1>9. \A s : NotesOf(s)' = NotesOf(s)
  BY <1>8 DEF NotesOf
<1> DEFINE G == {g}
<1>10. HandlerMoves(h, G)
  <2>1. ASSUME NEW s \in Subs
        PROVE  /\ Created(s)' <=> Created(s)
               /\ subs'[s].scope = subs[s].scope
               /\ subs'[s].nextNonce \in Nat /\ subs[s].nextNonce <= subs'[s].nextNonce
               /\ restarts = 0 /\ subs'[s].status = "done" =>
                    \/ subs[s].status = "done"
                    \/ /\ s \notin transactionStore
                       /\ \E e \in processed : TxOf(e) = s /\ StatusOf(e) \in TerminalStatus
    <3>1. /\ subs'[s].scope = subs[s].scope /\ subs'[s].nextNonce \in Nat
          /\ subs[s].nextNonce <= subs'[s].nextNonce
      BY <1>7
    <3>2. CASE s # s0
      BY <1>7, <3>1, <3>2 DEF Created
    <3>3. CASE s = s0
      <4>1. Created(s)' <=> Created(s)
        BY <1>4, <1>7, <3>3 DEF Created
      <4>2. restarts = 0 => /\ s0 = TxOf(h.event) /\ h.event \in processed
                            /\ StatusOf(h.event) \in TerminalStatus /\ s0 \notin transactionStore
        BY <1>1 DEF HandlerInv
      <4> QED
        BY <3>1, <3>3, <4>1, <4>2
    <3> QED
      BY <3>2, <3>3
  <2>2. processed' \subseteq Events
    BY <1>1 DEF TxTypeOK
  <2> QED
    BY <1>3, <1>6, <1>8, <2>1, <2>2 DEF HandlerMoves
<1>11. HandlerInv(g)'
  <2>1. Happened(g.event)' /\ g.ids \subseteq confirmed'
    BY <1>1, <1>3, <1>6 DEF HandlerInv, Happened
  <2>2. restarts = 0 =>
          /\ request[TxOf(g.event)] \in Ran /\ (\A s \in g.ids : s = TxOf(g.event))
          /\ g.event \in processed /\ StatusOf(g.event) \in TerminalStatus /\ TxOf(g.event) \notin transactionStore
    BY <1>1, <1>6 DEF HandlerInv
  <2> QED
    BY <1>3, <1>6, <2>1, <2>2 DEF HandlerInv
<1>12. CountInv'
  <2>1. ASSUME NEW s \in Subs PROVE Owed(s)' = Owed(s)
    <3>1. ASSUME NEW n \in Notes
          PROVE  (\E k \in handlers' : k.event = EventOf(n) /\ k.pc = "creating" /\ s \in k.ids)
                   <=> \E k \in handlers : k.event = EventOf(n) /\ k.pc = "creating" /\ s \in k.ids
      BY <1>6
    <3> QED
      BY <1>9, <3>1 DEF Owed
  <2>2. faults' = 0 => faults = 0
    BY DEF FaultsGrow
  <2> QED
    BY <1>1, <1>3, <1>7, <2>1, <2>2 DEF CountInv
<1>13. LocalInv'
  <2>1. NoncesOrdered' <=> NoncesOrdered
    BY <1>3, <1>9 DEF NoncesOrdered, NoncesFollowStatus, NoncesUnique
  <2>2. Store = "local" => handlers' = {g} /\ txStatus[TxOf(g.event)] = StatusOf(g.event)
    BY <1>1, <1>6 DEF LocalInv
  <2> QED
    BY <1>1, <1>3, <1>6, <2>1, <2>2 DEF LocalInv
<1>14. /\ G \in SUBSET Handler /\ (\A k \in G : k.event = h.event /\ HandlerInv(k)') /\ (\A j, k \in G : j = k)
  BY <1>6, <1>11
<1> HIDE DEF G
<1>15. TxInv'
  BY <1>1, <1>10, <1>12, <1>13, <1>14, HandlerMovesInv
<1> QED
  BY <1>5, <1>15 DEF Inv

\* A query of a handler fails.
LEMMA HandlerFailsInv ==
    ASSUME Inv, NEW h \in handlers, HandlerFails(h)
    PROVE  Inv'
<1>1. SubTypeOK /\ TxTypeOK
  BY DEF Inv, TxInv, HandshakeInv
<1>2. UNCHANGED noteVars /\ UNCHANGED txUnchanged /\ UNCHANGED <<transactionStore, processed>> /\ Fault
  BY DEF HandlerFails
<1>3. FaultsGrow /\ faults' > 0 /\ processed' \subseteq Events
  BY <1>1, <1>2 DEF Fault, FaultsGrow, SubTypeOK, TxTypeOK
<1>4. CASE EndHandler(h) /\ UNCHANGED <<subs, expired, handshakes, hsTimeouts, hsRegistry, started, confirmed>>
  BY <1>2, <1>3, <1>4, HandlerEnds
<1>5. CASE h.pc = "bumping" /\ EndHandler(h) /\ IncrementNonces(h.ids)
  BY <1>2, <1>5, BumpNoncesInv
<1>6. ASSUME h.pc = "marking", NEW s \in h.ids, StepHandler(h, [h EXCEPT !.ids = @ \ {s}]),
             \/ MarkAsDone(s)
             \/ UNCHANGED <<subs, expired, handshakes, hsTimeouts, hsRegistry, started, confirmed>>
      PROVE  Inv'
  BY <1>2, <1>3, <1>6, MarkOneInv
<1> QED
  BY <1>4, <1>5, <1>6 DEF HandlerFails

LEMMA HandlingInv ==
    ASSUME Inv, NEW h \in handlers, Handling(h)
    PROVE  Inv'
<1>1. SubTypeOK
  BY DEF Inv, HandshakeInv
<1>2. CASE BumpNonces(h)
  BY <1>2, BumpNoncesInv DEF BumpNonces
<1>3. ASSUME NEW s \in h.ids, MarkOne(h, s) PROVE Inv'
  <2>1. FaultsGrow
    BY <1>1, <1>3 DEF MarkOne, FaultsGrow, SubTypeOK
  <2> QED
    BY <1>3, <2>1, MarkOneInv DEF MarkOne
<1> QED
  BY <1>2, <1>3, FindAffectedInv, CreateOneInv, CreatedAllInv, MarkProcessedInv, FindEndingInv, MarkedAllInv,
     HandlerFailsInv DEF Handling, HandlerStep

---------------------------------------------------------------------------
(* The chain, and restarts.                                                *)

LEMMA StepsGoUp ==
    ASSUME NEW step \in StatusSteps
    PROVE  /\ step[1] \in TransactionStatus /\ step[2] \in TransactionStatus \ {"Idle"}
           /\ Rank(step[1]) < Rank(step[2])
<1>1. step \in SdkSteps
  BY WebhooksAssumption
<1> QED
  BY <1>1 DEF SdkSteps, TransactionStatus, Rank

\* A status is reported once, so the event of a change is a new one.
LEMMA StatusChangeInv ==
    ASSUME Inv, NEW s0 \in Subs, StatusChange(s0)
    PROVE  Inv'
<1>1. /\ HandshakeInv /\ DeliveryInv /\ TxInv /\ TxTypeOK /\ SubTypeOK
      /\ ScopeInv /\ NotesInv /\ HandlersInv /\ CountInv /\ DoneOnlyAfterTerminal /\ LocalInv
  BY DEF Inv, TxInv, HandshakeInv
<1>2. PICK step \in StatusSteps :
        /\ txStatus[s0] = step[1] /\ txStatus' = [txStatus EXCEPT ![s0] = step[2]]
        /\ \/ handlers' = handlers
           \/ handlers' = handlers \cup {NewHandler(<<s0, step[2]>>)}
  BY DEF StatusChange
<1> DEFINE e == <<s0, step[2]>>
           new == NewHandler(e)
<1>3. e \in Events /\ TxOf(e) = s0 /\ StatusOf(e) = step[2]
  BY WebhooksAssumption DEF TxOf, StatusOf
<1>4. /\ new \in Handler /\ new.event = e /\ new.pc = "finding" /\ new.ids = {}
  BY <1>3 DEF NewHandler, Handler
<1>5. /\ request[s0] \in Ran /\ UNCHANGED subVars /\ UNCHANGED noteVars
      /\ UNCHANGED <<request, currentId, txId, transactionStore, processed, restarts>>
  BY DEF StatusChange, Ran
<1>6. handlers' = handlers \/ handlers' = handlers \cup {new}
  BY <1>2
<1> HIDE DEF new, e
<1>7. UNCHANGED <<subs, expired, handshakes, hsTimeouts, hsRegistry, started, confirmed, notes>> /\ FaultsGrow
  BY <1>1, <1>5 DEF subVars, noteVars, FaultsGrow, SubTypeOK
<1>8. HandshakeInv' /\ DeliveryInv'
  BY <1>1, <1>5, <1>7, HandshakeKept, NoNote DEF FaultsGrow
<1>9. /\ txStatus' \in [Subs -> TransactionStatus] /\ txStatus'[s0] = step[2]
      /\ \A s \in Subs \ {s0} : txStatus'[s] = txStatus[s]
  BY <1>1, <1>2, StepsGoUp DEF TxTypeOK
<1>10. TxTypeOK'
  <2>1. handlers' \subseteq Handler
    BY <1>1, <1>4, <1>6 DEF TxTypeOK
  <2> QED
    BY <1>1, <1>5, <1>9, <2>1 DEF TxTypeOK
<1>11. \A n : (Noted(n)' <=> Noted(n)) /\ \A s : (Created(s)' <=> Created(s))
  BY <1>7 DEF Noted, Created
<1>12. ScopeInv'
  <2>1. \A s \in Subs : request[s] \notin Ran => txStatus'[s] = txStatus[s]
    BY <1>5, <1>9
  <2> QED
    BY <1>1, <1>5, <1>7, <1>11, <2>1 DEF ScopeInv
<1>13. Rank(step[1]) < Rank(step[2]) /\ \A a : Rank(a) \in 0..3
  BY StepsGoUp DEF Rank
<1>14. \A f : TxOf(f) \in Subs /\ Happened(f) => Happened(f)'
  <2>1. \A s \in Subs : Rank(txStatus[s]) <= Rank(txStatus'[s])
    BY <1>2, <1>9, <1>13
  <2>2. \A f : Rank(StatusOf(f)) \in 0..3
    BY <1>13
  <2>3. \A s \in Subs : Rank(txStatus[s]) \in 0..3 /\ Rank(txStatus'[s]) \in 0..3
    BY <1>13
  <2> QED
    BY <2>1, <2>2, <2>3 DEF Happened
<1>15. Happened(e)' /\ ~Happened(e)
  BY <1>2, <1>3, <1>9, <1>13 DEF Happened
<1>16. NotesInv'
  <2>1. ASSUME NEW n \in Notes, Noted(n) PROVE Happened(EventOf(n))'
    BY <1>1, <1>14, <2>1, NoteParts DEF NotesInv
  <2> QED
    BY <1>1, <1>5, <1>7, <1>11, <2>1 DEF NotesInv
<1>17. ASSUME NEW k \in handlers PROVE HandlerInv(k)' /\ k.event # e
  <2>1. HandlerInv(k) /\ TxOf(k.event) \in Subs
    BY <1>1, HandlerType DEF HandlersInv
  <2>2. Happened(k.event) /\ Happened(k.event)'
    BY <1>14, <2>1 DEF HandlerInv
  <2> QED
    BY <1>5, <1>7, <1>11, <1>15, <2>1, <2>2 DEF HandlerInv
<1>18. HandlerInv(new)'
  <2>1. ASSUME NEW s \in Subs PROVE ~Noted(<<e, s>>)'
    <3>1. <<e, s>> \in Notes /\ EventOf(<<e, s>>) = e
      BY <1>3 DEF Notes, EventOf
    <3> QED
      BY <1>1, <1>11, <1>15, <3>1 DEF NotesInv
  <2> QED
    BY <1>3, <1>4, <1>5, <1>15, <2>1 DEF HandlerInv
<1>19. HandlersInv'
  <2>1. \A k \in handlers' : k \in handlers \/ k = new
    BY <1>6
  <2>2. \A k \in handlers' : HandlerInv(k)'
    BY <1>17, <1>18, <2>1
  <2>3. \A j, k \in handlers' : j.event = k.event => j = k
    BY <1>1, <1>4, <1>17, <2>1 DEF HandlersInv
  <2> QED
    BY <2>2, <2>3 DEF HandlersInv
<1>20. \A s : NotesOf(s)' = NotesOf(s)
  BY <1>11 DEF NotesOf
<1>21. CountInv'
  <2>1. ASSUME NEW s \in Subs PROVE Owed(s)' = Owed(s)
    <3>1. ASSUME NEW n \in Notes
          PROVE  (\E k \in handlers' : k.event = EventOf(n) /\ k.pc = "creating" /\ s \in k.ids)
                   <=> \E k \in handlers : k.event = EventOf(n) /\ k.pc = "creating" /\ s \in k.ids
      BY <1>4, <1>6
    <3> QED
      BY <1>20, <3>1 DEF Owed
  <2>2. faults' = 0 => faults = 0
    BY <1>7 DEF FaultsGrow
  <2> QED
    BY <1>1, <1>5, <1>7, <2>1, <2>2 DEF CountInv
<1>22. DoneOnlyAfterTerminal'
  BY <1>1, <1>5, <1>7 DEF DoneOnlyAfterTerminal
<1>23. LocalInv'
  <2>1. NoncesOrdered' <=> NoncesOrdered
    BY <1>7, <1>20 DEF NoncesOrdered, NoncesFollowStatus, NoncesUnique
  <2>2. Store = "local" => handlers = {}
    BY DEF StatusChange, EventLoopFree
  <2>3. Store = "local" => \A k \in handlers' : k = new
    BY <1>6, <2>2
  <2>4. txStatus'[TxOf(new.event)] = StatusOf(new.event) /\ new.pc # "bumping" /\ new.pc # "creating"
    BY <1>3, <1>4, <1>9
  <2> QED
    BY <1>1, <1>5, <2>1, <2>3, <2>4 DEF LocalInv
<1>24. TxInv'
  BY <1>10, <1>12, <1>16, <1>19, <1>21, <1>22, <1>23 DEF TxInv
<1> QED
  BY <1>8, <1>24 DEF Inv

\* The process starts again on the same rows.
LEMMA RestartInv ==
    ASSUME Inv, Restart
    PROVE  Inv'
<1>1. /\ HandshakeInv /\ DeliveryInv /\ TxInv /\ TxTypeOK /\ SubTypeOK /\ ScopeInv /\ NotesInv
  BY DEF Inv, TxInv, HandshakeInv
<1>2. UNCHANGED <<subs, expired, started, confirmed, faults, notes, sent, acked, txStatus, txId>>
  BY DEF Restart
<1>3. /\ restarts' = restarts + 1 /\ handshakes' = {} /\ deliveries' = {} /\ handlers' = {}
      /\ transactionStore' = {} /\ processed' = {} /\ currentId' = 0 /\ Store # "local"
      /\ hsTimeouts' = [s \in Subs |-> 0] /\ hsRegistry' = {}
  BY DEF Restart, HS!ScheduleLost
<1>4. HandshakeInv'
  <2>1. SubTypeOK' /\ HandshakeSingleFlight'
    BY <1>1, <1>2, <1>3 DEF SubTypeOK, HandshakeSingleFlight
  <2>2. \A s \in Subs : (Created(s)' <=> Created(s)) /\ ~Pending(s)'
    BY <1>2, <1>3 DEF Created, Pending
  <2>3. HandshakeLedger'
    BY <1>1, <1>2, <1>3, <2>2 DEF HandshakeInv, HandshakeLedger
  <2>4. HandshakeBudget' /\ ActiveOnlyIfConfirmed' /\ PendingIsInactive'
    BY <1>1, <1>2, <2>2 DEF HandshakeInv, HandshakeBudget, ActiveOnlyIfConfirmed, PendingIsInactive
  <2> QED
    BY <2>1, <2>3, <2>4 DEF HandshakeInv
<1>5. DeliveryInv'
  BY <1>1, <1>2, <1>3, DeliveriesLost DEF Restart
<1>6. request' \in [Subs -> RequestState] /\ restarts' \in Nat /\ restarts' # 0
  BY <1>1, <1>3 DEF Restart, TxTypeOK, RequestState
<1>7. TxTypeOK'
  BY <1>1, <1>2, <1>3, <1>6 DEF TxTypeOK
<1>8. ScopeInv'
  <2>1. {s \in Subs : request'[s] # "new"} \subseteq Subs
    OBVIOUS
  <2>2. Cardinality({s \in Subs : request'[s] # "new"}) \in Nat
    BY <2>1, WebhooksAssumption, FS_Subset, FS_CardinalityType
  <2>3. \A s \in Subs : txId'[s] \in Scopes
    BY <1>1, <1>2 DEF ScopeInv
  <2>4. 0 <= Cardinality({s \in Subs : request'[s] # "new"})
    BY <2>2
  <2> QED
    BY <1>3, <1>6, <2>3, <2>4 DEF ScopeInv
<1>9. NotesInv'
  <2>1. \A n : (Noted(n)' <=> Noted(n)) /\ (Happened(EventOf(n))' <=> Happened(EventOf(n)))
    BY <1>2 DEF Noted, Happened
  <2> QED
    BY <1>1, <1>2, <1>6, <2>1 DEF NotesInv
<1>10. HandlersInv' /\ CountInv' /\ DoneOnlyAfterTerminal' /\ LocalInv'
  BY <1>3, <1>6 DEF HandlersInv, CountInv, DoneOnlyAfterTerminal, LocalInv
<1>11. TxInv'
  BY <1>7, <1>8, <1>9, <1>10 DEF TxInv
<1> QED
  BY <1>4, <1>5, <1>11 DEF Inv

LEMMA InvInit == Init => Inv
<1> SUFFICES ASSUME Init PROVE Inv
  OBVIOUS
<1>1. HandshakeInv /\ DeliveryInv
  BY HandshakeInvInit, DeliveryInvInit DEF Init
<1>2. /\ request = [s \in Subs |-> "new"] /\ txStatus = [s \in Subs |-> "Idle"] /\ currentId = 0
      /\ txId = [s \in Subs |-> 0] /\ transactionStore = {} /\ handlers = {} /\ processed = {} /\ restarts = 0
  BY DEF Init, TxInit
<1>3. \A s \in Subs : ~Created(s) /\ subs[s].status = "none"
  BY DEF Init, SubInit, Created
<1>4. \A n \in Notes : ~Noted(n)
  BY DEF Init, NoteInit, Noted
<1>5. TxTypeOK
  BY <1>2 DEF TxTypeOK, RequestState, TransactionStatus
<1>6. ScopeInv
  <2>1. {s \in Subs : request[s] # "new"} = {}
    BY <1>2
  <2>2. currentId <= Cardinality({s \in Subs : request[s] # "new"})
    BY <1>2, <2>1, FS_EmptySet
  <2> QED
    BY <1>2, <1>3, <2>2, ScopesAssumption DEF ScopeInv, Ran
<1>7. NotesInv /\ HandlersInv /\ DoneOnlyAfterTerminal
  BY <1>2, <1>3, <1>4 DEF NotesInv, HandlersInv, DoneOnlyAfterTerminal
<1>8. CountInv
  BY <1>2 DEF CountInv, Ran
<1>9. LocalInv
  BY <1>2, <1>4 DEF LocalInv, NoncesOrdered, NoncesFollowStatus, NoncesUnique, NotesOf
<1> QED
  BY <1>1, <1>5, <1>6, <1>7, <1>8, <1>9 DEF Inv, TxInv

LEMMA InvStutters ==
    ASSUME Inv, UNCHANGED vars
    PROVE  Inv'
<1>1. HandshakeInv /\ DeliveryInv /\ TxInv /\ SubTypeOK
  BY DEF Inv, HandshakeInv
<1>2. UNCHANGED subVars /\ UNCHANGED noteVars /\ UNCHANGED txVars
  BY DEF vars
<1>3. UNCHANGED <<subs, expired, handshakes, hsTimeouts, hsRegistry, started, confirmed>> /\ FaultsGrow
  BY <1>1, <1>2 DEF subVars, FaultsGrow, SubTypeOK
<1>4. HandshakeInv' /\ SubsSame /\ DeliveryInv' /\ confirmed \subseteq confirmed'
  BY <1>1, <1>2, <1>3, HandshakeKept, NoNote DEF FaultsGrow
<1>5. NotesSame
  BY <1>2 DEF NotesSame, noteVars, Noted
<1> QED
  BY <1>1, <1>2, <1>3, <1>4, <1>5, LowerInv DEF Inv

LEMMA InvNext == Inv /\ [Next]_vars => Inv'
<1> SUFFICES ASSUME Inv, [Next]_vars PROVE Inv'
  OBVIOUS
<1>1. CASE UNCHANGED vars
  BY <1>1, InvStutters
<1>2. ASSUME NEW s \in Subs,
             \/ AddListener(s) \/ Submission(s) \/ SubmissionFails(s) \/ StatusChange(s)
             \/ Subscribing(s) \/ TimePasses(s)
      PROVE  Inv'
  BY <1>2, AddListenerInv, SubscribeInv, StartNonceAtOneInv, RespondInv, StatusChangeInv, SubscribingInv
     DEF Submission, SubmissionFails
<1>3. CASE NotifyingFails
  <2>1. PICK d \in deliveries : DeliveryFault(d)
    BY <1>3 DEF NotifyingFails
  <2>2. d.note \in Notes
    BY DeliveryType DEF Inv, DeliveryInv
  <2> QED
    BY <1>3, <2>2, NotifyingInv
<1> QED
  BY <1>1, <1>2, <1>3, SubscribingFailsInv, NotifyingInv, HandlingInv, RestartInv DEF Next

\* The invariant holds in every state of the webhook path.
LEMMA AlwaysInv == Spec => []Inv
BY InvInit, InvNext, PTL DEF Spec

---------------------------------------------------------------------------
(* Results.                                                                *)

\* Every row, task, timer, handler and counter keeps its type, whatever the
\* receivers, the chain, the database and restarts do.
THEOREM TypeOKHolds == Spec => []TypeOK
<1>1. Inv => TypeOK
  BY DEF Inv, HandshakeInv, DeliveryInv, TxInv, TypeOK
<1> QED
  BY <1>1, AlwaysInv, PTL

\* The handshake of a subscription is never in progress twice, in the whole
\* system too, where restarts drop the timers (scheduleSendHandshake).
THEOREM WebhookHandshakesSingle == Spec => [](HandshakeSingleFlight /\ HandshakeBudget /\ ActiveOnlyIfConfirmed)
<1>1. Inv => HandshakeSingleFlight /\ HandshakeBudget /\ ActiveOnlyIfConfirmed
  BY DEF Inv, HandshakeInv
<1> QED
  BY <1>1, AlwaysInv, PTL

\* A notification never has two timers or tasks, and addTimeout never meets a
\* registered id (scheduleSendNotification, wrapCallback).
THEOREM DeliverySingleFlightHolds == Spec => []DeliverySingleFlight
<1>1. Inv => DeliverySingleFlight
  <2> SUFFICES ASSUME Inv PROVE DeliverySingleFlight
    OBVIOUS
  <2>1. DeliveryInv /\ NoteTypeOK
    BY DEF Inv, DeliveryInv
  <2>2. ASSUME NEW d \in deliveries PROVE d.note \in Notes /\ d \in TasksOf(d.note) /\ NoteInv(d.note)
    BY <2>1, DeliveryType DEF TasksOf, DeliveryInv
  <2>3. \A d, e \in deliveries : d.note = e.note => d = e
    BY <2>2 DEF NoteInv
  <2>4. \A d \in deliveries : nTimeouts[d.note] = 0
    BY <2>2 DEF NoteInv
  <2>5. \A n \in Notes : nTimeouts[n] = (IF n \in nRegistry THEN 1 ELSE 0)
    BY <2>1 DEF DeliveryInv, NoteInv
  <2> QED
    BY <2>3, <2>4, <2>5 DEF DeliverySingleFlight
<1> QED
  BY <1>1, AlwaysInv, PTL

\* A receiver is sent a notification at most as often as its row was given tries,
\* for any number of failing calls and restarts; without failures Failed means
\* that every try was used and none accepted (sendNotification, retry).
THEOREM DeliveryBudgetHolds == Spec => []DeliveryBudget
<1>1. Inv => DeliveryBudget
  BY DEF Inv, DeliveryInv, NoteInv, DeliveryBudget
<1> QED
  BY <1>1, AlwaysInv, PTL

\* Acknowledged means the URL answered 200 and Orphaned that the subscription had
\* expired; without failures nothing is left that could overwrite a final status
\* (handleWebhookResponse, sendNotification).
THEOREM FinalStatusIsTrueHolds == Spec => []FinalStatusIsTrue
<1>1. Inv => FinalStatusIsTrue
  <2> SUFFICES ASSUME Inv, NEW n \in Notes
               PROVE  /\ notes[n].status = "acknowledged" => n \in acked
                      /\ notes[n].status = "orphaned" => SubOf(n) \in expired
                      /\ faults = 0 /\ notes[n].status \in {"acknowledged", "orphaned", "failed"} =>
                           nTimeouts[n] = 0 /\ \A d \in deliveries : d.note # n
    BY DEF FinalStatusIsTrue
  <2>1. NoteInv(n) /\ nTimeouts[n] \in Nat
    BY NoteType DEF Inv, DeliveryInv
  <2>2. ASSUME faults = 0, notes[n].status \in {"acknowledged", "orphaned", "failed"}
        PROVE  nTimeouts[n] = 0 /\ \A d \in deliveries : d.note # n
    <3>1. ~Delivering(n)
      BY <2>1, <2>2 DEF NoteInv
    <3> QED
      BY <2>1, <3>1 DEF Delivering, TasksOf
  <2> QED
    BY <2>1, <2>2 DEF NoteInv
<1> QED
  BY <1>1, AlwaysInv, PTL

\* Only a URL that returned the handshake secret is ever sent a notification,
\* across races, failures and restarts (createEventNotifications).
THEOREM NotifiedOnlyIfConfirmedHolds == Spec => []NotifiedOnlyIfConfirmed
<1>1. Inv => NotifiedOnlyIfConfirmed
  BY DEF Inv, TxInv, NotesInv, NotifiedOnlyIfConfirmed, NotesOf
<1> QED
  BY <1>1, AlwaysInv, PTL

\* In one process a notification carries a nonce that was handed out, and without
\* failures every nonce below nextNonce went out: 0 with the response, the others
\* with one notification each (createEventNotifications, submitAndSubscribe).
THEOREM NoncesAccountedForHolds == Spec => []NoncesAccountedFor
<1>1. Inv => NoncesAccountedFor
  <2> SUFFICES ASSUME Inv, restarts = 0, NEW s \in Subs
               PROVE  /\ \A n \in NotesOf(s) : notes[n].nonce \in 1..(subs[s].nextNonce - 1)
                      /\ faults = 0 /\ handlers = {} /\ request[s] \in {"running", "responded"} =>
                           Cardinality(NotesOf(s)) = subs[s].nextNonce - 1
    BY DEF NoncesAccountedFor
  <2>1. NotesInv /\ CountInv /\ NoteTypeOK /\ SubTypeOK
    BY DEF Inv, TxInv, DeliveryInv, HandshakeInv
  <2>2. ASSUME NEW n \in NotesOf(s) PROVE notes[n].nonce \in 1..(subs[s].nextNonce - 1)
    <3>1. n \in Notes /\ Noted(n) /\ SubOf(n) = s
      BY DEF NotesOf
    <3>2. 1 <= notes[n].nonce /\ notes[n].nonce < subs[s].nextNonce
      BY <2>1, <3>1 DEF NotesInv
    <3>3. notes[n].nonce \in Nat /\ subs[s].nextNonce \in Nat
      BY <2>1, <3>1, NoteType DEF SubTypeOK, Subscription
    <3> QED
      BY <3>2, <3>3
  <2>3. ASSUME faults = 0, handlers = {}, request[s] \in {"running", "responded"}
        PROVE  Cardinality(NotesOf(s)) = subs[s].nextNonce - 1
    <3>1. Owed(s) = NotesOf(s)
      BY <2>3 DEF Owed
    <3> QED
      BY <2>1, <2>3, <3>1 DEF CountInv, Ran
  <2> QED
    BY <2>2, <2>3
<1> QED
  BY <1>1, AlwaysInv, PTL

\* In one process a subscription is finished only by the end of its own
\* transaction: the listener is gone and the event was processed (markSubsAsDone).
THEOREM DoneOnlyAfterTerminalHolds == Spec => []DoneOnlyAfterTerminal
<1>1. Inv => DoneOnlyAfterTerminal
  BY DEF Inv, TxInv
<1> QED
  BY <1>1, AlwaysInv, PTL

\* With the local store, whose promises are resolved before the event loop goes
\* on, nonces follow the order of the statuses they report.
THEOREM NoncesFollowStatusHolds ==
    ASSUME Store = "local"
    PROVE  Spec => []NoncesFollowStatus
<1>1. Inv => NoncesFollowStatus
  BY DEF Inv, TxInv, LocalInv, NoncesOrdered
<1> QED
  BY <1>1, AlwaysInv, PTL

\* With the local store no two notifications of a subscription share a nonce: the
\* race that hands one out twice needs handlers that wait for a database
\* (createEventNotifications).
THEOREM NoncesUniqueLocally ==
    ASSUME Store = "local"
    PROVE  Spec => []NoncesUnique
<1>1. Inv => NoncesUnique
  BY DEF Inv, TxInv, LocalInv, NoncesOrdered
<1> QED
  BY <1>1, AlwaysInv, PTL

\* Within one process a subscription is only notified of its own transaction: two
\* transactions share a scope only when the id counter started again
\* (TransactionsService.currentId).
THEOREM ScopesIsolateInOneProcess == Spec => [](restarts = 0 => ScopesIsolateTransactions)
<1>1. Inv => (restarts = 0 => ScopesIsolateTransactions)
  BY DEF Inv, TxInv, NotesInv, ScopesIsolateTransactions, NotesOf
<1> QED
  BY <1>1, AlwaysInv, PTL

---------------------------------------------------------------------------
(* Statuses of subscriptions, seen from the whole system.                  *)

\* A step that leaves the status and the tries of the rows alone.
LEMMA RowsStay ==
    ASSUME SubTypeOK, NEW s \in Subs, subs'[s].status = subs[s].status, subs'[s].triesLeft = subs[s].triesLeft
    PROVE  Forward(s)
<1>1. subs[s].triesLeft \in Nat
  BY DEF SubTypeOK, Subscription
<1> QED
  BY <1>1 DEF Forward

\* Without failures a subscription that a handler has found is still Active, or Done.
LEMMA FoundStays ==
    ASSUME Inv, faults = 0, NEW h \in handlers, NEW s \in h.ids
    PROVE  s \in Subs /\ subs[s].status \in {"active", "done"}
<1>1. s \in Subs
  BY HandlerType DEF Inv, TxInv
<1>2. s \in confirmed
  BY DEF Inv, TxInv, HandlersInv, HandlerInv
<1> QED
  BY <1>1, <1>2 DEF Inv, HandshakeInv, ActiveOnlyIfConfirmed

\* Steps of the submissions.
LEMMA SubmissionForward ==
    ASSUME Inv, faults' = 0, NEW s \in Subs, NEW r \in Subs,
           AddListener(r) \/ Submission(r) \/ SubmissionFails(r) \/ StatusChange(r)
    PROVE  Forward(s)
<1>1. HandshakeInv /\ SubTypeOK /\ faults \in Nat
  BY DEF Inv, HandshakeInv, SubTypeOK
<1>2. ~Fault
  BY <1>1 DEF Fault
<1>3. CASE AddListener(r) \/ Respond(r) \/ StatusChange(r)
  <2>1. UNCHANGED subs
    BY <1>3 DEF AddListener, Respond, StatusChange, subVars
  <2> QED
    BY <1>1, <2>1, RowsStay
<1>4. CASE Subscribe(r)
  <2>1. txId[r] \in Scopes /\ CreateSubscription(r, txId[r])
    BY <1>4 DEF Subscribe, Inv, TxInv, ScopeInv
  <2>2. SubNext
    BY <2>1 DEF SubNext, Environment
  <2> QED
    BY <1>1, <2>2, HandshakeForward
<1>5. CASE StartNonceAtOne(r)
  <2>1. subs' = [subs EXCEPT ![r].nextNonce = 1]
    BY <1>5 DEF StartNonceAtOne, UpdateNextNonce
  <2>2. subs'[s].status = subs[s].status /\ subs'[s].triesLeft = subs[s].triesLeft
    BY <1>1, <2>1 DEF SubTypeOK, Subscription
  <2> QED
    BY <1>1, <2>2, RowsStay
<1>6. ~SubmissionFails(r)
  BY <1>2 DEF SubmissionFails, SubscribeFails, CreateSubscriptionFails, StartNonceAtOneFails
<1> QED
  BY <1>3, <1>4, <1>5, <1>6 DEF Submission

\* Steps of a status handler.
LEMMA HandlingForward ==
    ASSUME Inv, faults' = 0, NEW s \in Subs, NEW h \in handlers, Handling(h)
    PROVE  Forward(s)
<1>1. SubTypeOK /\ faults \in Nat
  BY DEF Inv, HandshakeInv, SubTypeOK
<1>2. ~Fault
  BY <1>1 DEF Fault
<1>3. ~HandlerFails(h) /\ \A r \in h.ids : ~CreateOneFails(h, r)
  BY <1>2 DEF HandlerFails, CreateOneFails
<1>4. CASE \/ FindAffected(h) \/ CreatedAll(h) \/ MarkProcessed(h) \/ FindEnding(h) \/ MarkedAll(h)
           \/ \E r \in h.ids : CreateOne(h, r)
  <2>1. UNCHANGED subs
    BY <1>4 DEF FindAffected, CreatedAll, MarkProcessed, FindEnding, MarkedAll, CreateOne, subVars
  <2> QED
    BY <1>1, <2>1, RowsStay
<1>5. CASE BumpNonces(h)
  <2>1. subs'[s] = IF s \in h.ids THEN [subs[s] EXCEPT !.nextNonce = @ + 1] ELSE subs[s]
    BY <1>5 DEF BumpNonces, IncrementNonces
  <2>2. subs'[s].status = subs[s].status /\ subs'[s].triesLeft = subs[s].triesLeft
    BY <1>1, <2>1 DEF SubTypeOK, Subscription
  <2> QED
    BY <1>1, <2>2, RowsStay
<1>6. ASSUME NEW r \in h.ids, MarkOne(h, r) PROVE Forward(s)
  <2>1. subs' = [subs EXCEPT ![r].status = "done"] /\ faults = 0
    BY <1>6 DEF MarkOne, MarkAsDone
  <2>2. r \in Subs /\ subs[r].status \in {"active", "done"}
    BY <2>1, FoundStays
  <2>3. subs'[s].triesLeft = subs[s].triesLeft /\ subs[s].triesLeft \in Nat
    BY <1>1, <2>1, <2>2 DEF SubTypeOK, Subscription
  <2>4. subs'[s].status = IF s = r THEN "done" ELSE subs[s].status
    BY <1>1, <2>1, <2>2 DEF SubTypeOK, Subscription
  <2> QED
    BY <2>2, <2>3, <2>4 DEF Forward
<1> QED
  BY <1>3, <1>4, <1>5, <1>6 DEF Handling, HandlerStep

\* Every step of the system.
LEMMA WebhookForward ==
    ASSUME Inv, Next, faults' = 0, NEW s \in Subs
    PROVE  Forward(s)
<1>1. HandshakeInv /\ SubTypeOK
  BY DEF Inv, HandshakeInv
<1>2. ASSUME NEW r \in Subs, Subscribing(r) \/ TimePasses(r) PROVE Forward(s)
  <2>1. SubNext
    BY <1>2 DEF Subscribing, TimePasses, SubNext, Environment
  <2> QED
    BY <1>1, <2>1, HandshakeForward
<1>3. CASE SubscribingFails
  <2>1. SubNext
    BY <1>3 DEF SubscribingFails, SubNext
  <2> QED
    BY <1>1, <2>1, HandshakeForward
<1>4. ASSUME UNCHANGED subs PROVE Forward(s)
  BY <1>1, <1>4, RowsStay
<1>5. ASSUME NEW n \in Notes, Notifying(n) PROVE Forward(s)
  <2>1. UNCHANGED subs
    BY <1>5 DEF Notifying, NotificationTimeout, DeliveryStep, SendNotification, WebhookOk, WebhookNotOk,
       RetryNotification, subVars
  <2> QED
    BY <1>4, <2>1
<1>6. CASE NotifyingFails
  <2>1. PICK d \in deliveries : DeliveryFault(d)
    BY <1>6 DEF NotifyingFails
  <2>2. Fault
    BY <2>1 DEF DeliveryFault, SendNotificationFails, WebhookOkFails, RetryNotificationFails
  <2> QED
    BY <1>1, <2>2 DEF Fault, SubTypeOK
<1>7. CASE Restart
  BY <1>4, <1>7 DEF Restart
<1> QED
  BY <1>2, <1>3, <1>5, <1>6, <1>7, SubmissionForward, HandlingForward DEF Next

\* In the whole system too, as long as repository calls succeed, a subscription only
\* moves forward: no handler that found it Active before it waited for the database
\* revives it, finishes it before its handshake or gives tries back, and neither does
\* a restart (markSubsAsDone, updateSubscription callers).
THEOREM WebhookStatusMovesForward == Spec => StatusMovesForward
<1>1. Inv /\ [Next]_vars => [\A s \in Subs : faults' = 0 => Forward(s)]_subVars
  BY WebhookForward DEF vars
<1> QED
  BY <1>1, AlwaysInv, PTL DEF Spec, StatusMovesForward

---------------------------------------------------------------------------
(* The deliveries implement Retries.  As for handshakes, a step follows    *)
(* the phase and the verdict of one notification, except for a restart.    *)

NotePhaseGoes(n, from, to) ==
    /\ DeliveryPhase(n) = from
    /\ DeliveryPhase(n)' = to
    /\ \A m \in Notes \ {n} : DeliveryPhase(m)' = DeliveryPhase(m)

NoteVerdictOnly(n) == \A m \in Notes \ {n} : DeliveryVerdict(m)' = DeliveryVerdict(m)

SameNotePhases == \A m \in Notes : DeliveryPhase(m)' = DeliveryPhase(m)
SameNoteVerdicts == \A m \in Notes : DeliveryVerdict(m)' = DeliveryVerdict(m)

LEMMA NotePhaseGoesChain ==
    ASSUME NEW n \in Notes, NEW from, NEW to, NotePhaseGoes(n, from, to)
    PROVE  DeliveryChain!Goes(n, from, to)
BY DEF NotePhaseGoes, DeliveryChain!Goes

LEMMA SameNoteVerdictsChain ==
    ASSUME SameNoteVerdicts
    PROVE  [n \in Notes |-> DeliveryVerdict(n)]' = [n \in Notes |-> DeliveryVerdict(n)]
BY DEF SameNoteVerdicts

LEMMA SameNotePhasesChain ==
    ASSUME SameNotePhases
    PROVE  [n \in Notes |-> DeliveryPhase(n)]' = [n \in Notes |-> DeliveryPhase(n)]
BY DEF SameNotePhases

LEMMA NoteVerdictOnlyChain ==
    ASSUME NEW n \in Notes, NEW v, NoteVerdictOnly(n), DeliveryVerdict(n)' = v
    PROVE  DeliveryChain!Records(n, v)
BY DEF NoteVerdictOnly, DeliveryChain!Records

\* The ways in which a step is one of Retries.
LEMMA SchedulesANote ==
    ASSUME NEW n \in Notes, NotePhaseGoes(n, "none", "waiting"), UNCHANGED sent, SameNoteVerdicts
    PROVE  DeliveryMoves
BY NotePhaseGoesChain, SameNoteVerdictsChain
   DEF DeliveryMoves, DeliveryChain!Next, DeliveryChain!Schedule

LEMMA TriesANote ==
    ASSUME NEW n \in Notes, NotePhaseGoes(n, "waiting", "trying"), SameNoteVerdicts,
           sent' = [sent EXCEPT ![n] = @ + 1]
    PROVE  DeliveryMoves
BY NotePhaseGoesChain, SameNoteVerdictsChain
   DEF DeliveryMoves, DeliveryChain!Next, DeliveryChain!Try

LEMMA RetriesANote ==
    ASSUME NEW n \in Notes, NotePhaseGoes(n, "trying", "waiting"), UNCHANGED sent, SameNoteVerdicts,
           sent[n] < InitialTries
    PROVE  DeliveryMoves
BY NotePhaseGoesChain, SameNoteVerdictsChain
   DEF DeliveryMoves, DeliveryChain!Next, DeliveryChain!Retry

LEMMA EndsANote ==
    ASSUME NEW n \in Notes, NotePhaseGoes(n, "trying", "over"), UNCHANGED sent, NoteVerdictOnly(n),
           \/ DeliveryVerdict(n)' = "succeeded"
           \/ DeliveryVerdict(n)' = "exhausted" /\ sent[n] = InitialTries
           \/ DeliveryVerdict(n)' = "dropped"
    PROVE  DeliveryMoves
<1>1. DeliveryChain!End(n)
  BY NotePhaseGoesChain DEF DeliveryChain!End
<1>2. CASE DeliveryVerdict(n)' = "succeeded"
  <2>1. DeliveryChain!Records(n, "succeeded")
    BY <1>2, NoteVerdictOnlyChain
  <2> QED
    BY <1>1, <2>1 DEF DeliveryMoves, DeliveryChain!Next, DeliveryChain!Decide
<1>3. CASE DeliveryVerdict(n)' = "exhausted" /\ sent[n] = InitialTries
  <2>1. DeliveryChain!Records(n, "exhausted")
    BY <1>3, NoteVerdictOnlyChain
  <2> QED
    BY <1>1, <1>3, <2>1 DEF DeliveryMoves, DeliveryChain!Next, DeliveryChain!Decide
<1>4. CASE DeliveryVerdict(n)' = "dropped"
  <2>1. DeliveryChain!Records(n, "dropped")
    BY <1>4, NoteVerdictOnlyChain
  <2> QED
    BY <1>1, <2>1 DEF DeliveryMoves, DeliveryChain!Next, DeliveryChain!Decide
<1> QED
  BY <1>2, <1>3, <1>4

LEMMA NoteMovesAfterFault ==
    ASSUME faults' > 0, UNCHANGED sent, NEW n \in Notes,
           SameNotePhases \/ NotePhaseGoes(n, "trying", "over") \/ NotePhaseGoes(n, "none", "over")
    PROVE  DeliveryMoves
<1>1. CASE SameNotePhases
  BY <1>1, SameNotePhasesChain DEF DeliveryMoves, DeliveryChain!MoveOrRest
<1>2. CASE NotePhaseGoes(n, "trying", "over")
  BY <1>2, NotePhaseGoesChain
     DEF DeliveryMoves, DeliveryChain!MoveOrRest, DeliveryChain!Move, DeliveryChain!End
<1>3. CASE NotePhaseGoes(n, "none", "over")
  BY <1>3, NotePhaseGoesChain
     DEF DeliveryMoves, DeliveryChain!MoveOrRest, DeliveryChain!Move, DeliveryChain!Miss
<1> QED
  BY <1>1, <1>2, <1>3

LEMMA NotesRestInChain ==
    ASSUME SameNotePhases, SameNoteVerdicts, UNCHANGED sent
    PROVE  UNCHANGED DeliveryChain!vars
BY SameNotePhasesChain, SameNoteVerdictsChain DEF DeliveryChain!vars

\* Steps of the task of a notification.
LEMMA DeliveryIsTrying ==
    ASSUME DeliveryInv, NEW d \in deliveries
    PROVE  DeliveryPhase(d.note) = "trying" /\ d.note \in Notes /\ Noted(d.note)
BY TaskOfNote DEF DeliveryPhase

LEMMA EndDeliveryPhase ==
    ASSUME DeliveryInv, NEW d \in deliveries, EndDelivery(d), UNCHANGED nTimeouts,
           \A n \in Notes : Noted(n)' <=> Noted(n)
    PROVE  NotePhaseGoes(d.note, "trying", "over")
<1> USE DEF DeliveryPhase
<1>1. /\ DeliveryPhase(d.note) = "trying" /\ d.note \in Notes /\ Noted(d.note)
      /\ ~(nTimeouts[d.note] > 0)
  BY DeliveryIsTrying
<1>2. \A e \in deliveries' : e \in deliveries /\ e.note # d.note
  BY TaskOfNote DEF EndDelivery
<1>3. \A e \in deliveries : e.note # d.note => e \in deliveries'
  BY DEF EndDelivery
<1>4. DeliveryPhase(d.note)' = "over"
  BY <1>1, <1>2
<1>5. ASSUME NEW n \in Notes \ {d.note} PROVE DeliveryPhase(n)' = DeliveryPhase(n)
  BY <1>2, <1>3
<1> QED
  BY <1>1, <1>4, <1>5 DEF NotePhaseGoes

LEMMA StepDeliveryPhase ==
    ASSUME DeliveryInv, NEW d \in deliveries, NEW e, e.note = d.note, StepDelivery(d, e),
           UNCHANGED nTimeouts, \A n \in Notes : Noted(n)' <=> Noted(n)
    PROVE  SameNotePhases
<1>1. \A n \in Notes : (\E c \in deliveries' : c.note = n) <=> (\E c \in deliveries : c.note = n)
  BY DEF StepDelivery
<1> QED
  BY <1>1 DEF SameNotePhases, DeliveryPhase

\* Retrying leaves the note of a task alone.
LEMMA RetryingNote ==
    ASSUME NEW d \in DeliveryTask, NEW tries
    PROVE  Retrying(d, tries).note = d.note
BY DEF Retrying, DeliveryTask

LEMMA SendNotificationChain ==
    ASSUME DeliveryInv, NEW d \in deliveries, SendNotification(d)
    PROVE  [DeliveryMoves]_(DeliveryChain!vars)
<1>1. d \in DeliveryTask /\ d.note \in Notes /\ Noted(d.note) /\ UNCHANGED <<nTimeouts, sent>>
  BY TaskOfNote DEF SendNotification
<1>2. CASE SubOf(d.note) \in expired
  <2>1. EndDelivery(d) /\ notes' = [notes EXCEPT ![d.note].status = "orphaned"]
    BY <1>2 DEF SendNotification
  <2>2. notes'[d.note].status = "orphaned" /\ \A m \in Notes \ {d.note} : notes'[m] = notes[m]
    BY <1>1, <2>1, StatusWritten DEF NotificationStatus
  <2>3. (\A n \in Notes : Noted(n)' <=> Noted(n)) /\ NoteVerdictOnly(d.note)
        /\ DeliveryVerdict(d.note)' = "dropped"
    BY <1>1, <2>2 DEF Noted, NoteVerdictOnly, DeliveryVerdict
  <2>4. NotePhaseGoes(d.note, "trying", "over")
    BY <1>1, <2>1, <2>3, EndDeliveryPhase
  <2> QED
    BY <1>1, <2>3, <2>4, EndsANote
<1>3. CASE SubOf(d.note) \notin expired
  <2> DEFINE e == [d EXCEPT !.pc = "posting", !.triesLeft = notes[d.note].triesLeft]
  <2>1. e.note = d.note
    BY <1>1 DEF DeliveryTask
  <2>2. StepDelivery(d, e) /\ UNCHANGED notes
    BY <1>3 DEF SendNotification
  <2> HIDE DEF e
  <2>3. SameNotePhases
    BY <1>1, <2>1, <2>2, StepDeliveryPhase DEF Noted
  <2>4. SameNoteVerdicts
    BY <2>2 DEF SameNoteVerdicts, DeliveryVerdict
  <2> QED
    BY <1>1, <2>3, <2>4, NotesRestInChain
<1> QED
  BY <1>2, <1>3

LEMMA WebhookAnswerChain ==
    ASSUME DeliveryInv, NEW d \in deliveries, WebhookOk(d) \/ WebhookNotOk(d)
    PROVE  [DeliveryMoves]_(DeliveryChain!vars)
<1>1. d \in DeliveryTask /\ d.note \in Notes /\ Noted(d.note) /\ UNCHANGED <<nTimeouts, sent>>
  BY TaskOfNote DEF WebhookOk, WebhookNotOk
<1>2. CASE WebhookOk(d)
  <2>1. EndDelivery(d) /\ notes' = [notes EXCEPT ![d.note].status = "acknowledged"]
    BY <1>2 DEF WebhookOk
  <2>2. notes'[d.note].status = "acknowledged" /\ \A m \in Notes \ {d.note} : notes'[m] = notes[m]
    BY <1>1, <2>1, StatusWritten DEF NotificationStatus
  <2>3. (\A n \in Notes : Noted(n)' <=> Noted(n)) /\ NoteVerdictOnly(d.note)
        /\ DeliveryVerdict(d.note)' = "succeeded"
    BY <1>1, <2>2 DEF Noted, NoteVerdictOnly, DeliveryVerdict
  <2>4. NotePhaseGoes(d.note, "trying", "over")
    BY <1>1, <2>1, <2>3, EndDeliveryPhase
  <2> QED
    BY <1>1, <2>3, <2>4, EndsANote
<1>3. CASE WebhookNotOk(d)
  <2>1. StepDelivery(d, Retrying(d, d.triesLeft)) /\ UNCHANGED notes
    BY <1>3 DEF WebhookNotOk
  <2>2. SameNotePhases
    BY <1>1, <2>1, RetryingNote, StepDeliveryPhase DEF Noted
  <2>3. SameNoteVerdicts
    BY <2>1 DEF SameNoteVerdicts, DeliveryVerdict
  <2> QED
    BY <1>1, <2>2, <2>3, NotesRestInChain
<1> QED
  BY <1>2, <1>3

LEMMA RetryNotificationChain ==
    ASSUME DeliveryInv, NEW d \in deliveries, RetryNotification(d)
    PROVE  DeliveryMoves
<1>1. /\ d \in DeliveryTask /\ d.note \in Notes /\ Noted(d.note) /\ EndDelivery(d) /\ UNCHANGED sent
      /\ d.triesLeft \in Nat /\ sent[d.note] \in Nat /\ sent[d.note] + d.triesLeft = InitialTries
  <2>1. TaskLedger(d) /\ d.pc = "retrying" /\ notes[d.note].triesLeft \in Nat /\ sent[d.note] \in Nat
    BY TaskOfNote DEF RetryNotification
  <2>2. d.triesLeft \in Nat
    BY DeliveryType DEF DeliveryInv
  <2> QED
    BY <2>1, <2>2, TaskOfNote, TriesNat DEF TaskLedger, RetryNotification
<1>2. /\ \A m \in Notes \ {d.note} : notes'[m] = notes[m]
      /\ notes'[d.note].status = IF d.triesLeft = 0 THEN "failed" ELSE notes[d.note].status
  BY <1>1, RetryWritten DEF RetryNotification
<1>3. \A n \in Notes : Noted(n)' <=> Noted(n)
  BY <1>1, <1>2 DEF Noted
<1>4. NoteVerdictOnly(d.note)
  BY <1>2 DEF NoteVerdictOnly, DeliveryVerdict
<1>5. CASE d.triesLeft = 0
  <2>1. DeliveryVerdict(d.note)' = "exhausted" /\ sent[d.note] = InitialTries
    BY <1>1, <1>2, <1>5 DEF DeliveryVerdict
  <2>2. UNCHANGED nTimeouts
    BY <1>5 DEF RetryNotification
  <2>3. NotePhaseGoes(d.note, "trying", "over")
    BY <1>1, <1>3, <2>2, EndDeliveryPhase
  <2> QED
    BY <1>1, <1>4, <2>1, <2>3, EndsANote
<1>6. CASE d.triesLeft # 0
  <2>1. sent[d.note] < InitialTries
    BY <1>1, <1>6
  <2>2. SameNoteVerdicts
    BY <1>2, <1>4, <1>6 DEF SameNoteVerdicts, NoteVerdictOnly, DeliveryVerdict
  <2>3. nTimeouts'[d.note] > 0 /\ \A m \in Notes \ {d.note} : nTimeouts'[m] = nTimeouts[m]
    BY <1>1, <1>6 DEF RetryNotification, NS!AddTimeout, DeliveryInv, NoteTypeOK
  <2>4. \A m \in Notes \ {d.note} :
          (\E e \in deliveries' : e.note = m) <=> (\E e \in deliveries : e.note = m)
    BY <1>1 DEF EndDelivery
  <2>5. DeliveryPhase(d.note)' = "waiting"
    BY <1>1, <1>3, <2>3 DEF DeliveryPhase
  <2>6. ASSUME NEW m \in Notes \ {d.note} PROVE DeliveryPhase(m)' = DeliveryPhase(m)
    BY <1>3, <2>3, <2>4 DEF DeliveryPhase
  <2>7. NotePhaseGoes(d.note, "trying", "waiting")
    BY <1>1, <2>5, <2>6, DeliveryIsTrying DEF NotePhaseGoes
  <2> QED
    BY <1>1, <2>1, <2>2, <2>7, RetriesANote
<1> QED
  BY <1>5, <1>6

LEMMA DeliveryFaultChain ==
    ASSUME SubTypeOK, DeliveryInv, NEW d \in deliveries, DeliveryFault(d)
    PROVE  DeliveryMoves
<1>1. faults' > 0 /\ UNCHANGED <<nTimeouts, sent>>
  BY DEF DeliveryFault, SendNotificationFails, WebhookOkFails, RetryNotificationFails, Fault, SubTypeOK
<1>2. d \in DeliveryTask /\ d.note \in Notes
  BY TaskOfNote
<1>3. \A n \in Notes : Noted(n)' <=> Noted(n)
  BY DeliveryStepsInv DEF NotesSame
<1>4. CASE EndDelivery(d)
  <2>1. NotePhaseGoes(d.note, "trying", "over")
    BY <1>1, <1>3, <1>4, EndDeliveryPhase
  <2> QED
    BY <1>1, <1>2, <2>1, NoteMovesAfterFault
<1>5. ASSUME NEW tries, StepDelivery(d, Retrying(d, tries)) PROVE DeliveryMoves
  <2>1. SameNotePhases
    BY <1>1, <1>2, <1>3, <1>5, RetryingNote, StepDeliveryPhase
  <2> QED
    BY <1>1, <1>2, <2>1, NoteMovesAfterFault
<1> QED
  BY <1>4, <1>5 DEF DeliveryFault, SendNotificationFails, WebhookOkFails, RetryNotificationFails

LEMMA NotificationTimeoutChain ==
    ASSUME DeliveryInv, NEW n \in Notes, NotificationTimeout(n)
    PROVE  DeliveryMoves
<1> DEFINE e == [note |-> n, no |-> sent[n] + 1, pc |-> "reading", triesLeft |-> 0]
<1>1. NoteInv(n) /\ NoteTypeOK /\ nTimeouts[n] > 0 /\ nTimeouts[n] \in Nat
  BY NoteType DEF DeliveryInv, NotificationTimeout, NS!TimeoutFires
<1>2. n \in nRegistry /\ nTimeouts[n] = 1 /\ Noted(n)
  BY <1>1 DEF NoteInv, Delivering
<1>3. /\ deliveries' = deliveries \cup {e}
      /\ sent' = [sent EXCEPT ![n] = @ + 1]
      /\ nTimeouts' = [nTimeouts EXCEPT ![n] = 0]
      /\ UNCHANGED notes
  BY <1>1, <1>2 DEF NotificationTimeout, NS!TimeoutFires, NS!CallbackRuns, NoteTypeOK
<1>4. e.note = n
  OBVIOUS
<1> HIDE DEF e
<1>5. \A m \in Notes \ {n} : (\E c \in deliveries' : c.note = m) <=> (\E c \in deliveries : c.note = m)
  BY <1>3, <1>4
<1>6. DeliveryPhase(n) = "waiting"
  BY <1>2 DEF DeliveryPhase
<1>7. DeliveryPhase(n)' = "trying"
  <2>1. nTimeouts'[n] = 0 /\ \E c \in deliveries' : c.note = n
    BY <1>1, <1>3, <1>4 DEF NoteTypeOK
  <2> QED
    BY <1>2, <1>3, <2>1 DEF DeliveryPhase, Noted
<1>8. ASSUME NEW m \in Notes \ {n} PROVE DeliveryPhase(m)' = DeliveryPhase(m)
  <2>1. nTimeouts'[m] = nTimeouts[m] /\ (Noted(m)' <=> Noted(m))
    BY <1>1, <1>3 DEF NoteTypeOK, Noted
  <2> QED
    BY <1>5, <2>1 DEF DeliveryPhase
<1>9. NotePhaseGoes(n, "waiting", "trying")
  BY <1>6, <1>7, <1>8 DEF NotePhaseGoes
<1>10. SameNoteVerdicts
  BY <1>3 DEF SameNoteVerdicts, DeliveryVerdict
<1> QED
  BY <1>3, <1>9, <1>10, TriesANote

\* A row that did not exist is created, with or without its timer.
LEMMA CreateNotificationChain ==
    ASSUME DeliveryInv, NEW n \in Notes, ~Noted(n), NEW nonce \in Nat,
           \/ CreateNotification(n, nonce)
           \/ CreateNotificationFails(n, nonce) /\ faults' > 0
    PROVE  DeliveryMoves
<1>1. /\ notes[n].status = "none" /\ ~(nTimeouts[n] > 0) /\ ~\E d \in deliveries : d.note = n
      /\ UNCHANGED <<deliveries, sent>>
  BY DEF DeliveryInv, NoteInv, Noted, Delivering, TasksOf, CreateNotification, CreateNotificationFails
<1>2. CASE CreateNotification(n, nonce)
  <2>1. /\ notes'[n].status = "active" /\ \A m \in Notes \ {n} : notes'[m] = notes[m]
        /\ nTimeouts'[n] > 0 /\ \A m \in Notes \ {n} : nTimeouts'[m] = nTimeouts[m]
    BY <1>2 DEF CreateNotification, NewNotification, NS!AddTimeout, DeliveryInv, NoteTypeOK
  <2>2. NotePhaseGoes(n, "none", "waiting")
    BY <1>1, <2>1 DEF NotePhaseGoes, DeliveryPhase, Noted
  <2>3. SameNoteVerdicts
    BY <1>1, <2>1 DEF SameNoteVerdicts, DeliveryVerdict
  <2> QED
    BY <1>1, <2>2, <2>3, SchedulesANote
<1>3. CASE CreateNotificationFails(n, nonce) /\ faults' > 0
  <2>1. UNCHANGED nTimeouts
    BY <1>3 DEF CreateNotificationFails
  <2>2. CASE UNCHANGED notes
    <3>1. SameNotePhases
      BY <1>1, <2>1, <2>2 DEF SameNotePhases, DeliveryPhase, Noted
    <3> QED
      BY <1>1, <1>3, <3>1, NoteMovesAfterFault
  <2>3. CASE notes' = [notes EXCEPT ![n] = NewNotification(nonce)]
    <3>1. notes'[n].status = "active" /\ \A m \in Notes \ {n} : notes'[m] = notes[m]
      BY <2>3 DEF NewNotification, DeliveryInv, NoteTypeOK
    <3>2. NotePhaseGoes(n, "none", "over")
      BY <1>1, <2>1, <3>1 DEF NotePhaseGoes, DeliveryPhase, Noted
    <3> QED
      BY <1>1, <1>3, <3>2, NoteMovesAfterFault
  <2> QED
    BY <1>3, <2>2, <2>3 DEF CreateNotificationFails
<1> QED
  BY <1>2, <1>3

\* Steps that are not about notifications.
LEMMA NoteVarsChain ==
    ASSUME UNCHANGED noteVars
    PROVE  UNCHANGED DeliveryChain!vars
<1>1. UNCHANGED <<notes, deliveries, nTimeouts, sent>>
  BY DEF noteVars
<1> QED
  BY <1>1, NotesRestInChain DEF SameNotePhases, SameNoteVerdicts, DeliveryPhase, DeliveryVerdict, Noted

\* A restart forgets every delivery that is under way.
LEMMA RestartDeliveryChain ==
    ASSUME DeliveryInv, Restart
    PROVE  DeliveryMoves
<1>1. nTimeouts' = [n \in Notes |-> 0] /\ deliveries' = {} /\ UNCHANGED <<notes, sent>>
  BY DEF Restart, NS!ScheduleLost
<1>2. ASSUME NEW n \in Notes
      PROVE  DeliveryPhase(n)' = IF DeliveryPhase(n) = "none" THEN "none" ELSE "over"
  BY <1>1 DEF DeliveryPhase, Noted
<1>3. SameNoteVerdicts
  BY <1>1 DEF SameNoteVerdicts, DeliveryVerdict
<1>4. DeliveryChain!Lose
  BY <1>1, <1>2 DEF DeliveryChain!Lose
<1> QED
  BY <1>3, <1>4, SameNoteVerdictsChain DEF DeliveryMoves, DeliveryChain!Next

LEMMA HandlingDeliveryChain ==
    ASSUME Inv, NEW h \in handlers, Handling(h)
    PROVE  [DeliveryMoves]_(DeliveryChain!vars)
<1>1. DeliveryInv /\ SubTypeOK /\ TxTypeOK /\ HandlerInv(h)
  BY DEF Inv, TxInv, HandlersInv, HandshakeInv
<1>2. ASSUME NEW s \in h.ids, CreateOne(h, s) \/ CreateOneFails(h, s)
      PROVE  DeliveryMoves
  <2> DEFINE new == <<h.event, s>>
  <2>1. s \in Subs /\ h.event \in Events /\ h.nonces[s] \in Nat
    BY <1>1, HandlerType
  <2>2. new \in Notes /\ ~Noted(new)
    BY <1>1, <1>2, <2>1 DEF Notes, HandlerInv, CreateOne, CreateOneFails
  <2>3. \/ CreateNotification(new, h.nonces[s])
        \/ CreateNotificationFails(new, h.nonces[s]) /\ faults' > 0
    BY <1>1, <1>2 DEF CreateOne, CreateOneFails, Fault, SubTypeOK
  <2> HIDE DEF new
  <2> QED
    BY <1>1, <2>1, <2>2, <2>3, CreateNotificationChain
<1>3. ASSUME \/ FindAffected(h) \/ BumpNonces(h) \/ CreatedAll(h) \/ MarkProcessed(h)
             \/ FindEnding(h) \/ MarkedAll(h) \/ HandlerFails(h)
      PROVE  UNCHANGED noteVars
  BY <1>3 DEF FindAffected, BumpNonces, CreatedAll, MarkProcessed, FindEnding, MarkedAll, HandlerFails
<1>4. ASSUME NEW s \in h.ids, MarkOne(h, s) PROVE UNCHANGED noteVars
  BY <1>4 DEF MarkOne
<1> QED
  BY <1>2, <1>3, <1>4, NoteVarsChain DEF Handling, HandlerStep

LEMMA DeliveryChainNext ==
    ASSUME Inv, [Next]_vars
    PROVE  [DeliveryMoves]_(DeliveryChain!vars)
<1>1. DeliveryInv /\ SubTypeOK
  BY DEF Inv, HandshakeInv
<1>2. CASE UNCHANGED vars
  BY <1>2, NoteVarsChain DEF vars
<1>3. ASSUME NEW s \in Subs,
             \/ AddListener(s) \/ Submission(s) \/ SubmissionFails(s) \/ StatusChange(s)
             \/ Subscribing(s) \/ TimePasses(s)
      PROVE  UNCHANGED noteVars
  BY <1>3 DEF AddListener, Submission, Subscribe, StartNonceAtOne, Respond, SubmissionFails,
     SubscribeFails, StartNonceAtOneFails, StatusChange, Subscribing, TimePasses
<1>4. ASSUME SubscribingFails PROVE UNCHANGED noteVars
  BY <1>4 DEF SubscribingFails
<1>5. ASSUME NEW n \in Notes, Notifying(n) PROVE [DeliveryMoves]_(DeliveryChain!vars)
  <2>1. CASE NotificationTimeout(n)
    BY <1>1, <2>1, NotificationTimeoutChain
  <2>2. ASSUME NEW d \in deliveries, DeliveryStep(d) PROVE [DeliveryMoves]_(DeliveryChain!vars)
    BY <1>1, <2>2, SendNotificationChain, WebhookAnswerChain, RetryNotificationChain DEF DeliveryStep
  <2> QED
    BY <1>5, <2>1, <2>2 DEF Notifying
<1>6. ASSUME NotifyingFails PROVE DeliveryMoves
  BY <1>1, <1>6, DeliveryFaultChain DEF NotifyingFails
<1>7. ASSUME NEW h \in handlers, Handling(h) PROVE [DeliveryMoves]_(DeliveryChain!vars)
  BY <1>7, HandlingDeliveryChain
<1>8. ASSUME Restart PROVE DeliveryMoves
  BY <1>1, <1>8, RestartDeliveryChain
<1> QED
  BY <1>2, <1>3, <1>4, <1>5, <1>6, <1>7, <1>8, NoteVarsChain DEF Next

LEMMA DeliveryChainInit == ASSUME NoteInit PROVE DeliveryChain!Init
BY DEF NoteInit, DeliveryChain!Init, DeliveryPhase, DeliveryVerdict, Noted

\* The timers, tasks and rows of notifications implement Retries for any number of
\* subscriptions, events and tries, through failing queries and restarts: a receiver
\* is tried one attempt at a time and only while tries are left, and without failures
\* Failed is only recorded after the last attempt (sendNotification, retry).
THEOREM DeliveryRetriesHolds == Spec => DeliveryRetries
<1>1. Inv /\ [Next]_vars => [DeliveryMoves]_(DeliveryChain!vars)
  BY DeliveryChainNext
<1>2. Init => DeliveryChain!Init
  BY DeliveryChainInit DEF Init
<1> QED
  BY <1>1, <1>2, AlwaysInv, PTL DEF Spec, DeliveryRetries

---------------------------------------------------------------------------
(* The handshakes implement Retries in the whole system too, where         *)
(* handlers write the same rows and a restart forgets timers and tasks.    *)

\* Steps that change no more of a subscription than its nonce or its expiry.
LEMMA SubVarsChain ==
    ASSUME UNCHANGED <<subs, handshakes, hsTimeouts, started>>
    PROVE  UNCHANGED HandshakeChain!vars
BY OtherFieldsChain

\* A handler marks as Done what it has found: unless a call has failed, the row says
\* that the handshake succeeded already.
LEMMA MarkFoundChain ==
    ASSUME Inv, NEW h \in handlers, NEW s \in h.ids, MarkAsDone(s), faults' \in Nat, faults' >= faults
    PROVE  [HandshakeMoves]_(HandshakeChain!vars)
<1>1. HandshakeInv /\ SubTypeOK /\ s \in Subs /\ s \in confirmed /\ faults \in Nat
  BY HandlerType DEF Inv, HandshakeInv, SubTypeOK, TxInv, HandlersInv, HandlerInv
<1>2. CASE faults' = 0
  <2>1. faults = 0
    BY <1>1, <1>2
  <2>2. subs[s].status \in {"active", "done"}
    BY <2>1, FoundStays
  <2> QED
    BY <1>1, <2>2, MarkAsDoneChain
<1>3. CASE faults' > 0
  <2>1. Created(s)
    BY <1>1 DEF HandshakeInv, HandshakeLedger
  <2>2. subs'[s].status = "done" /\ \A r \in Subs \ {s} : subs'[r] = subs[r]
    BY <1>1 DEF MarkAsDone, SubTypeOK, Subscription
  <2>3. \A r \in Subs : Created(r)' <=> Created(r)
    BY <2>1, <2>2 DEF Created
  <2>4. UNCHANGED <<handshakes, hsTimeouts, started>>
    BY DEF MarkAsDone
  <2>5. SamePhases
    BY <2>3, <2>4 DEF SamePhases, HandshakePhase
  <2> QED
    BY <1>1, <1>3, <2>4, <2>5, MovesAfterFault
<1> QED
  BY <1>2, <1>3

LEMMA NoncesChain ==
    ASSUME SubTypeOK, NEW ids, IncrementNonces(ids)
    PROVE  UNCHANGED HandshakeChain!vars
<1>1. \A r \in Subs : subs'[r].status = subs[r].status
  BY DEF IncrementNonces, SubTypeOK, Subscription
<1> QED
  BY <1>1, OtherFieldsChain DEF IncrementNonces

LEMMA HandlingHandshakeChain ==
    ASSUME Inv, NEW h \in handlers, Handling(h)
    PROVE  [HandshakeMoves]_(HandshakeChain!vars)
<1>1. SubTypeOK /\ faults \in Nat
  BY DEF Inv, HandshakeInv, SubTypeOK
<1>2. ASSUME \/ FindAffected(h) \/ CreatedAll(h) \/ MarkProcessed(h) \/ FindEnding(h) \/ MarkedAll(h)
      PROVE  UNCHANGED HandshakeChain!vars
  BY <1>2, SubVarsChain DEF FindAffected, CreatedAll, MarkProcessed, FindEnding, MarkedAll, subVars
<1>3. ASSUME BumpNonces(h) PROVE UNCHANGED HandshakeChain!vars
  BY <1>1, <1>3, NoncesChain DEF BumpNonces
<1>4. ASSUME NEW s \in h.ids, CreateOne(h, s) \/ CreateOneFails(h, s)
      PROVE  UNCHANGED HandshakeChain!vars
  BY <1>4, SubVarsChain DEF CreateOne, CreateOneFails, subVars
<1>5. ASSUME NEW s \in h.ids, MarkOne(h, s) PROVE [HandshakeMoves]_(HandshakeChain!vars)
  BY <1>1, <1>5, MarkFoundChain DEF MarkOne
<1>6. ASSUME HandlerFails(h) PROVE [HandshakeMoves]_(HandshakeChain!vars)
  <2>1. faults' \in Nat /\ faults' >= faults
    BY <1>1, <1>6 DEF HandlerFails, Fault
  <2>2. ASSUME UNCHANGED <<subs, expired, handshakes, hsTimeouts, hsRegistry, started, confirmed>>
        PROVE  UNCHANGED HandshakeChain!vars
    BY <2>2, SubVarsChain
  <2>3. ASSUME IncrementNonces(h.ids) PROVE UNCHANGED HandshakeChain!vars
    BY <1>1, <2>3, NoncesChain
  <2>4. ASSUME NEW s \in h.ids, MarkAsDone(s) PROVE [HandshakeMoves]_(HandshakeChain!vars)
    BY <2>1, <2>4, MarkFoundChain
  <2> QED
    BY <1>6, <2>2, <2>3, <2>4 DEF HandlerFails
<1> QED
  BY <1>2, <1>3, <1>4, <1>5, <1>6 DEF Handling, HandlerStep

LEMMA RestartHandshakeChain ==
    ASSUME Restart
    PROVE  HandshakeMoves
<1>1. hsTimeouts' = [s \in Subs |-> 0] /\ handshakes' = {} /\ UNCHANGED <<subs, started>>
  BY DEF Restart, HS!ScheduleLost
<1>2. ASSUME NEW s \in Subs
      PROVE  HandshakePhase(s)' = IF HandshakePhase(s) = "none" THEN "none" ELSE "over"
  BY <1>1 DEF HandshakePhase, Created
<1>3. SameVerdicts
  BY <1>1 DEF SameVerdicts, HandshakeVerdict
<1>4. HandshakeChain!Lose
  BY <1>1, <1>2 DEF HandshakeChain!Lose
<1> QED
  BY <1>3, <1>4, SameVerdictsChain DEF HandshakeMoves, HandshakeChain!Next

LEMMA SubmissionHandshakeChain ==
    ASSUME Inv, NEW s \in Subs,
           AddListener(s) \/ Submission(s) \/ SubmissionFails(s) \/ StatusChange(s)
    PROVE  [HandshakeMoves]_(HandshakeChain!vars)
<1>1. HandshakeInv /\ SubTypeOK /\ txId[s] \in Scopes
  BY DEF Inv, HandshakeInv, TxInv, ScopeInv
<1>2. ASSUME AddListener(s) \/ Respond(s) \/ StatusChange(s) PROVE UNCHANGED HandshakeChain!vars
  BY <1>2, SubVarsChain DEF AddListener, Respond, StatusChange, subVars
<1>3. ASSUME Subscribe(s) PROVE HandshakeMoves
  BY <1>1, <1>3, CreateSubscriptionChain DEF Subscribe
<1>4. ASSUME SubscribeFails(s) PROVE HandshakeMoves
  BY <1>1, <1>4, CreateSubscriptionFailsChain DEF SubscribeFails
<1>5. ASSUME UpdateNextNonce(s, 1) PROVE UNCHANGED HandshakeChain!vars
  <2>1. \A r \in Subs : subs'[r].status = subs[r].status
    BY <1>1, <1>5 DEF UpdateNextNonce, SubTypeOK, Subscription
  <2> QED
    BY <1>5, <2>1, OtherFieldsChain DEF UpdateNextNonce
<1>6. ASSUME StartNonceAtOne(s) \/ StartNonceAtOneFails(s) PROVE UNCHANGED HandshakeChain!vars
  BY <1>5, <1>6, SubVarsChain DEF StartNonceAtOne, StartNonceAtOneFails
<1> QED
  BY <1>2, <1>3, <1>4, <1>6 DEF Submission, SubmissionFails

LEMMA WebhookHandshakeChainNext ==
    ASSUME Inv, [Next]_vars
    PROVE  [HandshakeMoves]_(HandshakeChain!vars)
<1>1. HandshakeInv
  BY DEF Inv
<1>2. CASE UNCHANGED vars
  BY <1>2, SubVarsChain DEF vars, subVars
<1>3. ASSUME NEW s \in Subs, Subscribing(s) \/ TimePasses(s)
      PROVE  [HandshakeMoves]_(HandshakeChain!vars)
  <2>1. SubNext
    BY <1>3 DEF Subscribing, TimePasses, SubNext, Environment
  <2> QED
    BY <1>1, <2>1, HandshakeChainNext
<1>4. ASSUME SubscribingFails PROVE [HandshakeMoves]_(HandshakeChain!vars)
  BY <1>1, <1>4, HandshakeStepChain DEF SubscribingFails
<1>5. ASSUME NEW n \in Notes, Notifying(n) PROVE UNCHANGED HandshakeChain!vars
  BY <1>5, SubVarsChain DEF Notifying, NotificationTimeout, DeliveryStep, SendNotification, WebhookOk,
     WebhookNotOk, RetryNotification, subVars
<1>6. ASSUME NotifyingFails PROVE UNCHANGED HandshakeChain!vars
  BY <1>6, SubVarsChain DEF NotifyingFails, DeliveryFault, SendNotificationFails, WebhookOkFails,
     RetryNotificationFails
<1> QED
  BY <1>2, <1>3, <1>4, <1>5, <1>6, SubmissionHandshakeChain, HandlingHandshakeChain,
     RestartHandshakeChain DEF Next

\* Composed with submissions, status handlers and restarts the handshakes still
\* implement Retries: no handler and no restart gives a subscription an attempt, an
\* outcome or a second chain of timers it should not have.
THEOREM WebhookHandshakeRetries == Spec => HandshakeRetries
<1>1. Inv /\ [Next]_vars => [HandshakeMoves]_(HandshakeChain!vars)
  BY WebhookHandshakeChainNext
<1>2. Init => HandshakeChain!Init
  BY HandshakeChainInit DEF Init
<1> QED
  BY <1>1, <1>2, AlwaysInv, PTL DEF Spec, HandshakeRetries

\* As long as no repository call fails, both chains implement Retries entirely, their
\* records included, across restarts.
THEOREM WebhooksImplementRetries == Spec /\ [](faults = 0) => HandshakeChain!Spec /\ DeliveryChain!Spec
<1>1. Inv /\ [Next]_vars => [HandshakeMoves]_(HandshakeChain!vars) /\ [DeliveryMoves]_(DeliveryChain!vars)
  BY WebhookHandshakeChainNext, DeliveryChainNext
<1>2. [HandshakeMoves]_(HandshakeChain!vars) /\ (faults = 0)' => [HandshakeChain!Next]_(HandshakeChain!vars)
  BY DEF HandshakeMoves
<1>3. [DeliveryMoves]_(DeliveryChain!vars) /\ (faults = 0)' => [DeliveryChain!Next]_(DeliveryChain!vars)
  BY DEF DeliveryMoves
<1>4. Init => HandshakeChain!Init /\ DeliveryChain!Init
  BY HandshakeChainInit, DeliveryChainInit DEF Init
<1> QED
  BY <1>1, <1>2, <1>3, <1>4, AlwaysInv, PTL DEF Spec, HandshakeChain!Spec, DeliveryChain!Spec
=============================================================================
