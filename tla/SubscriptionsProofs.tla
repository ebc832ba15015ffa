------------------------ MODULE SubscriptionsProofs ------------------------
(***************************************************************************)
(* The handshake invariants hold for every set of subscriptions, every     *)
(* number of tries and every pattern of failing repository calls.          *)
(*                                                                         *)
(* HandshakeInv is inductive.  There is one lemma per operation of the     *)
(* service, so that a module that composes the service can cite them.      *)
(***************************************************************************)
EXTENDS Subscriptions, TLAPS

USE HandshakeTriesAssumption

\* The service starts with no rows, timers or tasks.
LEMMA HandshakeInvInit == SubInit => HandshakeInv
<1> SUFFICES ASSUME SubInit PROVE HandshakeInv
    OBVIOUS
<1>1. SubTypeOK
    BY ScopesAssumption DEF SubInit, SubTypeOK, HS!ScheduleInit, Subscription, SubscriptionStatus
<1> QED
    BY <1>1 DEF SubInit, HandshakeInv, HS!ScheduleInit, HandshakeSingleFlight, HandshakeLedger,
       HandshakeBudget, ActiveOnlyIfConfirmed, PendingIsInactive, Pending, Created

\* What a task record is made of, and what the step of a task is.
LEMMA TaskType ==
    ASSUME SubTypeOK, NEW t \in handshakes
    PROVE  /\ t \in HandshakeTask
           /\ t.sub \in Subs /\ t.no \in Nat /\ t.triesLeft \in Nat
           /\ t.pc \in {"reading", "posting", "retrying"}
           /\ subs[t.sub] \in Subscription
           /\ subs[t.sub].triesLeft \in Nat
BY DEF SubTypeOK, HandshakeTask, Subscription

\* A task that goes on as u, with the rows, timers and calls as they are apart
\* from statuses, keeps the bookkeeping when u holds the right number of tries.
LEMMA StepTaskInv ==
    ASSUME SubTypeOK, HandshakeSingleFlight, HandshakeLedger,
           NEW t \in handshakes, NEW u \in HandshakeTask, StepTask(t, u), u.sub = t.sub,
           u.pc = "posting" => u.triesLeft = subs[t.sub].triesLeft,
           u.pc = "retrying" => u.triesLeft = subs[t.sub].triesLeft - 1,
           UNCHANGED <<hsTimeouts, hsRegistry, started>>, SubTypeOK',
           \A s \in Subs : /\ subs'[s].triesLeft = subs[s].triesLeft
                           /\ Created(s) <=> Created(s)',
           confirmed' \subseteq confirmed \cup {t.sub}
    PROVE  /\ HandshakeSingleFlight'
           /\ HandshakeLedger'
           /\ \A s \in Subs : Pending(s)' <=> Pending(s)
<1>1. HandshakeSingleFlight'
    BY TaskType DEF HandshakeSingleFlight, StepTask
<1>2. \A s \in Subs : Pending(s)' <=> Pending(s)
    BY TaskType DEF Pending, StepTask
<1>3. \A s \in Subs :
        /\ started'[s] <= HandshakeTries
        /\ ~Created(s)' => started'[s] = 0 /\ ~Pending(s)' /\ s \notin confirmed'
        /\ hsTimeouts'[s] > 0 =>
              subs'[s].triesLeft > 0 /\ started'[s] + subs'[s].triesLeft = HandshakeTries
  <2>1. Created(t.sub)
    BY TaskType DEF HandshakeLedger, Pending
  <2> SUFFICES ASSUME NEW s \in Subs
               PROVE  /\ started[s] <= HandshakeTries
                      /\ ~Created(s) => started[s] = 0 /\ ~Pending(s) /\ s \notin confirmed \cup {t.sub}
                      /\ hsTimeouts[s] > 0 =>
                           subs[s].triesLeft > 0 /\ started[s] + subs[s].triesLeft = HandshakeTries
    BY <1>2 DEF Created
  <2> QED
    BY <2>1 DEF HandshakeLedger
<1>4. \A v \in handshakes' :
        /\ subs'[v.sub].triesLeft > 0
        /\ started'[v.sub] + subs'[v.sub].triesLeft = HandshakeTries + 1
        /\ v.pc = "posting" => v.triesLeft = subs'[v.sub].triesLeft
        /\ v.pc = "retrying" => v.triesLeft = subs'[v.sub].triesLeft - 1
  <2>1. \A v \in handshakes :
          /\ v.sub \in Subs /\ subs[v.sub].triesLeft > 0
          /\ started[v.sub] + subs[v.sub].triesLeft = HandshakeTries + 1
          /\ v.pc = "posting" => v.triesLeft = subs[v.sub].triesLeft
          /\ v.pc = "retrying" => v.triesLeft = subs[v.sub].triesLeft - 1
    BY TaskType DEF HandshakeLedger
  <2>2. \A v \in handshakes' : v = u \/ v \in handshakes
    BY DEF StepTask
  <2>3. u.sub = t.sub /\ t.sub \in Subs /\ started' = started
    BY TaskType
  <2> SUFFICES ASSUME NEW v \in handshakes'
               PROVE  /\ v.sub \in Subs /\ subs[v.sub].triesLeft > 0
                      /\ started[v.sub] + subs[v.sub].triesLeft = HandshakeTries + 1
                      /\ v.pc = "posting" => v.triesLeft = subs[v.sub].triesLeft
                      /\ v.pc = "retrying" => v.triesLeft = subs[v.sub].triesLeft - 1
    BY <2>3
  <2>4. CASE v = u
    BY <2>1, <2>3, <2>4
  <2>5. CASE v \in handshakes
    BY <2>1, <2>5
  <2> QED
    BY <2>2, <2>4, <2>5
<1> QED
    BY <1>1, <1>2, <1>3, <1>4 DEF HandshakeLedger

\* createSubscription writes a row nobody works on and arms its first timer.
LEMMA CreateSubscriptionInv ==
    ASSUME HandshakeInv, NEW s \in Subs, NEW x \in Scopes, CreateSubscription(s, x)
    PROVE  HandshakeInv'
<1> USE DEF CreateSubscription, HandshakeInv, SubTypeOK, Created, HS!AddTimeout
<1>1. SubTypeOK'
    BY DEF Subscription, SubscriptionStatus, NewSubscription
<1>2. HandshakeSingleFlight'
    BY DEF HandshakeSingleFlight, HandshakeLedger, Pending, HandshakeTask
<1>3. HandshakeLedger'
    BY DEF HandshakeSingleFlight, HandshakeLedger, Pending, HandshakeTask, NewSubscription, Subscription
<1>4. HandshakeBudget'
    BY DEF HandshakeBudget, HandshakeLedger, Pending, NewSubscription, Subscription
<1>5. ActiveOnlyIfConfirmed'
    BY DEF ActiveOnlyIfConfirmed, HandshakeLedger, NewSubscription, Subscription
<1>6. PendingIsInactive'
    BY DEF PendingIsInactive, HandshakeLedger, Pending, NewSubscription, Subscription, HandshakeTask
<1> QED BY <1>1, <1>2, <1>3, <1>4, <1>5, <1>6

\* A row whose insert was reported as failed is never worked on.
LEMMA CreateSubscriptionFailsInv ==
    ASSUME HandshakeInv, NEW s \in Subs, NEW x \in Scopes, CreateSubscriptionFails(s, x)
    PROVE  HandshakeInv'
<1> USE DEF CreateSubscriptionFails, NewSubscription, Fault, HandshakeInv, SubTypeOK, Created
<1>1. SubTypeOK'
    BY DEF Subscription, SubscriptionStatus, HandshakeTask, HandshakeLedger
<1>2. HandshakeSingleFlight'
    BY DEF HandshakeSingleFlight, HandshakeLedger, Pending, HandshakeTask
<1>3. HandshakeLedger'
    BY DEF HandshakeSingleFlight, HandshakeLedger, Pending, HandshakeTask, Subscription
<1>4. HandshakeBudget'
    BY DEF HandshakeBudget, HandshakeLedger, PendingIsInactive, Pending, Subscription, HandshakeTask
<1>5. ActiveOnlyIfConfirmed'
    BY DEF ActiveOnlyIfConfirmed, HandshakeLedger, PendingIsInactive, Pending, Subscription, HandshakeTask
<1>6. PendingIsInactive'
    BY DEF PendingIsInactive, ActiveOnlyIfConfirmed, HandshakeSingleFlight, HandshakeLedger, Pending, Subscription, HandshakeTask
<1> QED BY <1>1, <1>2, <1>3, <1>4, <1>5, <1>6

\* Nonces play no part in the handshake.
LEMMA UpdateNextNonceInv ==
    ASSUME HandshakeInv, NEW s \in Subs, NEW n \in Nat, UpdateNextNonce(s, n),
           faults' \in Nat, faults' >= faults
    PROVE  HandshakeInv'
<1> USE DEF UpdateNextNonce, HandshakeInv, SubTypeOK, Created
<1>1. SubTypeOK'
    BY DEF Subscription, SubscriptionStatus, HandshakeTask, HandshakeLedger
<1>2. HandshakeSingleFlight'
    BY DEF HandshakeSingleFlight, HandshakeLedger, Pending, HandshakeTask
<1>3. HandshakeLedger'
    BY DEF HandshakeSingleFlight, HandshakeLedger, Pending, HandshakeTask, Subscription
<1>4. HandshakeBudget'
    BY DEF HandshakeBudget, HandshakeLedger, PendingIsInactive, Pending, Subscription, HandshakeTask
<1>5. ActiveOnlyIfConfirmed'
    BY DEF ActiveOnlyIfConfirmed, HandshakeLedger, PendingIsInactive, Pending, Subscription, HandshakeTask
<1>6. PendingIsInactive'
    BY DEF PendingIsInactive, ActiveOnlyIfConfirmed, HandshakeSingleFlight, HandshakeLedger, Pending, Subscription, HandshakeTask
<1> QED BY <1>1, <1>2, <1>3, <1>4, <1>5, <1>6

\* Nor do they when a batch is bumped.
LEMMA IncrementNoncesInv ==
    ASSUME HandshakeInv, NEW ids, IncrementNonces(ids),
           faults' \in Nat, faults' >= faults
    PROVE  HandshakeInv'
<1> USE DEF IncrementNonces, HandshakeInv, SubTypeOK, Created
<1>1. SubTypeOK'
    BY DEF Subscription, SubscriptionStatus, HandshakeTask, HandshakeLedger
<1>2. HandshakeSingleFlight'
    BY DEF HandshakeSingleFlight, HandshakeLedger, Pending, HandshakeTask
<1>3. HandshakeLedger'
    BY DEF HandshakeSingleFlight, HandshakeLedger, Pending, HandshakeTask, Subscription
<1>4. HandshakeBudget'
    BY DEF HandshakeBudget, HandshakeLedger, PendingIsInactive, Pending, Subscription, HandshakeTask
<1>5. ActiveOnlyIfConfirmed'
    BY DEF ActiveOnlyIfConfirmed, HandshakeLedger, PendingIsInactive, Pending, Subscription, HandshakeTask
<1>6. PendingIsInactive'
    BY DEF PendingIsInactive, ActiveOnlyIfConfirmed, HandshakeSingleFlight, HandshakeLedger, Pending, Subscription, HandshakeTask
<1> QED BY <1>1, <1>2, <1>3, <1>4, <1>5, <1>6

\* A subscription that was Active once may be marked Done at any later moment.
LEMMA MarkAsDoneInv ==
    ASSUME HandshakeInv, NEW s \in Subs, s \in confirmed, MarkAsDone(s),
           faults' \in Nat, faults' >= faults
    PROVE  HandshakeInv'
<1> USE DEF MarkAsDone, HandshakeInv, SubTypeOK, Created
<1>1. SubTypeOK'
    BY DEF Subscription, SubscriptionStatus, HandshakeTask, HandshakeLedger
<1>2. HandshakeSingleFlight'
    BY DEF HandshakeSingleFlight, HandshakeLedger, Pending, HandshakeTask
<1>3. HandshakeLedger'
    BY DEF HandshakeSingleFlight, HandshakeLedger, Pending, HandshakeTask, Subscription
<1>4. HandshakeBudget'
    BY DEF HandshakeBudget, ActiveOnlyIfConfirmed, HandshakeLedger, PendingIsInactive, Pending, Subscription, HandshakeTask
<1>5. ActiveOnlyIfConfirmed'
    BY DEF ActiveOnlyIfConfirmed, HandshakeLedger, PendingIsInactive, Pending, Subscription, HandshakeTask
<1>6. PendingIsInactive'
    BY DEF PendingIsInactive, ActiveOnlyIfConfirmed, HandshakeSingleFlight, HandshakeLedger, Pending, Subscription, HandshakeTask
<1> QED BY <1>1, <1>2, <1>3, <1>4, <1>5, <1>6

\* The timer turns into the task.
LEMMA HandshakeTimeoutInv ==
    ASSUME HandshakeInv, NEW s \in Subs, HandshakeTimeout(s)
    PROVE  HandshakeInv'
<1> USE DEF HandshakeTimeout, HS!TimeoutFires, HS!CallbackRuns, HandshakeInv, SubTypeOK, Created
<1> DEFINE u == [sub |-> s, no |-> started[s] + 1, pc |-> "reading", triesLeft |-> 0]
<1>1. s \in hsRegistry /\ hsTimeouts[s] = 1 /\ \A t \in handshakes : t.sub # s
    BY DEF HandshakeSingleFlight, HandshakeTask
<1>2. /\ handshakes' = handshakes \cup {u}
      /\ started' = [started EXCEPT ![s] = @ + 1]
      /\ hsTimeouts' = [hsTimeouts EXCEPT ![s] = 0]
      /\ hsRegistry' = hsRegistry \ {s}
    BY <1>1
<1>3. u \in HandshakeTask /\ u.sub = s /\ u.pc = "reading"
    BY DEF HandshakeTask
<1> HIDE DEF u
<1> USE <1>1, <1>2, <1>3
<1>4. SubTypeOK'
    OBVIOUS
<1>5. HandshakeSingleFlight'
    BY DEF HandshakeSingleFlight, HandshakeTask
<1>6. \A r \in Subs : Pending(r)' <=> Pending(r)
    BY DEF Pending, HandshakeTask
<1>7. HandshakeLedger'
  <2>1. \A r \in Subs :
          /\ started'[r] <= HandshakeTries
          /\ ~Created(r)' => started'[r] = 0 /\ ~Pending(r)' /\ r \notin confirmed'
          /\ hsTimeouts'[r] > 0 =>
                subs'[r].triesLeft > 0 /\ started'[r] + subs'[r].triesLeft = HandshakeTries
    BY <1>6 DEF HandshakeLedger, Pending, Subscription
  <2>2. \A v \in handshakes' :
          /\ subs'[v.sub].triesLeft > 0
          /\ started'[v.sub] + subs'[v.sub].triesLeft = HandshakeTries + 1
          /\ v.pc = "posting" => v.triesLeft = subs'[v.sub].triesLeft
          /\ v.pc = "retrying" => v.triesLeft = subs'[v.sub].triesLeft - 1
    <3>1. /\ subs[s].triesLeft > 0 /\ started'[s] = started[s] + 1
          /\ started[s] + subs[s].triesLeft = HandshakeTries
          /\ subs[s].triesLeft \in Nat /\ started[s] \in Nat
      BY DEF HandshakeLedger, Subscription
    <3>2. \A v \in handshakes : v.sub \in Subs /\ started'[v.sub] = started[v.sub]
      BY DEF HandshakeTask
    <3> QED
      BY <3>1, <3>2 DEF HandshakeLedger
  <2> QED
    BY <2>1, <2>2 DEF HandshakeLedger
<1>8. HandshakeBudget'
    BY <1>7 DEF HandshakeBudget, HandshakeLedger, PendingIsInactive, Pending
<1>9. ActiveOnlyIfConfirmed' /\ PendingIsInactive'
    BY <1>6 DEF ActiveOnlyIfConfirmed, PendingIsInactive
<1> QED
    BY <1>4, <1>5, <1>7, <1>8, <1>9

\* Time passes.
LEMMA ExpireInv ==
    ASSUME HandshakeInv, NEW s \in Subs, Expire(s)
    PROVE  HandshakeInv'
<1> USE DEF Expire, HandshakeInv, SubTypeOK, Created
<1>1. SubTypeOK'
    BY DEF Subscription, SubscriptionStatus, HandshakeTask, HandshakeLedger
<1>2. HandshakeSingleFlight'
    BY DEF HandshakeSingleFlight, HandshakeLedger, Pending, HandshakeTask
<1>3. HandshakeLedger'
    BY DEF HandshakeSingleFlight, HandshakeLedger, Pending, HandshakeTask, Subscription
<1>4. HandshakeBudget'
    BY DEF HandshakeBudget, HandshakeLedger, PendingIsInactive, Pending, Subscription, HandshakeTask
<1>5. ActiveOnlyIfConfirmed'
    BY DEF ActiveOnlyIfConfirmed, HandshakeLedger, PendingIsInactive, Pending, Subscription, HandshakeTask
<1>6. PendingIsInactive'
    BY DEF PendingIsInactive, ActiveOnlyIfConfirmed, HandshakeSingleFlight, HandshakeLedger, Pending, Subscription, HandshakeTask
<1> QED BY <1>1, <1>2, <1>3, <1>4, <1>5, <1>6

\* The task remembers the tries the row has.
LEMMA SendHandshakeInv ==
    ASSUME HandshakeInv, NEW t \in handshakes, SendHandshake(t)
    PROVE  HandshakeInv'
<1> USE DEF HandshakeInv, Created
<1> DEFINE u == [t EXCEPT !.pc = "posting", !.triesLeft = subs[t.sub].triesLeft]
<1>1. /\ u \in HandshakeTask /\ u.sub = t.sub
      /\ u.pc = "posting" /\ u.triesLeft = subs[t.sub].triesLeft
    BY TaskType DEF HandshakeTask, HandshakeLedger, SendHandshake
<1> HIDE DEF u
<1>2. CASE t.sub \in expired
    BY <1>2 DEF SendHandshake, EndTask, SubTypeOK, HandshakeSingleFlight, HandshakeLedger,
       HandshakeBudget, ActiveOnlyIfConfirmed, PendingIsInactive, Pending
<1>3. CASE t.sub \notin expired
  <2>1. StepTask(t, u) /\ UNCHANGED <<subs, expired, hsTimeouts, hsRegistry, started, confirmed, faults>>
    BY <1>3 DEF SendHandshake, u
  <2>2. SubTypeOK'
    BY <1>1, <2>1 DEF SubTypeOK, StepTask
  <2>3. HandshakeSingleFlight' /\ HandshakeLedger' /\ \A s \in Subs : Pending(s)' <=> Pending(s)
    BY <1>1, <2>1, <2>2, StepTaskInv
  <2> QED
    BY <2>1, <2>2, <2>3 DEF HandshakeBudget, ActiveOnlyIfConfirmed, PendingIsInactive
<1> QED BY <1>2, <1>3

\* The task ends.
LEMMA SendHandshakeLostInv ==
    ASSUME HandshakeInv, NEW t \in handshakes, SendHandshakeLost(t)
    PROVE  HandshakeInv'
<1> USE DEF SendHandshakeLost, EndTask, StepTask, Fault, HandshakeInv, SubTypeOK, Created
<1>1. SubTypeOK'
    BY DEF Subscription, SubscriptionStatus, HandshakeTask, HandshakeLedger
<1>2. HandshakeSingleFlight'
    BY DEF HandshakeSingleFlight, HandshakeLedger, Pending, HandshakeTask
<1>3. HandshakeLedger'
    BY DEF HandshakeSingleFlight, HandshakeLedger, Pending, HandshakeTask, Subscription
<1>4. HandshakeBudget'
    BY DEF HandshakeBudget, HandshakeLedger, PendingIsInactive, Pending, Subscription, HandshakeTask
<1>5. ActiveOnlyIfConfirmed'
    BY DEF ActiveOnlyIfConfirmed, HandshakeLedger, PendingIsInactive, Pending, Subscription, HandshakeTask
<1>6. PendingIsInactive'
    BY DEF PendingIsInactive, ActiveOnlyIfConfirmed, HandshakeSingleFlight, HandshakeLedger, Pending, Subscription, HandshakeTask
<1> QED BY <1>1, <1>2, <1>3, <1>4, <1>5, <1>6

\* The answer activates an Inactive row, unless a call has failed before.
LEMMA HandshakeAcceptedInv ==
    ASSUME HandshakeInv, NEW t \in handshakes, HandshakeAccepted(t)
    PROVE  HandshakeInv'
<1> USE DEF HandshakeAccepted, EndTask, StepTask, HandshakeInv, SubTypeOK, Created
<1>1. SubTypeOK'
    BY DEF Subscription, SubscriptionStatus, HandshakeTask, HandshakeLedger
<1>2. HandshakeSingleFlight'
    BY DEF HandshakeSingleFlight, HandshakeLedger, Pending, HandshakeTask
<1>3. HandshakeLedger'
    BY DEF HandshakeSingleFlight, HandshakeLedger, Pending, HandshakeTask, Subscription
<1>4. HandshakeBudget'
    BY DEF HandshakeBudget, HandshakeLedger, PendingIsInactive, Pending, Subscription, HandshakeTask
<1>5. ActiveOnlyIfConfirmed'
    BY DEF ActiveOnlyIfConfirmed, HandshakeLedger, PendingIsInactive, Pending, Subscription, HandshakeTask
<1>6. PendingIsInactive'
    BY DEF PendingIsInactive, ActiveOnlyIfConfirmed, HandshakeSingleFlight, HandshakeLedger, Pending, Subscription, HandshakeTask
<1> QED BY <1>1, <1>2, <1>3, <1>4, <1>5, <1>6

\* The answer is treated like a refusal.
LEMMA HandshakeAcceptedFailsInv ==
    ASSUME HandshakeInv, NEW t \in handshakes, HandshakeAcceptedFails(t)
    PROVE  HandshakeInv'
<1> USE DEF HandshakeInv, Created
<1> DEFINE u == [t EXCEPT !.pc = "retrying", !.triesLeft = @ - 1]
<1>1. /\ u \in HandshakeTask /\ u.sub = t.sub
      /\ u.pc = "retrying" /\ u.triesLeft = t.triesLeft - 1
  <2>1. t.triesLeft - 1 \in Nat
    BY TaskType DEF HandshakeLedger, HandshakeAcceptedFails
  <2> QED
    BY <2>1, TaskType DEF HandshakeTask
<1>2. StepTask(t, u) /\ t.pc = "posting" /\ confirmed' = confirmed \cup {t.sub}
      /\ UNCHANGED <<expired, hsTimeouts, hsRegistry, started>> /\ faults' = faults + 1
    BY DEF HandshakeAcceptedFails, Fault
<1> HIDE DEF u
<1>3. /\ subs' \in [Subs -> Subscription]
      /\ \A s \in Subs : /\ subs'[s].triesLeft = subs[s].triesLeft
                         /\ subs'[s].status # subs[s].status => s = t.sub /\ subs'[s].status = "active"
                         /\ Created(s) <=> Created(s)'
  <2>1. Created(t.sub)
    BY TaskType DEF HandshakeLedger, Pending
  <2> QED
    BY <2>1, TaskType DEF HandshakeAcceptedFails, SubTypeOK, Subscription, SubscriptionStatus
<1>4. SubTypeOK'
    BY <1>1, <1>2, <1>3, TaskType DEF SubTypeOK, StepTask
<1>5. HandshakeSingleFlight' /\ HandshakeLedger' /\ \A s \in Subs : Pending(s)' <=> Pending(s)
  <2>1. u.triesLeft = subs[t.sub].triesLeft - 1
    BY <1>1, <1>2 DEF HandshakeLedger
  <2> QED
    BY <1>1, <1>2, <1>3, <1>4, <2>1, StepTaskInv
<1>6. faults' # 0
    BY <1>2 DEF SubTypeOK
<1> QED
    BY <1>2, <1>3, <1>4, <1>5, <1>6 DEF HandshakeBudget, HandshakeLedger, ActiveOnlyIfConfirmed, PendingIsInactive

\* One try less.
LEMMA HandshakeRefusedInv ==
    ASSUME HandshakeInv, NEW t \in handshakes, HandshakeRefused(t)
    PROVE  HandshakeInv'
<1> USE DEF HandshakeInv, Created
<1> DEFINE u == [t EXCEPT !.pc = "retrying", !.triesLeft = @ - 1]
<1>1. /\ u \in HandshakeTask /\ u.sub = t.sub
      /\ u.pc = "retrying" /\ u.triesLeft = t.triesLeft - 1
  <2>1. t.triesLeft - 1 \in Nat
    BY TaskType DEF HandshakeLedger, HandshakeRefused
  <2> QED
    BY <2>1, TaskType DEF HandshakeTask
<1>2. StepTask(t, u) /\ t.pc = "posting"
      /\ UNCHANGED <<subs, expired, hsTimeouts, hsRegistry, started, confirmed, faults>>
    BY DEF HandshakeRefused
<1> HIDE DEF u
<1>3. SubTypeOK'
    BY <1>1, <1>2 DEF SubTypeOK, StepTask
<1>4. HandshakeSingleFlight' /\ HandshakeLedger' /\ \A s \in Subs : Pending(s)' <=> Pending(s)
  <2>1. u.triesLeft = subs[t.sub].triesLeft - 1
    BY <1>1, <1>2 DEF HandshakeLedger
  <2> QED
    BY <1>1, <1>2, <1>3, <2>1, StepTaskInv
<1> QED
    BY <1>2, <1>3, <1>4 DEF HandshakeBudget, ActiveOnlyIfConfirmed, PendingIsInactive

\* The task turns into a timer, or rejects the row.
LEMMA RetryHandshakeInv ==
    ASSUME HandshakeInv, NEW t \in handshakes, RetryHandshake(t)
    PROVE  HandshakeInv'
<1> USE DEF HandshakeInv, Created
<1>1. /\ t.pc = "retrying" /\ t.sub \in Subs /\ Created(t.sub)
      /\ t.triesLeft = subs[t.sub].triesLeft - 1 /\ t.triesLeft \in Nat
      /\ started[t.sub] + t.triesLeft = HandshakeTries
    BY TaskType DEF RetryHandshake, HandshakeLedger, Pending, SubTypeOK
<1>2. /\ handshakes' = handshakes \ {t}
      /\ \A v \in handshakes' : v.sub # t.sub
      /\ hsTimeouts[t.sub] = 0 /\ t.sub \notin hsRegistry
    BY <1>1 DEF RetryHandshake, EndTask, HandshakeSingleFlight
<1>3. /\ subs' \in [Subs -> Subscription]
      /\ \A s \in Subs \ {t.sub} : subs'[s] = subs[s]
      /\ subs'[t.sub].triesLeft = t.triesLeft
      /\ subs'[t.sub].status = IF t.triesLeft = 0 THEN "rejected" ELSE subs[t.sub].status
    BY <1>1, ZenonT(40) DEF RetryHandshake, AfterRetry, SubTypeOK, Subscription, SubscriptionStatus
<1>4. /\ hsTimeouts' = [hsTimeouts EXCEPT ![t.sub] = IF t.triesLeft = 0 THEN 0 ELSE 1]
      /\ hsRegistry' = IF t.triesLeft = 0 THEN hsRegistry ELSE hsRegistry \cup {t.sub}
      /\ UNCHANGED <<expired, started, confirmed, faults>>
    BY <1>1, <1>2 DEF RetryHandshake, HS!AddTimeout, SubTypeOK
<1>5. SubTypeOK'
    BY <1>1, <1>2, <1>3, <1>4 DEF SubTypeOK
<1>6. HandshakeSingleFlight'
    BY <1>1, <1>2, <1>4, TaskType DEF HandshakeSingleFlight, SubTypeOK, HandshakeTask
<1>7. \A s \in Subs : Pending(s)' => Pending(s)
    BY <1>1, <1>2, <1>4 DEF Pending, SubTypeOK
<1>8. HandshakeLedger'
  <2>1. \A s \in Subs :
          /\ started'[s] <= HandshakeTries
          /\ ~Created(s)' => started'[s] = 0 /\ ~Pending(s)' /\ s \notin confirmed'
          /\ hsTimeouts'[s] > 0 =>
                subs'[s].triesLeft > 0 /\ started'[s] + subs'[s].triesLeft = HandshakeTries
    <3> SUFFICES ASSUME NEW s \in Subs
                 PROVE  /\ started[s] <= HandshakeTries
                        /\ ~Created(s)' => started[s] = 0 /\ ~Pending(s)' /\ s \notin confirmed
                        /\ hsTimeouts'[s] > 0 =>
                             subs'[s].triesLeft > 0 /\ started[s] + subs'[s].triesLeft = HandshakeTries
      BY <1>4
    <3>1. CASE s = t.sub
      <4>1. subs'[s].status # "none" /\ subs'[s].triesLeft = t.triesLeft
        BY <1>1, <1>3, <3>1
      <4>2. hsTimeouts'[s] > 0 => t.triesLeft > 0
        <5>1. hsTimeouts'[s] = IF t.triesLeft = 0 THEN 0 ELSE 1
          BY <1>1, <1>4, <3>1 DEF SubTypeOK
        <5>2. t.triesLeft \in Nat
          BY <1>1
        <5> QED
          BY <5>1, <5>2
      <4> QED
        BY <1>1, <3>1, <4>1, <4>2 DEF HandshakeLedger
    <3>2. CASE s # t.sub
      BY <1>3, <1>4, <1>7, <3>2 DEF HandshakeLedger, SubTypeOK
    <3> QED
      BY <3>1, <3>2
  <2>2. \A v \in handshakes' :
          /\ subs'[v.sub].triesLeft > 0
          /\ started'[v.sub] + subs'[v.sub].triesLeft = HandshakeTries + 1
          /\ v.pc = "posting" => v.triesLeft = subs'[v.sub].triesLeft
          /\ v.pc = "retrying" => v.triesLeft = subs'[v.sub].triesLeft - 1
    BY <1>2, <1>3, <1>4, TaskType DEF HandshakeLedger
  <2> QED
    BY <2>1, <2>2 DEF HandshakeLedger
<1>9. HandshakeBudget'
    BY <1>1, <1>3, <1>4, <1>8 DEF HandshakeBudget, HandshakeLedger, PendingIsInactive, Pending, SubTypeOK
<1>10. ActiveOnlyIfConfirmed'
    BY <1>1, <1>3, <1>4 DEF ActiveOnlyIfConfirmed, PendingIsInactive, Pending
<1>11. PendingIsInactive'
    BY <1>1, <1>2, <1>3, <1>4, <1>7 DEF PendingIsInactive, Pending, SubTypeOK
<1> QED
    BY <1>5, <1>6, <1>8, <1>9, <1>10, <1>11

\* The task ends, whatever was written.
LEMMA RetryHandshakeFailsInv ==
    ASSUME HandshakeInv, NEW t \in handshakes, RetryHandshakeFails(t)
    PROVE  HandshakeInv'
<1> USE DEF HandshakeInv, Created
<1>1. /\ t.sub \in Subs /\ Created(t.sub)
      /\ t.triesLeft \in Nat /\ faults' = faults + 1 /\ faults' # 0
      /\ UNCHANGED <<expired, hsTimeouts, hsRegistry, started, confirmed>>
    BY TaskType DEF RetryHandshakeFails, Fault, HandshakeLedger, Pending, SubTypeOK
<1>2. /\ handshakes' = handshakes \ {t}
      /\ \A v \in handshakes' : v.sub # t.sub
      /\ hsTimeouts[t.sub] = 0
    BY <1>1 DEF RetryHandshakeFails, EndTask, HandshakeSingleFlight
<1>3. /\ subs' \in [Subs -> Subscription]
      /\ \A s \in Subs \ {t.sub} : subs'[s] = subs[s]
      /\ subs'[t.sub].status \in {"rejected", subs[t.sub].status}
  <2>1. CASE UNCHANGED subs
    BY <1>1, <2>1 DEF SubTypeOK
  <2>2. CASE subs' = [subs EXCEPT ![t.sub] = AfterRetry(@, t.triesLeft)]
    BY <1>1, <2>2 DEF AfterRetry, SubTypeOK, Subscription, SubscriptionStatus
  <2> QED
    BY <2>1, <2>2 DEF RetryHandshakeFails
<1>4. SubTypeOK'
    BY <1>1, <1>2, <1>3 DEF SubTypeOK
<1>5. HandshakeSingleFlight' /\ \A s \in Subs : Pending(s)' => Pending(s) /\ s # t.sub
    BY <1>1, <1>2 DEF HandshakeSingleFlight, Pending
<1>6. HandshakeLedger'
    BY <1>1, <1>2, <1>3, <1>5, TaskType DEF HandshakeLedger
<1> QED
    BY <1>1, <1>3, <1>4, <1>5, <1>6 DEF HandshakeBudget, HandshakeLedger, ActiveOnlyIfConfirmed, PendingIsInactive

\* Every step of the service preserves the invariant.
LEMMA HandshakeStepInv ==
    ASSUME HandshakeInv, NEW t \in handshakes, HandshakeStep(t) \/ HandshakeFault(t)
    PROVE  HandshakeInv'
BY SendHandshakeInv, SendHandshakeLostInv, HandshakeAcceptedInv, HandshakeAcceptedFailsInv,
   HandshakeRefusedInv, RetryHandshakeInv, RetryHandshakeFailsInv
   DEF HandshakeStep, HandshakeFault

LEMMA HandshakeInvNext == HandshakeInv /\ [SubNext]_subVars => HandshakeInv'
<1> SUFFICES ASSUME HandshakeInv, [SubNext]_subVars PROVE HandshakeInv'
    OBVIOUS
<1>1. CASE UNCHANGED subVars
    BY <1>1 DEF subVars, HandshakeInv, SubTypeOK, HandshakeSingleFlight, HandshakeLedger,
       HandshakeBudget, ActiveOnlyIfConfirmed, PendingIsInactive, Pending, Created
<1>2. ASSUME NEW s \in Subs, Environment(s) PROVE HandshakeInv'
  <2>1. ASSUME NEW x \in Scopes, CreateSubscription(s, x) \/ CreateSubscriptionFails(s, x)
        PROVE  HandshakeInv'
    BY <2>1, CreateSubscriptionInv, CreateSubscriptionFailsInv
  <2>2. CASE /\ subs[s].status \in {"active", "done"}
             /\ IncrementNonces({s}) \/ MarkAsDone(s)
             /\ UNCHANGED faults
    <3>1. s \in confirmed /\ faults' \in Nat /\ faults' >= faults
      BY <2>2 DEF HandshakeInv, SubTypeOK, ActiveOnlyIfConfirmed
    <3> QED
      BY <2>2, <3>1, IncrementNoncesInv, MarkAsDoneInv
  <2>3. CASE Expire(s)
    BY <2>3, ExpireInv
  <2> QED
    BY <1>2, <2>1, <2>2, <2>3 DEF Environment
<1>3. ASSUME NEW s \in Subs, HandshakeTimeout(s) PROVE HandshakeInv'
    BY <1>3, HandshakeTimeoutInv
<1>4. ASSUME NEW t \in handshakes, HandshakeStep(t) \/ HandshakeFault(t) PROVE HandshakeInv'
    BY <1>4, HandshakeStepInv
<1> QED
    BY <1>1, <1>2, <1>3, <1>4 DEF SubNext

\* The handshake of a subscription is never in progress twice, addTimeout never
\* throws and no timer loses its callback: for any number of subscriptions and
\* tries, and whatever repository calls fail.
THEOREM HandshakeSingleFlightHolds == SubSpec => []HandshakeSingleFlight
<1>1. HandshakeInv => HandshakeSingleFlight
    BY DEF HandshakeInv
<1> QED
    BY <1>1, HandshakeInvInit, HandshakeInvNext, PTL DEF SubSpec

\* A URL is sent at most HandshakeTries handshakes, and a subscription is
\* Rejected exactly when they are used up.
THEOREM HandshakeBudgetHolds == SubSpec => []HandshakeBudget
<1>1. HandshakeInv => HandshakeBudget
    BY DEF HandshakeInv
<1> QED
    BY <1>1, HandshakeInvInit, HandshakeInvNext, PTL DEF SubSpec

\* Only a URL that has returned the secret is Active or Done.
THEOREM ActiveOnlyIfConfirmedHolds == SubSpec => []ActiveOnlyIfConfirmed
<1>1. HandshakeInv => ActiveOnlyIfConfirmed
    BY DEF HandshakeInv
<1> QED
    BY <1>1, HandshakeInvInit, HandshakeInvNext, PTL DEF SubSpec

\* Without repository failures no step of the service moves a row backwards: the
\* one task of a row only writes while the row is Inactive.
LEMMA HandshakeForward ==
    ASSUME HandshakeInv, SubNext, faults' = 0, NEW s \in Subs
    PROVE  Forward(s)
<1> USE DEF HandshakeInv, SubTypeOK, Forward, Created
<1>0. faults = 0 /\ ~Fault
  <2>1. UNCHANGED faults \/ Fault
    BY DEF SubNext, Environment, CreateSubscription, CreateSubscriptionFails, Expire, HandshakeTimeout,
       HandshakeStep, SendHandshake, HandshakeAccepted, HandshakeRefused, RetryHandshake,
       HandshakeFault, SendHandshakeLost, HandshakeAcceptedFails, RetryHandshakeFails
  <2> QED
    BY <2>1 DEF Fault
<1>1. ASSUME NEW r \in Subs, Environment(r) PROVE Forward(s)
  <2>1. ASSUME NEW x \in Scopes, CreateSubscription(r, x) PROVE Forward(s)
    BY <2>1 DEF CreateSubscription, NewSubscription, Subscription
  <2>2. CASE subs[r].status \in {"active", "done"} /\ IncrementNonces({r})
    BY <2>2 DEF IncrementNonces, Subscription
  <2>3. CASE subs[r].status \in {"active", "done"} /\ MarkAsDone(r)
    BY <2>3 DEF MarkAsDone, Subscription
  <2>4. CASE Expire(r)
    BY <2>4 DEF Expire, Subscription
  <2> QED
    BY <1>0, <1>1, <2>1, <2>2, <2>3, <2>4 DEF Environment, CreateSubscriptionFails
<1>2. ASSUME NEW r \in Subs, HandshakeTimeout(r) PROVE Forward(s)
    BY <1>2 DEF HandshakeTimeout, Subscription
<1>3. ASSUME NEW t \in handshakes, HandshakeStep(t) PROVE Forward(s)
  <2>1. t.sub \in Subs /\ subs[t.sub].status = "inactive"
    BY <1>0, TaskType DEF PendingIsInactive, Pending
  <2>2. CASE HandshakeAccepted(t)
    BY <2>1, <2>2 DEF HandshakeAccepted, Subscription
  <2>3. CASE RetryHandshake(t)
    <3>1. t.triesLeft \in Nat /\ subs[t.sub].triesLeft \in Nat
      BY TaskType
    <3>2. t.triesLeft <= subs[t.sub].triesLeft
      BY <2>3, <3>1 DEF RetryHandshake, HandshakeLedger
    <3> QED
      BY <2>1, <2>3, <3>1, <3>2 DEF RetryHandshake, AfterRetry, Subscription
  <2>4. CASE SendHandshake(t) \/ HandshakeRefused(t)
    BY <2>4 DEF SendHandshake, HandshakeRefused, Subscription
  <2> QED
    BY <1>3, <2>2, <2>3, <2>4 DEF HandshakeStep
<1>4. ASSUME NEW t \in handshakes, HandshakeFault(t) PROVE FALSE
    BY <1>0, <1>4 DEF HandshakeFault, SendHandshakeLost, HandshakeAcceptedFails, RetryHandshakeFails
<1> QED
    BY <1>1, <1>2, <1>3, <1>4 DEF SubNext

\* A late answer or retry never revives or rejects a subscription that was
\* activated or finished meanwhile, as long as repository calls succeed.
THEOREM StatusMovesForwardHolds == SubSpec => StatusMovesForward
<1>1. HandshakeInv /\ [SubNext]_subVars => [\A s \in Subs : faults' = 0 => Forward(s)]_subVars
    BY HandshakeForward
<1> QED
    BY <1>1, HandshakeInvInit, HandshakeInvNext, PTL DEF SubSpec, StatusMovesForward

-----------------------------------------------------------------------------
(* The handshakes implement Retries.  A step concerns one subscription, so *)
(* it is enough to follow the phase and the verdict of that one.           *)

\* The phase of s alone goes from one value to another.
PhaseGoes(s, from, to) ==
    /\ HandshakePhase(s) = from
    /\ HandshakePhase(s)' = to
    /\ \A r \in Subs \ {s} : HandshakePhase(r)' = HandshakePhase(r)

\* So does the verdict.
VerdictOnly(s) == \A r \in Subs \ {s} : HandshakeVerdict(r)' = HandshakeVerdict(r)

SamePhases == \A r \in Subs : HandshakePhase(r)' = HandshakePhase(r)
SameVerdicts == \A r \in Subs : HandshakeVerdict(r)' = HandshakeVerdict(r)

LEMMA PhaseGoesChain ==
    ASSUME NEW s \in Subs, NEW from, NEW to, PhaseGoes(s, from, to)
    PROVE  HandshakeChain!Goes(s, from, to)
BY DEF PhaseGoes, HandshakeChain!Goes

LEMMA SameVerdictsChain ==
    ASSUME SameVerdicts
    PROVE  [s \in Subs |-> HandshakeVerdict(s)]' = [s \in Subs |-> HandshakeVerdict(s)]
BY DEF SameVerdicts

LEMMA SamePhasesChain ==
    ASSUME SamePhases
    PROVE  [s \in Subs |-> HandshakePhase(s)]' = [s \in Subs |-> HandshakePhase(s)]
BY DEF SamePhases

LEMMA VerdictOnlyChain ==
    ASSUME NEW s \in Subs, NEW v, VerdictOnly(s), HandshakeVerdict(s)' = v
    PROVE  HandshakeChain!Records(s, v)
BY DEF VerdictOnly, HandshakeChain!Records

\* The five ways in which a step of the service is one of Retries.
LEMMA SchedulesAJob ==
    ASSUME NEW s \in Subs, PhaseGoes(s, "none", "waiting"), UNCHANGED started, SameVerdicts
    PROVE  HandshakeMoves
BY PhaseGoesChain, SameVerdictsChain
   DEF HandshakeMoves, HandshakeChain!Next, HandshakeChain!Schedule

LEMMA TriesAJob ==
    ASSUME NEW s \in Subs, PhaseGoes(s, "waiting", "trying"), SameVerdicts,
           started' = [started EXCEPT ![s] = @ + 1]
    PROVE  HandshakeMoves
BY PhaseGoesChain, SameVerdictsChain
   DEF HandshakeMoves, HandshakeChain!Next, HandshakeChain!Try

LEMMA RetriesAJob ==
    ASSUME NEW s \in Subs, PhaseGoes(s, "trying", "waiting"), UNCHANGED started, SameVerdicts,
           started[s] < HandshakeTries
    PROVE  HandshakeMoves
BY PhaseGoesChain, SameVerdictsChain
   DEF HandshakeMoves, HandshakeChain!Next, HandshakeChain!Retry

LEMMA EndsAJob ==
    ASSUME NEW s \in Subs, PhaseGoes(s, "trying", "over"), UNCHANGED started, VerdictOnly(s),
           \/ HandshakeVerdict(s)' = "succeeded"
           \/ HandshakeVerdict(s)' = "exhausted" /\ started[s] = HandshakeTries
           \/ HandshakeVerdict(s)' = HandshakeVerdict(s)
    PROVE  HandshakeMoves
<1>1. HandshakeChain!End(s)
    BY PhaseGoesChain DEF HandshakeChain!End
<1>2. CASE HandshakeVerdict(s)' = "succeeded"
  <2>1. HandshakeChain!Records(s, "succeeded")
    BY <1>2, VerdictOnlyChain
  <2> QED
    BY <1>1, <2>1 DEF HandshakeMoves, HandshakeChain!Next, HandshakeChain!Decide
<1>3. CASE HandshakeVerdict(s)' = "exhausted" /\ started[s] = HandshakeTries
  <2>1. HandshakeChain!Records(s, "exhausted")
    BY <1>3, VerdictOnlyChain
  <2> QED
    BY <1>1, <1>3, <2>1 DEF HandshakeMoves, HandshakeChain!Next, HandshakeChain!Decide
<1>4. CASE HandshakeVerdict(s)' = HandshakeVerdict(s)
  <2>1. SameVerdicts
    BY <1>4 DEF SameVerdicts, VerdictOnly
  <2> QED
    BY <1>1, <2>1, SameVerdictsChain DEF HandshakeMoves, HandshakeChain!Next, HandshakeChain!Decide
<1> QED
    BY <1>2, <1>3, <1>4

\* After a failed query only the attempts count.
LEMMA MovesAfterFault ==
    ASSUME faults' > 0, UNCHANGED started, NEW s \in Subs,
           SamePhases \/ PhaseGoes(s, "trying", "over") \/ PhaseGoes(s, "none", "over")
    PROVE  HandshakeMoves
<1>1. CASE SamePhases
    BY <1>1, SamePhasesChain DEF HandshakeMoves, HandshakeChain!MoveOrRest
<1>2. CASE PhaseGoes(s, "trying", "over")
    BY <1>2, PhaseGoesChain
       DEF HandshakeMoves, HandshakeChain!MoveOrRest, HandshakeChain!Move, HandshakeChain!End
<1>3. CASE PhaseGoes(s, "none", "over")
    BY <1>3, PhaseGoesChain
       DEF HandshakeMoves, HandshakeChain!MoveOrRest, HandshakeChain!Move, HandshakeChain!Miss
<1> QED
    BY <1>1, <1>2, <1>3

LEMMA RestsInChain ==
    ASSUME SamePhases, SameVerdicts, UNCHANGED started
    PROVE  UNCHANGED HandshakeChain!vars
BY SamePhasesChain, SameVerdictsChain DEF HandshakeChain!vars

\* A row that has a task is in its phase "trying".
LEMMA TaskIsTrying ==
    ASSUME HandshakeInv, NEW t \in handshakes
    PROVE  HandshakePhase(t.sub) = "trying" /\ t.sub \in Subs /\ Created(t.sub)
BY TaskType DEF HandshakeInv, HandshakeSingleFlight, HandshakeLedger, Pending, HandshakePhase

\* The last task of a row ends its chain when no timer is armed.
LEMMA EndTaskPhase ==
    ASSUME HandshakeInv, NEW t \in handshakes, EndTask(t), UNCHANGED hsTimeouts,
           \A r \in Subs : Created(r)' <=> Created(r)
    PROVE  PhaseGoes(t.sub, "trying", "over")
<1> USE DEF HandshakePhase
<1>1. HandshakePhase(t.sub) = "trying" /\ t.sub \in Subs /\ Created(t.sub) /\ ~(hsTimeouts[t.sub] > 0)
    BY TaskIsTrying
<1>2. \A u \in handshakes' : u \in handshakes /\ u.sub # t.sub
    BY DEF EndTask, HandshakeInv, HandshakeSingleFlight
<1>3. \A u \in handshakes : u.sub # t.sub => u \in handshakes'
    BY DEF EndTask
<1>4. HandshakePhase(t.sub)' = "over"
    BY <1>1, <1>2
<1>5. ASSUME NEW r \in Subs \ {t.sub} PROVE HandshakePhase(r)' = HandshakePhase(r)
    BY <1>2, <1>3
<1> QED
    BY <1>1, <1>4, <1>5 DEF PhaseGoes

\* A task that goes on leaves every phase alone.
LEMMA StepTaskPhase ==
    ASSUME HandshakeInv, NEW t \in handshakes, NEW u, u.sub = t.sub, StepTask(t, u),
           UNCHANGED hsTimeouts, \A r \in Subs : Created(r)' <=> Created(r)
    PROVE  SamePhases
<1>1. \A r \in Subs : (\E v \in handshakes' : v.sub = r) <=> (\E v \in handshakes : v.sub = r)
    BY DEF StepTask
<1> QED
    BY <1>1 DEF SamePhases, HandshakePhase

LEMMA CreateSubscriptionChain ==
    ASSUME HandshakeInv, NEW s \in Subs, NEW x \in Scopes, CreateSubscription(s, x)
    PROVE  HandshakeMoves
<1>1. /\ subs'[s].status = "inactive" /\ subs[s].status = "none"
      /\ hsTimeouts'[s] > 0
      /\ \A r \in Subs \ {s} : subs'[r] = subs[r] /\ hsTimeouts'[r] = hsTimeouts[r]
      /\ UNCHANGED <<handshakes, started>>
    BY DEF CreateSubscription, NewSubscription, Created, HS!AddTimeout, HandshakeInv, SubTypeOK
<1>2. PhaseGoes(s, "none", "waiting")
    BY <1>1 DEF PhaseGoes, HandshakePhase, Created
<1>3. SameVerdicts
    BY <1>1 DEF SameVerdicts, HandshakeVerdict
<1> QED
    BY <1>1, <1>2, <1>3, SchedulesAJob

LEMMA CreateSubscriptionFailsChain ==
    ASSUME HandshakeInv, NEW s \in Subs, NEW x \in Scopes, CreateSubscriptionFails(s, x)
    PROVE  HandshakeMoves
<1>1. faults' > 0 /\ UNCHANGED <<handshakes, hsTimeouts, started>>
    BY DEF CreateSubscriptionFails, Fault, HandshakeInv, SubTypeOK
<1>2. CASE UNCHANGED subs
  <2>1. SamePhases
    BY <1>1, <1>2 DEF SamePhases, HandshakePhase, Created
  <2> QED
    BY <1>1, <2>1, MovesAfterFault
<1>3. CASE subs' = [subs EXCEPT ![s] = NewSubscription(x)]
  <2>1. /\ subs'[s].status = "inactive" /\ subs[s].status = "none"
        /\ \A r \in Subs \ {s} : subs'[r] = subs[r]
        /\ ~(hsTimeouts[s] > 0) /\ ~\E t \in handshakes : t.sub = s
    BY <1>3 DEF CreateSubscriptionFails, NewSubscription, Created, HandshakeInv, SubTypeOK,
       HandshakeLedger, Pending
  <2>2. PhaseGoes(s, "none", "over")
    BY <1>1, <2>1 DEF PhaseGoes, HandshakePhase, Created
  <2> QED
    BY <1>1, <2>2, MovesAfterFault
<1> QED
    BY <1>2, <1>3 DEF CreateSubscriptionFails

LEMMA HandshakeTimeoutChain ==
    ASSUME HandshakeInv, NEW s \in Subs, HandshakeTimeout(s)
    PROVE  HandshakeMoves
<1> DEFINE u == [sub |-> s, no |-> started[s] + 1, pc |-> "reading", triesLeft |-> 0]
<1>1. s \in hsRegistry /\ hsTimeouts[s] = 1 /\ Created(s)
    BY DEF HandshakeTimeout, HS!TimeoutFires, HandshakeInv, SubTypeOK, HandshakeSingleFlight,
       HandshakeLedger, Pending
<1>2. /\ handshakes' = handshakes \cup {u}
      /\ started' = [started EXCEPT ![s] = @ + 1]
      /\ hsTimeouts' = [hsTimeouts EXCEPT ![s] = 0]
      /\ UNCHANGED subs
    BY <1>1 DEF HandshakeTimeout, HS!TimeoutFires, HS!CallbackRuns, HandshakeInv, SubTypeOK
<1>3. u.sub = s
    OBVIOUS
<1> HIDE DEF u
<1>4. \A r \in Subs \ {s} : (\E v \in handshakes' : v.sub = r) <=> (\E v \in handshakes : v.sub = r)
    BY <1>2, <1>3
<1>5. PhaseGoes(s, "waiting", "trying")
  <2>1. HandshakePhase(s) = "waiting"
    BY <1>1 DEF HandshakePhase
  <2>2. HandshakePhase(s)' = "trying"
    <3>1. hsTimeouts'[s] = 0 /\ \E v \in handshakes' : v.sub = s
      BY <1>2, <1>3 DEF HandshakeInv, SubTypeOK
    <3> QED
      BY <1>1, <1>2, <3>1 DEF HandshakePhase, Created
  <2>3. ASSUME NEW r \in Subs \ {s} PROVE HandshakePhase(r)' = HandshakePhase(r)
    <3>1. hsTimeouts'[r] = hsTimeouts[r] /\ (Created(r)' <=> Created(r))
      BY <1>2 DEF HandshakeInv, SubTypeOK, Created
    <3> QED
      BY <1>4, <3>1 DEF HandshakePhase
  <2> QED
    BY <2>1, <2>2, <2>3 DEF PhaseGoes
<1>6. SameVerdicts
    BY <1>2 DEF SameVerdicts, HandshakeVerdict
<1> QED
    BY <1>2, <1>5, <1>6, TriesAJob

LEMMA SendHandshakeChain ==
    ASSUME HandshakeInv, NEW t \in handshakes, SendHandshake(t) \/ HandshakeRefused(t)
    PROVE  [HandshakeMoves]_(HandshakeChain!vars)
<1>1. UNCHANGED <<subs, hsTimeouts, started>> /\ t.sub \in Subs
    BY TaskIsTrying DEF SendHandshake, HandshakeRefused
<1>2. SameVerdicts /\ \A r \in Subs : Created(r)' <=> Created(r)
    BY <1>1 DEF SameVerdicts, HandshakeVerdict, Created
<1>3. CASE EndTask(t)
  <2>1. PhaseGoes(t.sub, "trying", "over")
    BY <1>1, <1>2, <1>3, EndTaskPhase
  <2> QED
    BY <1>1, <1>2, <2>1, EndsAJob DEF SameVerdicts, VerdictOnly
<1>4. ASSUME NEW u, u.sub = t.sub, StepTask(t, u) PROVE UNCHANGED HandshakeChain!vars
  <2>1. SamePhases
    BY <1>1, <1>2, <1>4, StepTaskPhase
  <2> QED
    BY <1>1, <1>2, <2>1, RestsInChain
<1>5. t \in HandshakeTask
    BY TaskType DEF HandshakeInv
<1>6. CASE SendHandshake(t)
  <2> DEFINE u == [t EXCEPT !.pc = "posting", !.triesLeft = subs[t.sub].triesLeft]
  <2>1. u.sub = t.sub
    BY <1>5 DEF HandshakeTask
  <2>2. EndTask(t) \/ StepTask(t, u)
    BY <1>6 DEF SendHandshake
  <2> HIDE DEF u
  <2> QED
    BY <1>3, <1>4, <2>1, <2>2
<1>7. CASE HandshakeRefused(t)
  <2> DEFINE u == [t EXCEPT !.pc = "retrying", !.triesLeft = @ - 1]
  <2>1. u.sub = t.sub
    BY <1>5 DEF HandshakeTask
  <2>2. StepTask(t, u)
    BY <1>7 DEF HandshakeRefused
  <2> HIDE DEF u
  <2> QED
    BY <1>4, <2>1, <2>2
<1> QED
    BY <1>6, <1>7

LEMMA HandshakeAcceptedChain ==
    ASSUME HandshakeInv, NEW t \in handshakes, HandshakeAccepted(t)
    PROVE  HandshakeMoves
<1>1. /\ EndTask(t) /\ t.sub \in Subs /\ UNCHANGED <<hsTimeouts, started>>
      /\ subs'[t.sub].status = "active" /\ \A r \in Subs \ {t.sub} : subs'[r] = subs[r]
    BY TaskIsTrying DEF HandshakeAccepted, HandshakeInv, SubTypeOK, Subscription
<1>2. \A r \in Subs : Created(r)' <=> Created(r)
    BY <1>1, TaskIsTrying DEF Created
<1>3. HandshakeVerdict(t.sub)' = "succeeded" /\ VerdictOnly(t.sub)
    BY <1>1 DEF HandshakeVerdict, VerdictOnly
<1>4. PhaseGoes(t.sub, "trying", "over")
    BY <1>1, <1>2, EndTaskPhase
<1> QED
    BY <1>1, <1>3, <1>4, EndsAJob

LEMMA RetryHandshakeChain ==
    ASSUME HandshakeInv, NEW t \in handshakes, RetryHandshake(t)
    PROVE  HandshakeMoves
<1>1. /\ t.sub \in Subs /\ Created(t.sub) /\ HandshakePhase(t.sub) = "trying"
      /\ t.triesLeft \in Nat /\ started[t.sub] \in Nat
      /\ started[t.sub] + t.triesLeft = HandshakeTries
    BY TaskIsTrying, TaskType DEF RetryHandshake, HandshakeInv, HandshakeLedger, SubTypeOK
<1>2. /\ \A s \in Subs \ {t.sub} : subs'[s] = subs[s]
      /\ subs'[t.sub].status = IF t.triesLeft = 0 THEN "rejected" ELSE subs[t.sub].status
      /\ EndTask(t) /\ UNCHANGED started
    BY <1>1, ZenonT(40) DEF RetryHandshake, AfterRetry, HandshakeInv, SubTypeOK, Subscription, SubscriptionStatus
<1>3. VerdictOnly(t.sub)
    BY <1>2 DEF VerdictOnly, HandshakeVerdict
<1>4. \A r \in Subs : Created(r)' <=> Created(r)
    BY <1>1, <1>2 DEF Created
<1>5. CASE t.triesLeft = 0
  <2>1. HandshakeVerdict(t.sub)' = "exhausted" /\ started[t.sub] = HandshakeTries
    BY <1>1, <1>2, <1>5 DEF HandshakeVerdict
  <2>2. UNCHANGED hsTimeouts
    BY <1>5 DEF RetryHandshake
  <2>3. PhaseGoes(t.sub, "trying", "over")
    BY <1>2, <1>4, <2>2, EndTaskPhase
  <2> QED
    BY <1>1, <1>2, <1>3, <2>1, <2>3, EndsAJob
<1>6. CASE t.triesLeft # 0
  <2>1. started[t.sub] < HandshakeTries
    BY <1>1, <1>6
  <2>2. SameVerdicts
    BY <1>2, <1>3, <1>6 DEF SameVerdicts, VerdictOnly, HandshakeVerdict
  <2>3. hsTimeouts'[t.sub] > 0 /\ \A r \in Subs \ {t.sub} : hsTimeouts'[r] = hsTimeouts[r]
    BY <1>1, <1>6 DEF RetryHandshake, HS!AddTimeout, HandshakeInv, SubTypeOK
  <2>4. \A r \in Subs \ {t.sub} :
          (\E u \in handshakes' : u.sub = r) <=> (\E u \in handshakes : u.sub = r)
    BY <1>2 DEF EndTask
  <2>5. HandshakePhase(t.sub)' = "waiting"
    BY <1>1, <1>4, <2>3 DEF HandshakePhase
  <2>6. ASSUME NEW r \in Subs \ {t.sub} PROVE HandshakePhase(r)' = HandshakePhase(r)
    BY <1>4, <2>3, <2>4 DEF HandshakePhase
  <2>7. PhaseGoes(t.sub, "trying", "waiting")
    BY <1>1, <2>5, <2>6 DEF PhaseGoes
  <2> QED
    BY <1>1, <1>2, <2>1, <2>2, <2>7, RetriesAJob
<1> QED
    BY <1>5, <1>6

LEMMA HandshakeFaultChain ==
    ASSUME HandshakeInv, NEW t \in handshakes, HandshakeFault(t)
    PROVE  HandshakeMoves
<1>1. faults' > 0 /\ UNCHANGED <<hsTimeouts, started>>
    BY DEF HandshakeFault, SendHandshakeLost, HandshakeAcceptedFails, RetryHandshakeFails, Fault,
       HandshakeInv, SubTypeOK
<1>2. t.sub \in Subs /\ Created(t.sub) /\ t \in HandshakeTask /\ subs \in [Subs -> Subscription]
    BY TaskIsTrying, TaskType DEF HandshakeInv, SubTypeOK
<1>3. ASSUME UNCHANGED subs \/ subs' = [subs EXCEPT ![t.sub].status = "active"]
               \/ subs' = [subs EXCEPT ![t.sub] = AfterRetry(@, t.triesLeft)]
      PROVE  \A r \in Subs : Created(r)' <=> Created(r)
    BY <1>2, <1>3 DEF Created, AfterRetry, Subscription
<1>4. CASE EndTask(t) /\ (SendHandshakeLost(t) \/ RetryHandshakeFails(t))
  <2>1. PhaseGoes(t.sub, "trying", "over")
    BY <1>1, <1>3, <1>4, EndTaskPhase DEF SendHandshakeLost, RetryHandshakeFails
  <2> QED
    BY <1>1, <1>2, <2>1, MovesAfterFault
<1>5. CASE HandshakeAcceptedFails(t)
  <2> DEFINE u == [t EXCEPT !.pc = "retrying", !.triesLeft = @ - 1]
  <2>1. u.sub = t.sub
    BY <1>2 DEF HandshakeTask
  <2>2. StepTask(t, u)
    BY <1>5 DEF HandshakeAcceptedFails
  <2> HIDE DEF u
  <2>3. SamePhases
    BY <1>1, <1>3, <1>5, <2>1, <2>2, StepTaskPhase DEF HandshakeAcceptedFails
  <2> QED
    BY <1>1, <1>2, <2>3, MovesAfterFault
<1> QED
    BY <1>4, <1>5 DEF HandshakeFault, SendHandshakeLost, RetryHandshakeFails

LEMMA HandshakeStepChain ==
    ASSUME HandshakeInv, NEW t \in handshakes, HandshakeStep(t) \/ HandshakeFault(t)
    PROVE  [HandshakeMoves]_(HandshakeChain!vars)
BY SendHandshakeChain, HandshakeAcceptedChain, RetryHandshakeChain, HandshakeFaultChain
   DEF HandshakeStep

\* A step that leaves rows, timers, tasks and calls alone, apart from nonces.
LEMMA OtherFieldsChain ==
    ASSUME UNCHANGED <<handshakes, hsTimeouts, started>>,
           \A r \in Subs : subs'[r].status = subs[r].status
    PROVE  UNCHANGED HandshakeChain!vars
BY RestsInChain DEF SamePhases, SameVerdicts, HandshakePhase, HandshakeVerdict, Created

LEMMA MarkAsDoneChain ==
    ASSUME HandshakeInv, NEW s \in Subs, subs[s].status \in {"active", "done"}, MarkAsDone(s)
    PROVE  UNCHANGED HandshakeChain!vars
<1>1. /\ subs'[s].status = "done" /\ \A r \in Subs \ {s} : subs'[r] = subs[r]
      /\ UNCHANGED <<handshakes, hsTimeouts, started>>
    BY DEF MarkAsDone, HandshakeInv, SubTypeOK, Subscription
<1> QED
    BY <1>1, RestsInChain DEF SamePhases, SameVerdicts, HandshakePhase, HandshakeVerdict, Created

LEMMA HandshakeChainNext ==
    ASSUME HandshakeInv, [SubNext]_subVars
    PROVE  [HandshakeMoves]_(HandshakeChain!vars)
<1>1. CASE UNCHANGED subVars
    BY <1>1, OtherFieldsChain DEF subVars
<1>2. ASSUME NEW s \in Subs, Environment(s) PROVE [HandshakeMoves]_(HandshakeChain!vars)
  <2>1. ASSUME NEW x \in Scopes, CreateSubscription(s, x) \/ CreateSubscriptionFails(s, x)
        PROVE  HandshakeMoves
    BY <2>1, CreateSubscriptionChain, CreateSubscriptionFailsChain
  <2>2. CASE subs[s].status \in {"active", "done"} /\ IncrementNonces({s})
    BY <2>2, OtherFieldsChain DEF IncrementNonces, HandshakeInv, SubTypeOK, Subscription
  <2>3. CASE subs[s].status \in {"active", "done"} /\ MarkAsDone(s)
    BY <2>3, MarkAsDoneChain
  <2>4. CASE Expire(s)
    BY <2>4, OtherFieldsChain DEF Expire
  <2> QED
    BY <1>2, <2>1, <2>2, <2>3, <2>4 DEF Environment
<1>3. ASSUME NEW s \in Subs, HandshakeTimeout(s) PROVE HandshakeMoves
    BY <1>3, HandshakeTimeoutChain
<1>4. ASSUME NEW t \in handshakes, HandshakeStep(t) \/ HandshakeFault(t)
      PROVE  [HandshakeMoves]_(HandshakeChain!vars)
    BY <1>4, HandshakeStepChain
<1> QED
    BY <1>1, <1>2, <1>3, <1>4 DEF SubNext

LEMMA HandshakeChainInit == ASSUME SubInit PROVE HandshakeChain!Init
BY DEF SubInit, HandshakeChain!Init, HandshakePhase, HandshakeVerdict, Created

\* The timers, tasks and rows of handshakes implement Retries for every number of
\* subscriptions and tries: one attempt at a time, a retry only while tries are left,
\* Rejected only after the last; failed queries falsify rows but never the attempts.
THEOREM HandshakeRetriesHolds == SubSpec => HandshakeRetries
<1>1. HandshakeInv /\ [SubNext]_subVars => [HandshakeMoves]_(HandshakeChain!vars)
    BY HandshakeChainNext
<1>2. SubInit => HandshakeChain!Init
    BY HandshakeChainInit
<1> QED
    BY <1>1, <1>2, HandshakeInvInit, HandshakeInvNext, PTL DEF SubSpec, HandshakeRetries

\* As long as no repository call fails (and the local store never fails one) the
\* handshakes implement Retries entirely, their records included.
THEOREM HandshakesImplementRetries == SubSpec /\ [](faults = 0) => HandshakeChain!Spec
<1>1. HandshakeInv /\ [SubNext]_subVars => [HandshakeMoves]_(HandshakeChain!vars)
    BY HandshakeChainNext
<1>2. [HandshakeMoves]_(HandshakeChain!vars) /\ (faults = 0)' => [HandshakeChain!Next]_(HandshakeChain!vars)
    BY DEF HandshakeMoves
<1>3. SubInit => HandshakeChain!Init
    BY HandshakeChainInit
<1> QED
    BY <1>1, <1>2, <1>3, HandshakeInvInit, HandshakeInvNext, PTL DEF SubSpec, HandshakeChain!Spec
=============================================================================
