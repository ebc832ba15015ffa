---------------------------- MODULE Subscriptions ----------------------------
(***************************************************************************)
(* SubscriptionsService and its repositories: a webhook subscription is    *)
(* created Inactive, a scheduled task sends the handshake to its URL, and  *)
(* the answer activates it, or the task is retried until no tries are left *)
(* and the subscription is Rejected.  TransactionsService and              *)
(* EventsService bump nonces and mark subscriptions as Done meanwhile.     *)
(*                                                                         *)
(* Every await of sendHandshake and retry is a place where other code      *)
(* runs, so a task is a record with a program counter.  Tasks form a SET   *)
(* and not a function of the subscription: that there is never more than   *)
(* one per subscription is a result, not an assumption.                    *)
(*                                                                         *)
(* With the Postgres store each repository call is a query that may fail.  *)
(* Repo.update is an UPDATE followed by a SELECT (findById), so an update  *)
(* may also fail AFTER it was written.  The local store cannot fail.       *)
(***************************************************************************)
EXTENDS Naturals, FiniteSets

CONSTANTS
    Subs,             \* subscription ids
    Scopes,           \* event scopes: internal transaction ids, 0 for no row
    HandshakeTries,   \* SUBSCRIPTIONS_MAX_HANDSHAKE_TRIES
    Store,            \* LOCAL or POSTGRES: which DatastoreModule is loaded
    MaxFaults,        \* bound: repository calls that fail in a behaviour
    MaxNonce          \* bound: nonces the environment hands out (this module only)

ASSUME HandshakeTriesAssumption == HandshakeTries \in Nat \ {0}
ASSUME StoreAssumption == Store \in {"local", "postgres"}
ASSUME FaultsAssumption == MaxFaults \in Nat
ASSUME ScopesAssumption == 0 \in Scopes

VARIABLES
    subs,         \* the subscription rows
    expired,      \* subscriptions whose createdAt + ttl has passed
    handshakes,   \* the running sendHandshake tasks
    hsTimeouts,   \* armed handshake timers, see Schedule
    hsRegistry,   \* registered handshake timers, see Schedule
    started,      \* history: sendHandshake calls so far, per subscription
    confirmed,    \* history: subscriptions whose URL returned the secret
    faults        \* history: repository calls that failed

subVars == <<subs, expired, handshakes, hsTimeouts, hsRegistry, started, confirmed, faults>>

HS == INSTANCE Schedule WITH
        TimeoutIds <- Subs, timeouts <- hsTimeouts, registry <- hsRegistry

SubscriptionStatus == {"none", "inactive", "active", "rejected", "done"}

Subscription == [status: SubscriptionStatus, triesLeft: Nat, nextNonce: Nat, scope: Scopes]

HandshakeTask ==
    [sub: Subs, no: Nat, pc: {"reading", "posting", "retrying"}, triesLeft: Nat]

SubTypeOK ==
    /\ subs \in [Subs -> Subscription]
    /\ expired \subseteq Subs
    /\ handshakes \subseteq HandshakeTask
    /\ hsTimeouts \in [Subs -> Nat]
    /\ hsRegistry \subseteq Subs
    /\ started \in [Subs -> Nat]
    /\ confirmed \subseteq Subs
    /\ faults \in Nat

Created(s) == subs[s].status # "none"

SubInit ==
    /\ subs = [s \in Subs |-> [status |-> "none", triesLeft |-> 0, nextNonce |-> 0, scope |-> 0]]
    /\ expired = {}
    /\ handshakes = {}
    /\ HS!ScheduleInit
    /\ started = [s \in Subs |-> 0]
    /\ confirmed = {}
    /\ faults = 0

\* A repository call fails: only a database can.
Fault ==
    /\ Store = "postgres"
    /\ faults < MaxFaults
    /\ faults' = faults + 1

-----------------------------------------------------------------------------
(* Operations called by TransactionsService and EventsService.             *)

\* Faulty variants used as mutants of the definitions below.
MutFindAnyStatus(scope) ==
    {s \in Subs : Created(s) /\ subs[s].scope = scope /\ s \notin expired}

NewSubscription(scope) ==
    [status |-> "inactive", triesLeft |-> HandshakeTries, nextNonce |-> 0, scope |-> scope]

\* createSubscription: insert the row, then schedule the first handshake at
\* once.
CreateSubscription(s, scope) ==
    /\ ~Created(s)
    /\ subs' = [subs EXCEPT ![s] = NewSubscription(scope)]
    /\ HS!AddTimeout(s)
    /\ UNCHANGED <<expired, handshakes, started, confirmed, faults>>

\* The insert fails, with or without the row in the table: no handshake is
\* ever scheduled for it.
CreateSubscriptionFails(s, scope) ==
    /\ ~Created(s)
    /\ Fault
    /\ \/ subs' = [subs EXCEPT ![s] = NewSubscription(scope)]
       \/ UNCHANGED subs
    /\ UNCHANGED <<expired, handshakes, hsTimeouts, hsRegistry, started, confirmed>>

\* updateSubscription(id, { nextNonce }).
UpdateNextNonce(s, n) ==
    /\ subs' = [subs EXCEPT ![s].nextNonce = n]
    /\ UNCHANGED <<expired, handshakes, hsTimeouts, hsRegistry, started, confirmed>>

\* batchBumpNonce: one statement over all ids.
IncrementNonces(ids) ==
    /\ subs' = [s \in Subs |->
                  IF s \in ids THEN [subs[s] EXCEPT !.nextNonce = @ + 1] ELSE subs[s]]
    /\ UNCHANGED <<expired, handshakes, hsTimeouts, hsRegistry, started, confirmed>>

\* One of the updates of batchMarkAsDone (an unconditional write).
MarkAsDone(s) ==
    /\ subs' = [subs EXCEPT ![s].status = "done"]
    /\ UNCHANGED <<expired, handshakes, hsTimeouts, hsRegistry, started, confirmed>>

\* findAll({ eventType, eventScope, status: Active, excludeExpired: true }).
FindActive(scope) ==
    {s \in Subs : subs[s].status = "active" /\ subs[s].scope = scope /\ s \notin expired}

-----------------------------------------------------------------------------
(* The handshake task.                                                     *)

\* The timer goes off and wrapCallback starts sendHandshake, up to findOne.
HandshakeTimeout(s) ==
    /\ HS!TimeoutFires(s)
    /\ IF HS!CallbackRuns(s)
       THEN /\ started' = [started EXCEPT ![s] = @ + 1]
            /\ handshakes' = handshakes \cup
                 {[sub |-> s, no |-> started[s] + 1, pc |-> "reading", triesLeft |-> 0]}
       ELSE UNCHANGED <<started, handshakes>>
    /\ UNCHANGED <<subs, expired, confirmed, faults>>

EndTask(t) == handshakes' = handshakes \ {t}
StepTask(t, u) == handshakes' = (handshakes \ {t}) \cup {u}

\* findOne returns: an expired subscription ends the task, otherwise triesLeft
\* is remembered and the request goes out.
SendHandshake(t) ==
    /\ t.pc = "reading"
    /\ IF t.sub \in expired
       THEN EndTask(t)
       ELSE StepTask(t, [t EXCEPT !.pc = "posting", !.triesLeft = subs[t.sub].triesLeft])
    /\ UNCHANGED <<subs, expired, hsTimeouts, hsRegistry, started, confirmed, faults>>

\* findOne is awaited outside the try block: its failure ends the task.
SendHandshakeLost(t) ==
    /\ t.pc = "reading"
    /\ Fault
    /\ EndTask(t)
    /\ UNCHANGED <<subs, expired, hsTimeouts, hsRegistry, started, confirmed>>

\* Faulty variants used as mutants of the actions below.
MutAcceptedKeepsTask(t) ==
    /\ t.pc = "posting"
    /\ confirmed' = confirmed \cup {t.sub}
    /\ subs' = [subs EXCEPT ![t.sub].status = "active"]
    /\ StepTask(t, [t EXCEPT !.pc = "retrying", !.triesLeft = @ - 1])
    /\ UNCHANGED <<expired, hsTimeouts, hsRegistry, started, faults>>

MutRefusedActivates(t) ==
    /\ t.pc = "posting"
    /\ subs' = [subs EXCEPT ![t.sub].status = "active"]
    /\ EndTask(t)
    /\ UNCHANGED <<expired, hsTimeouts, hsRegistry, started, confirmed, faults>>

MutRefusedKeepsTries(t) ==
    /\ t.pc = "posting"
    /\ StepTask(t, [t EXCEPT !.pc = "retrying"])
    /\ UNCHANGED <<subs, expired, hsTimeouts, hsRegistry, started, confirmed, faults>>

MutRetryBeforeUpdate(t) ==
    /\ t.pc = "posting"
    /\ HS!AddTimeout(t.sub)
    /\ UNCHANGED <<subs, expired, handshakes, started, confirmed, faults>>

MutRetryForgetsTimeout(t) ==
    /\ t.pc = "retrying"
    /\ subs' = [subs EXCEPT ![t.sub].triesLeft = t.triesLeft]
    /\ EndTask(t)
    /\ UNCHANGED <<expired, hsTimeouts, hsRegistry, started, confirmed, faults>>

\* handleHandshakeResponse: 200 with the secret in the headers.
HandshakeAccepted(t) ==
    /\ t.pc = "posting"
    /\ confirmed' = confirmed \cup {t.sub}
    /\ subs' = [subs EXCEPT ![t.sub].status = "active"]
    /\ EndTask(t)
    /\ UNCHANGED <<expired, hsTimeouts, hsRegistry, started, faults>>

\* The update to Active fails, before or after it was written: the catch
\* block treats it like a refusal.
HandshakeAcceptedFails(t) ==
    /\ t.pc = "posting"
    /\ Fault
    /\ confirmed' = confirmed \cup {t.sub}
    /\ \/ subs' = [subs EXCEPT ![t.sub].status = "active"]
       \/ UNCHANGED subs
    /\ StepTask(t, [t EXCEPT !.pc = "retrying", !.triesLeft = @ - 1])
    /\ UNCHANGED <<expired, hsTimeouts, hsRegistry, started>>

\* Another status, another secret, a network error or the 10 s timeout.
HandshakeRefused(t) ==
    /\ t.pc = "posting"
    /\ StepTask(t, [t EXCEPT !.pc = "retrying", !.triesLeft = @ - 1])
    /\ UNCHANGED <<subs, expired, hsTimeouts, hsRegistry, started, confirmed, faults>>

\* What retry writes.
AfterRetry(sub, triesLeft) ==
    IF triesLeft = 0
    THEN [sub EXCEPT !.triesLeft = triesLeft, !.status = "rejected"]
    ELSE [sub EXCEPT !.triesLeft = triesLeft]

RetryHandshake(t) ==
    /\ t.pc = "retrying"
    /\ subs' = [subs EXCEPT ![t.sub] = AfterRetry(@, t.triesLeft)]
    /\ EndTask(t)
    /\ IF t.triesLeft = 0
       THEN UNCHANGED <<hsTimeouts, hsRegistry>>
       ELSE HS!AddTimeout(t.sub)
    /\ UNCHANGED <<expired, started, confirmed, faults>>

\* The update in retry fails: the error leaves the catch block, wrapCallback
\* logs it and nothing is scheduled any more.
RetryHandshakeFails(t) ==
    /\ t.pc = "retrying"
    /\ Fault
    /\ \/ subs' = [subs EXCEPT ![t.sub] = AfterRetry(@, t.triesLeft)]
       \/ UNCHANGED subs
    /\ EndTask(t)
    /\ UNCHANGED <<expired, hsTimeouts, hsRegistry, started, confirmed>>

\* isExpired() becomes true.
Expire(s) ==
    /\ Created(s)
    /\ s \notin expired
    /\ expired' = expired \cup {s}
    /\ UNCHANGED <<subs, handshakes, hsTimeouts, hsRegistry, started, confirmed, faults>>

HandshakeStep(t) ==
    \/ SendHandshake(t)
    \/ HandshakeAccepted(t)
    \/ HandshakeRefused(t)
    \/ RetryHandshake(t)

HandshakeFault(t) ==
    \/ SendHandshakeLost(t)
    \/ HandshakeAcceptedFails(t)
    \/ RetryHandshakeFails(t)

-----------------------------------------------------------------------------
(* The service on its own, driven by an environment that numbers and       *)
(* finishes subscriptions it has seen Active at some earlier moment.       *)

Environment(s) ==
    \/ \E x \in Scopes : CreateSubscription(s, x) \/ CreateSubscriptionFails(s, x)
    \/ /\ subs[s].status \in {"active", "done"}
       /\ \/ subs[s].nextNonce < MaxNonce /\ IncrementNonces({s})
          \/ MarkAsDone(s)
       /\ UNCHANGED faults
    \/ Expire(s)

SubNext ==
    \/ \E s \in Subs : Environment(s) \/ HandshakeTimeout(s)
    \/ \E t \in handshakes : HandshakeStep(t) \/ HandshakeFault(t)

SubSpec == SubInit /\ [][SubNext]_subVars

\* Timers go off, queries return, and a request ends by its 10 s timeout.
SubFairness ==
    \A s \in Subs :
        /\ WF_subVars(HandshakeTimeout(s))
        /\ WF_subVars(\E t \in handshakes : t.sub = s /\ HandshakeStep(t))

FairSubSpec == SubSpec /\ SubFairness

-----------------------------------------------------------------------------
(* Properties.                                                             *)

\* The handshake of a subscription is never in progress twice: at most one
\* timer or one task exists for it, addTimeout never meets an id that is still
\* registered, and no timer goes off without its callback (scheduleSendHandshake,
\* ScheduleService.wrapCallback).
HandshakeSingleFlight ==
    /\ \A t, u \in handshakes : t.sub = u.sub => t = u
    /\ \A t \in handshakes : hsTimeouts[t.sub] = 0
    /\ \A s \in Subs : hsTimeouts[s] = (IF s \in hsRegistry THEN 1 ELSE 0)

\* However the repository fails, a URL is sent no more than the configured
\* number of handshakes; while nothing has failed, a subscription is Rejected
\* exactly when all of them were used up (retry).
HandshakeBudget ==
    \A s \in Subs :
        /\ started[s] <= HandshakeTries
        /\ faults = 0 /\ Created(s) =>
             (subs[s].status = "rejected" <=> subs[s].triesLeft = 0)
        /\ faults = 0 /\ subs[s].status = "rejected" => started[s] = HandshakeTries

\* Only a URL that returned the handshake secret is ever Active or Done, and as
\* long as no repository call failed it is never Rejected afterwards
\* (handleHandshakeResponse, batchMarkAsDone).
ActiveOnlyIfConfirmed ==
    \A s \in Subs :
        /\ subs[s].status \in {"active", "done"} => s \in confirmed
        /\ faults = 0 /\ s \in confirmed => subs[s].status \in {"active", "done"}

\* The strengthening that makes the invariants above inductive.  Tries are
\* bookkept against the calls started: a waiting timer, and a task, account for
\* every try that is not left; a row is only touched by the one task it has.
Pending(s) == hsTimeouts[s] > 0 \/ \E t \in handshakes : t.sub = s

HandshakeLedger ==
    /\ \A s \in Subs :
         /\ started[s] <= HandshakeTries
         /\ ~Created(s) => started[s] = 0 /\ ~Pending(s) /\ s \notin confirmed
         /\ hsTimeouts[s] > 0 =>
              subs[s].triesLeft > 0 /\ started[s] + subs[s].triesLeft = HandshakeTries
    /\ \A t \in handshakes :
         /\ subs[t.sub].triesLeft > 0
         /\ started[t.sub] + subs[t.sub].triesLeft = HandshakeTries + 1
         /\ t.pc = "posting" => t.triesLeft = subs[t.sub].triesLeft
         /\ t.pc = "retrying" => t.triesLeft = subs[t.sub].triesLeft - 1

PendingIsInactive ==
    faults = 0 => \A s \in Subs : Pending(s) => subs[s].status = "inactive"

HandshakeInv ==
    /\ SubTypeOK
    /\ HandshakeSingleFlight
    /\ HandshakeLedger
    /\ HandshakeBudget
    /\ ActiveOnlyIfConfirmed
    /\ PendingIsInactive

\* How one row may change in a step.
Forward(s) ==
    /\ subs'[s].status # subs[s].status =>
         \/ subs[s].status = "none" /\ subs'[s].status = "inactive"
         \/ subs[s].status = "inactive" /\ subs'[s].status \in {"active", "rejected"}
         \/ subs[s].status = "active" /\ subs'[s].status = "done"
    /\ Created(s) => subs'[s].triesLeft <= subs[s].triesLeft

\* Without repository failures a subscription only moves forward: a late
\* handshake answer or retry never revives or rejects one that was activated or
\* finished meanwhile, and the tries left never grow (updateSubscription callers).
StatusMovesForward == [][\A s \in Subs : faults' = 0 => Forward(s)]_subVars

\* A handshake is always decided: while repository calls succeed, an Inactive
\* subscription is answered, rejected or expires (sendHandshake, retry).
HandshakeSettles ==
    \A s \in Subs :
        subs[s].status = "inactive" ~>
            subs[s].status # "inactive" \/ s \in expired \/ faults > 0

\* A handshake seen as a job of module Retries: where its chain of timers and tasks
\* stands, and what the row says of it.
HandshakePhase(s) ==
    IF ~Created(s) THEN "none"
    ELSE IF hsTimeouts[s] > 0 THEN "waiting"
    ELSE IF \E t \in handshakes : t.sub = s THEN "trying" ELSE "over"

HandshakeVerdict(s) ==
    IF subs[s].status \in {"active", "done"} THEN "succeeded"
    ELSE IF subs[s].status = "rejected" THEN "exhausted" ELSE "none"

HandshakeChain == INSTANCE Retries WITH
    Jobs <- Subs, Tries <- HandshakeTries,
    phase <- [s \in Subs |-> HandshakePhase(s)],
    attempts <- started,
    verdict <- [s \in Subs |-> HandshakeVerdict(s)]

HandshakeMoves ==
    HandshakeChain!Next \/ (faults' > 0 /\ HandshakeChain!MoveOrRest)

\* The timers, tasks and rows of handshakes implement Retries: one attempt at a
\* time, a retry only while tries are left, Rejected only after the last one.  After
\* a failed query a row may be wrong, but the attempts still keep to the rules
\* (scheduleSendHandshake, sendHandshake, retry).
HandshakeRetries == HandshakeChain!Init /\ [][HandshakeMoves]_(HandshakeChain!vars)
=============================================================================
