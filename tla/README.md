# Formal model of the Polymesh REST API

The REST API is a NestJS process that turns HTTP requests into Polymesh
transactions. A request passes a guard and a validation pipe, its handler looks up
entities with the Polymesh SDK, and most POST routes hand one SDK procedure to
`TransactionsService.submit`, which executes it in one of five process modes. Beside
this pipeline the process keeps state of its own in the **webhook path** (mode
`submitWithCallback`: subscriptions, events, notifications, retries), the **AMQP
path** (mode `AMQP`: request, signature, submission and audit log, over a broker or
an in-memory bus), and in **users and API keys**.

## 1. Inventory

| Component | State it keeps | Operations | Talks to | Module |
|---|---|---|---|---|
| `ScheduleService` | armed Node timers; ids in `SchedulerRegistry` | `addTimeout`, wrapped callback, (`addInterval`, unused) | called by subscriptions and notifications, calls them back | `Schedule` |
| `SubscriptionsService`, repositories | rows: status, triesLeft, nextNonce, scope, ttl | create, update, bump nonces, mark as done, handshake, retry | timers, HTTP, datastore | `Subscriptions` |
| `NotificationsService`, repositories | rows: status, triesLeft, nonce | create many, send, retry | timers, HTTP, subscriptions, events | `Notifications` |
| `EventsService`, `TransactionsService` | events in memory; `transactionStore`, `currentId` | `createEvent`, `submitAndSubscribe`, status handler, `markSubsAsDone` | SDK callbacks, subscriptions, notifications | `Webhooks` |
| Offline services | `offline_tx`, `offline_event` rows | begin, sign, submit, record | message service, signing manager, chain | `OfflineTx`, `LocalMessages` |
| `ArtemisService`, broker | connection, senders, receivers; queues, dead letters | send, listen, accept, reject, shutdown | broker of `compose/broker.xml` | `Artemis`, `ArtemisConnections` |
| `LocalMessageService` | listeners, id counter | send calls the listeners | offline services | `LocalMessages` |
| Request pipeline | none beyond the request | guard, pipe, `extractTxOptions`, `submit`, `processTransaction`, `handleServiceResult`, error filter, response code | SDK | `Requests` |
| Controllers and domain services | none (chain) | about 200 routes, each a few look-ups, checks and at most one procedure | SDK, `TransactionsService` | `IdentityServices`, `AssetServices`, `IdentityRoutes`, `AssetRoutes` |
| Transfer restrictions | none (chain) | read the list, compare, write the list | SDK | `TransferRestrictions` |
| Auth, users | users, API keys | guard, create, validate, delete | datastore | `Auth` |
| Signing | signer handles | handle to address, sign | Vault, Fireblocks, HSM, local keys | outcome only, in `Requests` |

What is hard in this code, and what a unit test with mocked repositories does not
reach:

* **Interleaving at every `await`.** Status handlers of one transaction run
  concurrently; a handshake answer arrives up to ten seconds after its row was
  read; `nextNonce`, the restrictions of an asset, the user of a new key and the
  sender of an address are read, awaited upon and used afterwards.
* **Retry chains.** Nothing but the chain of timers itself remembers that a
  handshake or a notification is still to be sent.
* **Failure between two steps.** A query may fail before or after it was written; a
  resolver may fail after the transaction ran; a worker may stop between the
  submission to the chain and the update of its table; a connection may fail while
  several callers share its promise.
* **At-least-once delivery.** The broker hands unsettled messages out again.
* **Memory and database disagree after a restart.** Timers, events, listeners, the
  internal ids and the local users and keys are gone, the rows are not.
* **Many routes, one pipeline.** Whether a transaction is run, and which status
  code is answered, depends on a path over several functions that no test walks
  for all routes and modes.

Every hazard, with the line where it bites and the properties about it, is in
`PROJECT.json`.

## 2. Modules

```
Schedule             instantiated twice: handshake timers, notification timers
Retries              abstract: a job is tried at most N times and ends with one record
Subscriptions        handshake task, subscription rows          (also runs alone)
  Notifications      delivery task, notification rows           EXTENDS Subscriptions
    Webhooks         transactions, events, restart: the system  EXTENDS Notifications
                     Subscriptions and Notifications            INSTANCE Retries
OfflineFlow          abstract: the stages of a transaction of mode AMQP
Artemis              messages and broker
  OfflineTx          starter, signer, submitter, recorder, chain  EXTENDS Artemis
ArtemisConnections   connection, senders, receivers and shutdown of ArtemisService
LocalMessages        the in-memory bus with the offline services
                     OfflineTx and LocalMessages                INSTANCE OfflineFlow
Steps                paths through methods as data
  IdentityServices, AssetServices    one definition per service method
    IdentityRoutes, AssetRoutes      one definition per route
  Requests           executes a path of a route              EXTENDS Steps
Restrictions         abstract: one atomic step per request
TransferRestrictions read, compare and write back            INSTANCE Restrictions
Auth                 guard, users, API keys
SubscriptionsProofs  theorems about the handshakes
  WebhooksProofs     theorems about the composed webhook path   EXTENDS SubscriptionsProofs
OfflineTxProofs, ConnectionsProofs, LocalMessagesProofs, RequestsProofs,
TransferRestrictionsProofs, AuthProofs                          theorems
MC*                  instances for TLC
```

**Schedule.** `timeouts[id]` counts armed Node timers and `registry` holds the ids
of the `SchedulerRegistry`. They are kept apart because the code arms a timer
*before* it registers it and gives the id back *before* it runs the callback.

**Subscriptions.** One row per subscription (`subs`), and a *set* of running
`sendHandshake` tasks with a program counter: `reading` (before `findOne` returns),
`posting` (the request is out), `retrying` (in the catch block). Actions with the
suffix `Fails`/`Lost` are the failures of a Postgres query; an update may fail
after it was written because `PostgresSubscriptionRepo.update` is an UPDATE
followed by a SELECT. With `Store = "local"` nothing fails. Expiry is an action
because the clock is not modelled. `SubSpec` drives the component with an
environment that bumps nonces and finishes subscriptions it has seen Active.

**Notifications.** The same shape for `sendNotification`. `InitialTries` models
that the local repository ignores the configured number of tries.

**Retries.** What both chains of timers promise: a job is scheduled once, waits, is
tried, waits again only while tries are left, and ends with what its last attempt
found; a process that stops forgets its jobs. The refinement mappings read the phase
of a job off its timer and its tasks, the attempts off the requests sent, and the
verdict off the status of its row.

**Webhooks.** `submitAndSubscribe` as four steps, the SDK's status changes
(external), and one *handler* record per running `handleTransactionStatusChange`,
with the subscriptions and nonces it has read. With the local store all repository
promises are already resolved, so handlers and requests run to their end before the
event loop takes up anything else (`EventLoopFree`); with Postgres they interleave
at every query. `Restart` loses everything in memory and keeps the rows.

**Artemis / OfflineTx.** Messages are records on queues; `tasks` are the messages
in the hands of a listener with its progress. `Routes` is the routing of
`compose/broker.xml` (a copy of every message goes to `EventsLog` by the diverts).
A listener that throws rejects its message to the dead letter queue; a worker that
stops leaves its messages unsettled and they return to the queue until
`max-delivery-attempts` (`WorkerStops` is the stop of the process: a connection that
is lost while the listener goes on is not modelled). A send and the `accept` or `reject` of the message that
caused it are separate steps, so that a worker may stop between them. A send that
fails may have reached the broker. `Trouble` bounds failing calls and worker stops
together (`MaxTroubles`). The chain
(external) includes a transaction whose nonce is the account's next one; `Others`
are transactions of the same account that somebody else submits, and which may use
up a nonce. `updateTx` is a separate step because `submit` does not wait for it.

**ArtemisConnections.** Calls of `sendMessage` and `registerListener` wait at the
promise of the connection, at the creation of their link and at the disposition of
the broker. `connection` is the state of `connectionPromise`, which is never
replaced: a rejected attempt stays. The shutdown closes what is kept.

**LocalMessages.** `sendMessage` waits for all handlers, a handler validates and
calls its listener without awaiting it; the listeners are the offline services, up
to their own sends. The repositories are the local ones, whose calls are done before
the listener first waits; with Postgres they would end after the receipt. `Malformed` are the transactions whose signature fails the
validation of `submit`'s message class.

**OfflineFlow.** What the offline services promise on either message service: a
transaction is requested, signed, saved, included, announced and marked as Finalized,
in this order. The mappings read the stages off the messages that were sent, the row
and the chain. `Resave` is kept apart: with a broker a signature may be handled again
and put a Finalized row back to Signed.

**Steps, *Services, *Routes.** A method is the *set of the paths* through it; a
path is the sequence of steps on which the answer can depend: look-ups, queries,
checks that throw, `submit`, the resolver. A branch is a union, a call is `**`, a
loop over items is `Each` (no item or one, see Bounds). A route adds its verb,
whether it documents a 404, where its options are, and the names its path and its
DTO give to parameters. Data that only travels through (arguments, DTO fields,
models) is left out. There is one definition per method of a controller or service,
with the source's name.

**Requests.** Executes one path. Each awaited call of the SDK resolves, or rejects
with any of its error codes, whatever the calls before it did, because the chain
may change between them. `submit` prepares the procedure, branches on the mode, and
`processTransaction` prepares it once more; `handleSdkError` and the filter map
errors to status codes; what escapes them is a 500.

**TransferRestrictions.** Requests that add, set or remove the restrictions of one
asset, interleaved at each `await`. `ToChain` is what the SDK stores,
`normalizeExistingRestrictions` what the service makes of it, `isSameRestriction`
the comparison. `wrote`, `stale` and `refused` are history. `Restrictions` is the
abstract specification; the refinement mapping shows it the normalized list and
what each request asked for.

**Auth.** Requests with and without a key pass the strategies in order, then create
users, create or delete keys, or do something else. The store and the strategies
are chosen in `Init` and stay. `issued`, `told` and `revoked` are what clients know.
API clients send keys they were told, keys of `API_KEYS`, an unknown one, or a name
of `Inherited`: the local repository keeps the keys in a plain object, where such a
name finds what every object inherits (`InPrototype`, `NotAUser`). A secret
is never generated twice (32 random bytes). Loading `key.user` in Postgres is one
query.

Definitions keep the names of the source. Definitions with the prefix `Mut` are
faulty variants of a definition below them; nothing uses them.

## 3. Runs

| Run | Instance | What it shows |
|---|---|---|
| `handshakes` | two subscriptions, 3 tries, up to 2 failing queries, fair | single flight, budget, honest and forward-only status, every handshake is decided, handshakes implement `Retries` |
| `webhooks_local` | local store, one submission, all status paths, 2 tries, fair | nonces in the order of the statuses, Done only after the end, no leaked listener, every notification settles, deliveries implement `Retries` |
| `webhooks_postgres` | Postgres, one submission by a MultiSig signer, one failing query anywhere, one restart | deliveries, budgets, honest statuses and nonces with concurrent handlers, a failure and a restart |
| `amqp` | one transaction and one of somebody else, one failing call or worker stop anywhere, 2 deliveries, fair | receipts are honoured and settled, the audit log is complete, `offline_tx` claims nothing false, the stages follow `OfflineFlow` |
| `requests` | every route, every form and mode | at most one transaction, none unless asked, errors before the run, look-ups before use, 404 and 4xx where due, always an answer |
| `restrictions` | two requests, five lists with every kind of restriction | duplicates are exact; each request is atomic unless an addition is overtaken |
| `auth` | three requests, both stores, every choice of strategies, an inherited name, one restart | names, keys and users agree; a key decides the user, deleted keys are dead (inherited names on the local store excepted), created ones work |
| `connections` | three calls on one address, one outage, a shutdown, fair | senders are reused, calls fail only after an outage, nothing stays open, every call ends |
| `local_bus` | two transactions, one malformed, fair | a receipt means taken over, every message is recorded, every transaction ends |
| `nonce_race` | Postgres, two status changes | **violated**: two notifications of a subscription carry the same nonce |
| `scope_reuse` | Postgres, two submissions, one restart | **violated**: a subscription of the first process hears of a transaction of the second |
| `lost_addition` | two additions | **violated**: the restrictions of the first are gone |

The three violated properties state what a comment, the README or the API
documentation of the repository says; `findings` in `PROJECT.json` quotes the lines.

**Bounds.** Two subscriptions are enough for one to disturb another, since every
operation of the component touches one row or applies the same change to each of a
set; two or three tries make a first attempt, a retry and the last retry different.
One failing query at *every* place covers each failure path; two show a failure
during the handling of another. The full status graph of the SDK needs one
submission only, because handlers of different submissions share nothing but the
counter of ids; `scope_reuse` has two. `LocalTries` stands for the constant 10 of
the local repository. In `amqp` one trouble at *every* place shows each failing call
and each stop with its redelivery; a message whose deliveries are used up needs two
stops. That case was checked with `MaxTroubles = 2` too (3.7 million states, the
invariants only, longer than a run should take) and is covered for any number by the
theorems. One transaction and one of somebody else suffice for the race for a
nonce. `Each` bounds a loop by one item: the steps
for a second item are those of the first and can only fail in the same ways. One
request is enough for `Requests`, whose requests share no state. Two requests to one
asset overtake each other in every order. Three requests for `Auth` are one that
creates a key, one that deletes it and one that uses it; a request that is over
keeps only what it asked for. One name besides that of the default user can be taken
or free, found or not. Three calls are two first sends and a third one that
finds their sender. `MaxNonce` (environment of `Subscriptions` only), `MaxFaults`,
`MaxRestarts`, `MaxTroubles` and `MaxOutages` bound counters in guards. All runs
switch the deadlock check off: the systems stop when all requests are served and
the bounds are used up.

**Fairness** is weak fairness of what the event loop, the database, the SDK and the
broker do by themselves: timers go off, queries and promises settle, a POST or a
send ends at the latest by its 10 s timeout, queued messages are handed out, blocks
are produced. Nothing is assumed about callers, about the status changes of a
transaction, about what a webhook answers, about the clock reaching a ttl, about
the end of an outage or about shutdowns. The liveness properties of the webhook and
AMQP paths excuse behaviours with a failed query, call or worker, because the code
then really does break the chain off; they do not hold across restarts for the same
reason: nothing resumes the timers.

## 4. Properties

* `HandshakeSingleFlight`, `DeliverySingleFlight`: one timer or task per id, and
  timers and registry agree.
* `HandshakeBudget`, `DeliveryBudget`: nobody is sent more requests than there are
  tries, whatever fails; Rejected and Failed mean that all were used.
* `ActiveOnlyIfConfirmed`, `NotifiedOnlyIfConfirmed`: nothing is sent before the
  handshake, also across failures and restarts.
* `StatusMovesForward`: a late answer never revives or rejects a subscription.
* `FinalStatusIsTrue`: what a notification row says happened did happen, and
  nothing is left that could overwrite it.
* `NoncesAccountedFor`, `NoncesFollowStatus`: nonces are handed out without gaps,
  and on the local store in the order of the statuses.
* `DoneOnlyAfterTerminal`, `ListenerReleased`: the end of a transaction.
* `HandshakeSettles`, `DeliverySettles`: the retry chains do not break off.
* `HandshakeRetries`, `DeliveryRetries`: both chains implement `Retries`. A failed query
  may leave a row that is wrong, so from then on only the attempts are held to it: one
  at a time, and a retry only while tries are left.
* `ReceiptIsHonoured`, `AuditLogComplete`, `OfflineTxIsTrue`, `ReceiptIsSettled`:
  the AMQP path loses nothing silently and claims nothing false.
* `StagesInOrder`, `LocalStagesInOrder`: the AMQP path on the broker and on the
  in-memory bus implements `OfflineFlow`; on the broker a worker must have stopped
  before a Finalized row is put back.
* `OneTransaction`, `RunsOnlyWhenAsked`, `ErrorsComeBeforeTheRun`: what a request
  does to the chain, and what a success or an error says about it. A success of
  `submitWithCallback` says nothing of the chain.
* `EntitiesAreLookedUp`, `MissingIsNotFound`, `ClientErrorsAreNotServerErrors`,
  `EveryRequestAnswered`: handlers use what they looked up and errors keep their
  meaning. Three exceptions are stated in the properties: the payload of mode AMQP is
  made outside of the `try`, `transactions/submit` maps no error, and the look-up of
  a permission group maps none (`UnmappedLookUps`).
* `DuplicatesAreExact`, `AtomicUnlessOvertaken`: the comparison of restrictions, and
  the refinement of `Restrictions`.
* `NamesAndKeysResolve`, `KeyDecidesUser`, `DeletedKeyIsDead`, `CreatedKeyWorks`:
  users and keys. The last two except a restart on the local store, which forgets
  new keys and brings those of `API_KEYS` back (`Undead`). `KeyDecidesUser` and
  `DeletedKeyIsDead` except the inherited names on the local store, which are let in
  without having been issued, as no user, and also after they were "deleted".
* `SendersAreReused`, `FailsOnlyAfterOutage`, `ShutdownClosesConnection`, `CallsEnd`:
  the connection to the broker.
* `ReceiptMeansTakenOver`, `LocalMessagesSettle`: the in-memory bus.

The models also show behaviour that a reader of the documentation would not expect,
and that the properties above take as it is:

* A handshake answered after the transaction ended leaves its subscription Active
  for good (`markSubsAsDone` looks once).
* The local repository gives every notification 10 tries, whatever is configured.
* An included transaction can stay `Signed` in `offline_tx`, like a rejected one,
  when the submitter fails after the submission (`updateTx` is not awaited).
* A dry run of a route whose resolver uses the result is answered 500, because the
  resolver is given an empty result.
* `submitWithCallback` in nested options is answered 201; only the deprecated
  top-level `webhookUrl` gives 202.
* Deprecated fields beside `options` are dropped, as the check for them runs over an
  empty list.
* The removal of transfer restrictions takes its whole body for the options.
* `accounts/:id/receipts` binds `id`, its DTO requires `account`.
* The associated claims of an identity without any are a TypeError.
* On the local store a name that every object inherits is taken for an API key:
  `getUserByApiKey` finds something truthy that is no user (`api-key.repo.ts:25`), and
  `deleteApiKey` of it is answered with success and changes nothing (`:34`). With
  Postgres it is an unknown key.
* `submitWithCallback` is answered with success although `run` or `runAsProposal`
  rejected before the chain had anything: the error is logged, and the status of the
  transaction is all a client can learn it from (`transactions.service.ts:140-150`).
* A custom permission group that does not exist is answered 500 by the four routes
  that document a 404 for it: `getGroup({ id })` rejects with DataUnavailable, outside
  of `handleSdkError` (`permission-groups.service.ts:51,114,142`), so that the check of
  `exists` after it is not reached.
* An unknown API key is answered 404 and not 401; keys of `API_KEYS` are not
  known to the Postgres store.
* A failed attempt to connect to the broker is kept, so that sends fail until the
  process restarts; two first sends on an address make two senders, of which a
  shutdown closes one.

## 5. Proofs

Everything below holds for all values of the constants that satisfy the named
`ASSUME`s, which TLC evaluates for the instances of the runs. In particular the
bounds of the runs (`MaxFaults`, `MaxRestarts`, `MaxTroubles`, `MaxOutages`,
`MaxDeliveries`) are arbitrary numbers here, and so are the numbers of
subscriptions, transactions, calls, requests and tries.

Each module has the same plan: an invariant that is a conjunction of named parts, one
lemma for the initial states, one lemma per action or per kind of step, and the
results at the end, each of which follows from the invariant. Facts about an operator
that several actions share (the routing of a message, `Tail`, the throwing of an error)
are lemmas of their own.

**SubscriptionsProofs.** For every set of subscriptions, every number of tries
greater than zero, either store and any number of failures, `SubSpec` implies
`HandshakeSingleFlight`, `HandshakeBudget`, `ActiveOnlyIfConfirmed` and, as an
action property, `StatusMovesForward`. None of them is inductive alone. A retry
re-arms the timer with a count it read earlier, so "no more than N handshakes" needs
to know that this count still matches the row; that needs "only one task per
subscription", and that in turn "a task and a timer never coexist". `HandshakeInv`
ties these together: `HandshakeLedger` books every started call against the tries
left in the row (a waiting timer: started + left = N; a running task: started + left
= N + 1), and `PendingIsInactive` says that without failures a subscription with a
task or timer is still Inactive, which is why a late answer cannot revive a Done
one.

`HandshakeRetriesHolds` and, without failing queries, `HandshakesImplementRetries` are
the refinement of `Retries`. There is one lemma per action, which follows the phase and
the verdict of the one subscription that the action is about; all others keep theirs.
The ledger is what the mapping needs: it turns "tries left in the row" into "fewer
attempts than tries" where a retry is scheduled, and into "all tries used" where a row
becomes Rejected.

**WebhooksProofs.** For every finite set of submissions with enough ids
(`WebhooksAssumption`), the composed `Spec` implies `TypeOK`, the three handshake
invariants, and `DeliverySingleFlight`, `DeliveryBudget`, `FinalStatusIsTrue`,
`NotifiedOnlyIfConfirmed`, `NoncesAccountedFor` and `DoneOnlyAfterTerminal`; with the
local store also `NoncesFollowStatus`; and the action property `StatusMovesForward`
for every step of the system. The invariant has three parts.
`HandshakeInv` is the one above; its lemmas are cited again for every step of the
composition that touches a subscription, and only the restart is new.
`DeliveryInv` is the ledger of the delivery task: per notification, requests sent and
tries left add up to the tries given (a waiting timer) or one more (a running task),
so a stale count can never be written back. `TxInv` says what a status handler may
rely on while it waits for the database: `ScopeInv` (internal ids tell the
submissions of a process apart), `NotesInv` and `HandlersInv` (whoever was notified
or is about to be is confirmed, belongs to that transaction, and has a nonce below
`nextNonce`; one handler per event, and no notification of its event before it
creates one), and `CountInv`. The last is what makes `NoncesAccountedFor` inductive:
between the bump of a nonce and the creation of its notification the counts differ,
so it counts what is `Owed`, the notifications made and those that a handler is about
to make. `LocalInv` adds what run-to-completion gives: one handler at a time, with
the latest nonce and the latest status.

`DeliveryRetriesHolds` and `WebhookHandshakeRetries` are the refinements of `Retries` in
the composed system: the ledger of `DeliveryInv` plays the same part as above, a restart
is the step that loses all jobs, and an insert that fails after it was
written leaves a job that is never scheduled. `WebhooksImplementRetries`: as long as no query fails both chains are
exactly `Retries`, whatever else transactions and restarts do.

Two more theorems mark out the violations that TLC finds. `NoncesUniqueLocally`: with
the local store no nonce is used twice, so `nonce_race` needs a database.
`ScopesIsolateInOneProcess`: without a restart no subscription hears of another
transaction, so `scope_reuse` needs a restart.

**OfflineTxProofs.** For any transactions, troubles and delivery attempts, `Spec`
implies `ReceiptIsHonoured`, `AuditLogComplete` and `OfflineTxIsTrue`. `UniqueInv`: a
message is in one place. `MessagesInv`: a message that waits has had no effect yet,
and a task has had exactly the effects that its program counter says. `OrderInv`: a
finalization implies the chain has the transaction, that a row, that a signature,
that a request. `OnceInv` and `LogInv`: while nothing fails everything happens once,
and what was published is in the log or on its way. The steps are proved along two
observations: nothing that was done is undone (`Mono`), and a message disappears only
when its work is done (`Kept`).

`StagesInOrderHolds` is the refinement of `OfflineFlow`, and `OfflineTxImplementsFlow`
says that without worker stops the path is exactly `OfflineFlow`, although calls fail.
Both need a second invariant, `StageInv`: a row is updated only when its finalization
was sent (`AnnouncedInv`), and as long as no worker stops there is one request and one
signature of a transaction, so that no signature is left once the row is Finalized
(`SingleInv`). `Inv` knows this only while nothing fails at all, which is too weak: a
failing call must not excuse a row that is put back.

**ConnectionsProofs.** For any calls, addresses and outages, `Spec` implies
`FailsOnlyAfterOutage`, `SendersAreReused` and `ShutdownClosesConnection`. The
promise of the connection is made once (`ConnectionInv`); a kept sender and a call
past the promise mean that it was fulfilled (`MadeInv`); the entry of an address is
there from the first send on (`PlaceInv`), which is why a call that makes a sender
began before any send on its address had succeeded (`FirstInv`).

**LocalMessagesProofs.** For any transactions, malformed or not, `Spec` implies
`ReceiptMeansTakenOver`. `EffectInv` says what a handler has done when its promise is
fulfilled, `OrderInv` that a service sends from a listener that is past its call, and
`ReceiptInv` that ids grow. `LocalStagesInOrderHolds`: the bus implements `OfflineFlow`
without exception, because it delivers a message once (`StageInv`: a row that is
Finalized has a submitter that is done). The two message services so run one protocol.

**AuthProofs.** For any requests, names, keys and restarts, with either store and
every choice of strategies, `Spec` implies `NamesAndKeysResolve`, `KeyDecidesUser`,
`DeletedKeyIsDead` and `CreatedKeyWorks`. A valid key leads to the user it was issued
to (`StoreInv`), what clients were told is so (`ClientInv`), and each request carries
what it may rely on at its place (`ProgressInv`, `KnowledgeInv`). The two sides that
need care are a deletion that is under way when a key is used, and a key that a later
creation might return: `NeverNew` says that this cannot be one that was deleted.
`KeysAssumption` (no generated secret is one of `API_KEYS` or an inherited name) is
what 32 random bytes give; `API_KEYS` may itself contain an inherited name.

**RequestsProofs.** For every table of routes whose paths have the shape of
`PathsAssumption` (a submission only in POST routes, after its options, followed by
the reply only; evaluated by TLC for the routes of the program), `Spec` implies
`OneTransaction`, `RunsOnlyWhenAsked` and `ErrorsComeBeforeTheRun`. The invariant
carries the shape along the rest of the path (`TodoInv`, with the lemmas about
`Tail`), and says where a request stands to its submission: `BeforeInv` (still to
come), `SubmitInv` (under way, nothing given to the chain), `AfterInv` (only the
reply is left), together with what the result (`ResultInv`) and the mode (`ModeInv`)
reveal. A second invariant, `ErrorInv`, gives `MissingIsNotFound` and
`ClientErrorsAreNotServerErrors` from `handleSdkError` and the filter. It needs
`RawFindsAssumption`: a route that documents a 404 looks nothing up by a call whose
errors are not mapped, permission groups excepted (`UnmappedLookUps`); the property
makes the same exception. TLC evaluates it for the routes of the program, so adding such
a look-up to a route makes the run fail.

`EntitiesAreLookedUp` rests on `LookUpsAssumption`: in every path, a query or a submission
on an entity comes after a step that hands this entity out. This is about the text of the
routes, and TLC evaluates it for those of the program. The theorem is about their
execution: `LookInv` carries the assumption along the rest of a path, whichever steps
resolve or reject, so that what a step needs was delivered by a step that
was *executed and succeeded* before it.

**TransferRestrictionsProofs.** `RoundTrip`: what is written is what is shown.
`SameIsEqual`: `isSameRestriction` is equality on restrictions. From these, for any
number of overlapping requests, `TypeOK`, `DuplicatesAreExact` and
`AtomicUnlessOvertaken`: the initial state and every step map to `Restrictions`, or
to the write of an addition that was overtaken. `FreshInv` is the heart of the
invariant: a list that was read and not disturbed is still the list.
`UndisturbedRequestsAreAtomic` concludes that clients who keep out of each other's
way get exactly `Restrictions`.

**Only model-checked.** All liveness (`HandshakeSettles`, `DeliverySettles`,
`ListenerReleased`, `ReceiptIsSettled`, `EveryRequestAnswered`, `CallsEnd`,
`LocalMessagesSettle`): fairness and ENABLED are out of the prover's reach. The three
assumptions on the table of routes, and the operators of `Steps` that put paths
together, are evaluated, not proved about.

**Proved beyond the runs.** `TypeOK` of `Webhooks` and of `TransferRestrictions`, and
`LocalStagesInOrder`, are theorems that no run repeats. The run of `DeliveryRetries` is
that of the local store; with a database, failing queries and restarts it is covered by
the theorem.

## 6. Not modelled

Listed with reasons in `PROJECT.json` under `components`. In short: DTO, model and
decorator classes (declarative shape; a request is valid or not), payload contents
and signatures (`assemblePayload`, HMAC), logging, the signing managers (external:
their outcome is an input), a broker connection that is lost under a running listener,
the in-memory bus with Postgres, developer utilities, start-up and commands, database
schema and test utilities.

## 7. Plan

Done: the webhook path, the AMQP path on both message services, the request
pipeline with all routes, transfer restrictions with their refinement, users and
keys, connections; a theorem for every safety property of the passing runs; the
refinements of `Restrictions`, `Retries` (twice) and `OfflineFlow` (twice).

Left: the validation decorators as operators (which combinations of fields are valid).
