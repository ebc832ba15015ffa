------------------------------ MODULE Requests ------------------------------
(***************************************************************************)
(* One HTTP request, from the guard to the answer.  The handler's path is  *)
(* taken from Routes (modules IdentityRoutes and AssetRoutes); this module *)
(* executes its steps: the look-ups and queries, extractTxOptions, the     *)
(* processing modes of TransactionsService.submit and processTransaction,  *)
(* handleServiceResult, and the error mapping of handleSdkError and        *)
(* AppErrorToHttpResponseFilter.                                           *)
(*                                                                         *)
(* Every await is a step of its own.  The chain may change between two of  *)
(* them, so each call of the SDK resolves or rejects whatever the calls    *)
(* before it did.  Requests share no state at this level: one is enough.   *)
(***************************************************************************)
EXTENDS Steps

CONSTANTS
  Routes,  \* the routes of the controllers
  Forms    \* the forms of a transaction request that are tried

VARIABLES
  request,   \* the route, the form of the request, and whether it is valid
  todo,      \* the steps of the handler that are still to be executed
  at,        \* where the request is
  options,   \* processMode of the TransactionOptionsDto in use, or "none"
  known,     \* entities that were looked up, or made from an identifier
  multiSig,  \* whether the prepared transaction is a multi-sig proposal
  prepared,  \* how often the procedure was prepared
  runs,      \* how often a transaction was given to the chain
  result,    \* the ServiceReturn
  failure,   \* where the handler threw, and what
  answer     \* the HTTP status, or 0

vars == <<request, todo, at, options, known, multiSig, prepared, runs, result, failure, answer>>

ProcessMode == {"submit", "submitWithCallback", "offline", "dryRun", "AMQP"}

AppErrorCode ==
  {"NotFound", "Conflict", "Config", "Validation", "Unauthorized", "Unprocessable", "Internal"}

\* ErrorCode of the SDK.  "NotInSigningManager" is General with the message
\* that handleSdkError looks for; "MiddlewareError" stands for the codes it
\* does not name, "Error" for what is not a PolymeshError.
SdkError ==
  {"NotInSigningManager", "General", "NoDataChange", "ValidationError", "EntityInUse",
   "InsufficientBalance", "UnmetPrerequisite", "LimitExceeded", "DataUnavailable",
   "NotAuthorized", "MiddlewareError", "Error"}

\* What getSigningAccount throws: no such handle (local, Vault), a handle that is
\* no derivation path (Fireblocks), a signing manager that cannot be reached.
SignerError == {"NotFound", "Validation", "Error"}

\* The forms of a transaction request: the processMode of its nested options, or
\* "none", and the deprecated fields beside it.
Form == [options : ProcessMode \cup {"none"}, signer : BOOLEAN, webhookUrl : BOOLEAN, dryRun : BOOLEAN]

NoForm == [options |-> "none", signer |-> FALSE, webhookUrl |-> FALSE, dryRun |-> FALSE]

NoFailure == [at |-> "nowhere", error |-> "none"]

ASSUME FormsAssumption == Forms \subseteq Form

StepRecord == [op : STRING, on : STRING, call : STRING]

ASSUME RoutesAssumption ==
  \A r \in Routes : r.verb \in {"GET", "POST"} /\ r.paths \subseteq Seq(StepRecord)

OptionOps == {"options", "bodyIsOptions"}
SubmitOps == {"submit", "submitSigned"}

\* How the handlers are written: a transaction is submitted by POST routes, after
\* its options were taken, and nothing but the reply follows; options are taken
\* only for a transaction that is submitted; a signed payload has no options.
PathShape(r, p) ==
  \A i \in 1..Len(p) :
    /\ p[i].op \in SubmitOps =>
         r.verb = "POST" /\ \A j \in (i + 1)..Len(p) : p[j].op = "reply"
    /\ p[i].op = "submit" => \E j \in 1..(i - 1) : p[j].op \in OptionOps
    /\ p[i].op = "submitSigned" =>
         r.path = "transactions/submit" /\ \A j \in 1..Len(p) : p[j].op \notin OptionOps
    /\ p[i].op \in OptionOps => \E j \in (i + 1)..Len(p) : p[j].op = "submit"

ASSUME PathsAssumption == \A r \in Routes : \A p \in r.paths : PathShape(r, p)

\* What is looked up without mapping the SDK's error although the route documents a
\* 404: a permission group that is given by its id.
UnmappedLookUps == {"group"}

\* Any other look-up that lets the SDK's error escape is made by routes that document
\* no 404.
ASSUME RawFindsAssumption ==
  \A r \in Routes : r.declares404 =>
    \A p \in r.paths : \A i \in 1..Len(p) :
      p[i].op = "find" /\ p[i].on \notin UnmappedLookUps => p[i].call = "mapped"

\* The steps after which an entity is there: a find whose error is caught is none.
DeliveringOps == {"find", "orFind", "ref"}

\* A handler calls the SDK itself, or an entity that an earlier step of it delivers.
ASSUME LookUpsAssumption ==
  \A r \in Routes : \A p \in r.paths : \A i \in 1..Len(p) :
    p[i].op \in {"query", "submit"} /\ p[i].on # "api" =>
      \E j \in 1..(i - 1) : p[j].op \in DeliveringOps /\ p[j].on = p[i].on

---------------------------------------------------------------------------
\* Mutants: a code of the SDK is forgotten.
MutNoDataUnavailable(e) ==
  CASE e \in AppErrorCode -> e
    [] e \in {"NotInSigningManager", "NoDataChange", "ValidationError", "EntityInUse"} -> "Validation"
    [] e \in {"InsufficientBalance", "UnmetPrerequisite", "LimitExceeded"} -> "Unprocessable"
    [] e = "NotAuthorized" -> "Unauthorized"
    [] OTHER -> "Internal"
MutNoUnprocessable(e) ==
  CASE e \in AppErrorCode -> e
    [] e \in {"NotInSigningManager", "NoDataChange", "ValidationError", "EntityInUse"} -> "Validation"
    [] e = "DataUnavailable" -> "NotFound"
    [] e = "NotAuthorized" -> "Unauthorized"
    [] OTHER -> "Internal"

handleSdkError(e) ==
  CASE e \in AppErrorCode -> e
    [] e \in {"NotInSigningManager", "NoDataChange", "ValidationError", "EntityInUse"} -> "Validation"
    [] e \in {"InsufficientBalance", "UnmetPrerequisite", "LimitExceeded"} -> "Unprocessable"
    [] e = "DataUnavailable" -> "NotFound"
    [] e = "NotAuthorized" -> "Unauthorized"
    [] OTHER -> "Internal"

\* The filter catches AppErrors; Nest answers 500 for any other error.
appErrorCodeToHttpStatusCode(e) ==
  CASE e = "NotFound" -> 404
    [] e = "Conflict" -> 409
    [] e = "Validation" -> 400
    [] e = "Unauthorized" -> 401
    [] e = "Unprocessable" -> 422
    [] OTHER -> 500

\* The status is set before the handler runs; 201 becomes 202 when the body has
\* a webhookUrl of its own.
successCode ==
  CASE request.verb = "GET" -> 200
    [] request.verb = "POST" /\ request.body /\ request.form.webhookUrl -> 202
    [] OTHER -> 201

\* processMode as extractTxOptions leaves it.  The check that "options" comes
\* without the deprecated fields is made on an empty list and never fails.
extractTxOptions(form) ==
  CASE form.options # "none" -> form.options
    [] form.options = "none" /\ form.dryRun -> "dryRun"
    [] form.options = "none" /\ ~form.dryRun /\ form.webhookUrl -> "submitWithCallback"
    [] OTHER -> "submit"

---------------------------------------------------------------------------
Init ==
  /\ \E r \in Routes, valid \in BOOLEAN :
       \E form \in IF r.verb = "POST" THEN Forms ELSE {NoForm}, path \in r.paths :
         /\ request = [verb |-> r.verb, path |-> r.path, declares404 |-> r.declares404,
                       params |-> r.params, body |-> r.body, form |-> form, valid |-> valid]
         /\ todo = path
  /\ at = "guard"
  /\ options = "none"
  /\ known = {"api"}
  /\ multiSig = FALSE
  /\ prepared = 0
  /\ runs = 0
  /\ result = "none"
  /\ failure = NoFailure
  /\ answer = 0

\* The handler throws e at this place and the filters answer.
Throw(where, e) ==
  /\ failure' = [at |-> where, error |-> e]
  /\ answer' = appErrorCodeToHttpStatusCode(e)
  /\ at' = "answered"
  /\ UNCHANGED <<request, todo, options, known, multiSig, prepared, runs, result>>

\* The SDK rejects with e, and the code maps the error or lets it through.  The
\* failure keeps what the SDK said.
Reject(where, mapped, e) ==
  /\ failure' = [at |-> where, error |-> e]
  /\ answer' = appErrorCodeToHttpStatusCode(IF mapped THEN handleSdkError(e) ELSE e)
  /\ at' = "answered"
  /\ UNCHANGED <<request, todo, options, known, multiSig, prepared, runs, result>>

\* A run may reject before the chain has the transaction (a refused signature) or
\* after it (a revert, a connection lost while waiting for the block).
RunRejects(mapped) ==
  \E e \in SdkError :
    /\ failure' = [at |-> "run", error |-> e]
    /\ answer' = appErrorCodeToHttpStatusCode(IF mapped THEN handleSdkError(e) ELSE e)
    /\ at' = "answered"
    /\ runs' \in {runs, runs + 1}
    /\ UNCHANGED <<request, todo, options, known, multiSig, prepared, result>>

\* What the guard answers (module Auth): no strategy takes the request, the API key
\* is unknown, or the look-up of the key fails.
GuardError == {"Unauthorized", "NotFound", "Error"}

AuthGuard ==
  /\ at = "guard"
  /\ \/ /\ at' = "pipe"
        /\ UNCHANGED <<request, todo, options, known, multiSig, prepared, runs, result, failure, answer>>
     \/ \E e \in GuardError : Throw("guard", e)

\* The ValidationPipe: a DTO whose parameter the path does not bind is never valid.
ValidationPipe ==
  /\ at = "pipe"
  /\ IF request.valid /\ request.params
     THEN /\ at' = "handler"
          /\ UNCHANGED <<request, todo, options, known, multiSig, prepared, runs, result, failure, answer>>
     ELSE Throw("pipe", "Validation")

---------------------------------------------------------------------------
\* The steps of a handler before submit.
On(op) == at = "handler" /\ todo # <<>> /\ Head(todo).op = op

\* The step is done; e is known from now on.
Done(e) ==
  /\ todo' = Tail(todo)
  /\ known' = known \cup e
  /\ UNCHANGED <<request, at, options, multiSig, prepared, runs, result, failure, answer>>

FindEntity ==
  /\ On("find")
  /\ \/ Done({Head(todo).on})
     \/ \E e \in SdkError : Reject("find", Head(todo).call = "mapped", e)

\* .catch of an AppNotFoundError: the request goes on without the entity.
TryFindEntity ==
  /\ On("tryFind")
  /\ \/ Done({Head(todo).on})
     \/ Done({})
     \/ \E e \in SdkError : handleSdkError(e) # "NotFound" /\ Reject("tryFind", TRUE, e)

\* Mutant: nothing is looked up in place of what was not found.
MutNoSecondFind == On("orFind") /\ Done({})

OrFindEntity ==
  /\ On("orFind")
  /\ IF Head(todo).on \in known
     THEN Done({})
     ELSE \/ Done({Head(todo).on})
          \/ \E e \in SdkError : Reject("find", TRUE, e)

MakeReference == On("ref") /\ Done({Head(todo).on})

QueryEntity ==
  /\ On("query")
  /\ \/ Done({})
     \/ \E e \in SdkError : Reject("query", Head(todo).call = "mapped", e)

CheckCondition == On("check") /\ (Done({}) \/ Throw("check", Head(todo).call))

DereferenceValue == On("dereference") /\ (Done({}) \/ Throw("dereference", "Error"))

\* extractTxOptions throws when neither options nor a signer is given.
ExtractOptions ==
  /\ On("options")
  /\ IF request.form.options = "none" /\ ~request.form.signer
     THEN Throw("options", "Validation")
     ELSE /\ options' = extractTxOptions(request.form)
          /\ todo' = Tail(todo)
          /\ UNCHANGED <<request, at, known, multiSig, prepared, runs, result, failure, answer>>

\* The body is a TransactionOptionsDto itself: signer and processMode are fields
\* of the request, and options is a field the pipe strips.
BodyAsOptions ==
  /\ On("bodyIsOptions")
  /\ IF request.form.signer
     THEN \/ /\ options' \in ProcessMode
             /\ todo' = Tail(todo)
             /\ UNCHANGED <<request, at, known, multiSig, prepared, runs, result, failure, answer>>
          \/ Throw("pipe", "Validation")
     ELSE Throw("pipe", "Validation")

FindSigningAccount ==
  /\ On("signingAccount")
  /\ Done({}) \/ \E e \in SignerError : Throw("signer", e)

SubmitSignedPayload ==
  /\ On("submitSigned")
  /\ \/ /\ runs' = runs + 1
        /\ todo' = Tail(todo)
        /\ UNCHANGED <<request, at, options, known, multiSig, prepared, result, failure, answer>>
     \/ RunRejects(FALSE)

---------------------------------------------------------------------------
\* TransactionsService.submit: the signing account, then the procedure is prepared,
\* then the mode decides.
Moved(next) ==
  /\ at' = next
  /\ UNCHANGED <<request, todo, options, known, multiSig, prepared, runs, result, failure, answer>>

\* submit returns r to the controller.
Return(r) ==
  /\ result' = r
  /\ todo' = Tail(todo)
  /\ at' = "handler"

SubmitSigner ==
  /\ On("submit")
  /\ Moved("prepare") \/ \E e \in SignerError : Throw("signer", e)

prepareProcedure(here, next) ==
  /\ at = here
  /\ \/ /\ at' = next
        /\ prepared' = prepared + 1
        /\ multiSig' \in BOOLEAN
        /\ UNCHANGED <<request, todo, options, known, runs, result, failure, answer>>
     \/ \E e \in SdkError : Reject("prepare", TRUE, e)

Prepare == prepareProcedure("prepare", "dispatch")

\* Mutant: the transaction is run before the subscription is created.
MutRunBeforeSubscribe ==
  /\ at = "dispatch" /\ options = "submitWithCallback"
  /\ runs' = runs + 1
  /\ \/ /\ Return("notification")
        /\ UNCHANGED <<request, options, known, multiSig, prepared, failure, answer>>
     \/ /\ failure' = [at |-> "subscribe", error |-> "Error"]
        /\ answer' = 500
        /\ at' = "answered"
        /\ UNCHANGED <<request, todo, options, known, multiSig, prepared, result>>

\* submitAndSubscribe is returned without being awaited: what it throws before it
\* submits (the repository of the subscriptions) is not mapped.  An error of run or
\* runAsProposal is only logged, also when it came before the chain had anything: the
\* notification is answered all the same.
SubmitAndSubscribe ==
  /\ at = "dispatch" /\ options = "submitWithCallback"
  /\ \/ /\ Return("notification")
        /\ runs' \in {runs, runs + 1}
        /\ UNCHANGED <<request, options, known, multiSig, prepared, failure, answer>>
     \/ Throw("subscribe", "Error")

\* beginTransaction of the offline starter, not awaited either.
BeginOfflineTransaction ==
  /\ at = "dispatch" /\ options = "AMQP"
  /\ \/ /\ Return("receipt")
        /\ UNCHANGED <<request, options, known, multiSig, prepared, runs, failure, answer>>
     \/ \E e \in SdkError : Reject("payload", FALSE, e)

\* Mutant: a mode that no branch takes.
MutOfflineForgotten ==
  /\ at = "dispatch" /\ options \notin {"submitWithCallback", "AMQP", "offline"}
  /\ Moved("process")

ProcessTransaction ==
  /\ at = "dispatch" /\ options \notin {"submitWithCallback", "AMQP"}
  /\ Moved("process")

\* processTransaction prepares the procedure once more.
PrepareAgain == prepareProcedure("process", "fees")

GetTotalFees ==
  /\ at = "fees"
  /\ Moved("mode") \/ \E e \in SdkError : Reject("fees", TRUE, e)

\* The mode is looked at in this order: dryRun, offline, everything else.
AnswerDryRun ==
  /\ at = "mode" /\ options = "dryRun"
  /\ Return(IF multiSig THEN "fakeProposal" ELSE "empty")
  /\ UNCHANGED <<request, options, known, multiSig, prepared, runs, failure, answer>>

ToSignablePayload ==
  /\ at = "mode" /\ options = "offline"
  /\ \/ /\ Return("payload")
        /\ UNCHANGED <<request, options, known, multiSig, prepared, runs, failure, answer>>
     \/ \E e \in SdkError : Reject("payload", TRUE, e)

\* Mutants: a proposal is made and the transaction run as well; the dry run is not
\* taken out before the run.
MutProposalAndRun ==
  /\ at = "mode" /\ options \notin {"dryRun", "offline"}
  /\ Return(IF multiSig THEN "proposal" ELSE "value")
  /\ runs' = runs + (IF multiSig THEN 2 ELSE 1)
  /\ UNCHANGED <<request, options, known, multiSig, prepared, failure, answer>>
MutRunAnyway ==
  /\ at = "mode" /\ options # "offline"
  /\ Return(IF multiSig THEN "proposal" ELSE "value")
  /\ runs' = runs + 1
  /\ UNCHANGED <<request, options, known, multiSig, prepared, failure, answer>>

\* run or runAsProposal, awaited until the block is final.
RunTransaction ==
  /\ at = "mode" /\ options \notin {"dryRun", "offline"}
  /\ \/ /\ Return(IF multiSig THEN "proposal" ELSE "value")
        /\ runs' = runs + 1
        /\ UNCHANGED <<request, options, known, multiSig, prepared, failure, answer>>
     \/ RunRejects(TRUE)

---------------------------------------------------------------------------
\* handleServiceResult gives the resolver of the route only the result of a
\* transaction of its own: a payload, a receipt, a notification and a proposal
\* are answered as they are.  A resolver that dereferences or reads its result
\* throws a TypeError on the empty result of a dry run.
Resolves == result \in {"value", "empty"} /\ Head(todo).call \in {"uses", "reads", "finds"}

HandleServiceResult ==
  /\ On("reply")
  /\ CASE ~Resolves -> Done({})
       [] Resolves /\ result = "empty" -> Throw("reply", "Error")
       [] Resolves /\ result = "value" /\ Head(todo).call = "uses" -> Done({})
       [] OTHER -> \/ Done({})
                   \/ \E e \in SdkError : Reject("reply", Head(todo).call = "finds", e)

Answer ==
  /\ at = "handler" /\ todo = <<>>
  /\ answer' = successCode
  /\ at' = "answered"
  /\ UNCHANGED <<request, todo, options, known, multiSig, prepared, runs, result, failure>>

Next ==
  \/ AuthGuard \/ ValidationPipe
  \/ FindEntity \/ TryFindEntity \/ OrFindEntity \/ MakeReference
  \/ QueryEntity \/ CheckCondition \/ DereferenceValue
  \/ ExtractOptions \/ BodyAsOptions \/ FindSigningAccount \/ SubmitSignedPayload
  \/ SubmitSigner \/ Prepare \/ SubmitAndSubscribe \/ BeginOfflineTransaction
  \/ ProcessTransaction \/ PrepareAgain \/ GetTotalFees
  \/ AnswerDryRun \/ ToSignablePayload \/ RunTransaction
  \/ HandleServiceResult \/ Answer

\* Promises of the SDK settle: the process takes every step it can.
Spec == Init /\ [][Next]_vars /\ WF_vars(Next)
---------------------------------------------------------------------------
Succeeded == answer \in {200, 201, 202}
Refused == answer \in {400, 401, 404, 409, 422, 500}

\* A request gives at most one transaction to the chain, although submit and
\* processTransaction each prepare it, and a success of mode submit gave exactly one.
\* (A success of submitWithCallback promises none: a run that fails is only logged.)
OneTransaction ==
  /\ runs <= 1
  /\ Succeeded /\ options = "submit" => runs = 1

\* dryRun, offline and AMQP give nothing to the chain, nor does a GET or a request
\* that ends before submit; only a payload that was signed elsewhere is submitted
\* without transaction options.
RunsOnlyWhenAsked ==
  runs > 0 => /\ request.verb = "POST"
              /\ options \in {"none", "submit", "submitWithCallback"}
              /\ options = "none" => request.path = "transactions/submit"

\* Once the transaction may be on the chain, an error is answered only when the run
\* itself rejected, or when a resolver could not read what the transaction made.
ErrorsComeBeforeTheRun ==
  Refused /\ runs > 0 => /\ failure.at \in {"run", "reply"}
                         /\ failure.at = "reply" => options = "submit" /\ ~multiSig

\* A procedure or a query is that of an entity that the request looked up (or made
\* from an identifier), also when the first look-up found nothing and another one was
\* made in its place: no handler uses what an earlier step did not deliver.
EntitiesAreLookedUp ==
  /\ at \in {"prepare", "dispatch", "process", "fees", "mode"} => Head(todo).on \in known
  /\ On("query") => Head(todo).on \in known

\* A look-up of what does not exist is answered 404 by every route that documents it,
\* also when it is made in place of another that found nothing; only a permission
\* group's is not (500).  The step that failed is still the first of todo.
MissingIsNotFound ==
  /\ failure = [at |-> "find", error |-> "DataUnavailable"] /\ request.declares404
  /\ Head(todo).on \notin UnmappedLookUps
  => answer = 404

ClientErrors ==
  {"NotInSigningManager", "NoDataChange", "ValidationError", "EntityInUse", "InsufficientBalance",
   "UnmetPrerequisite", "LimitExceeded", "DataUnavailable", "NotAuthorized"}

\* What the SDK says of the client's request while the transaction is prepared,
\* priced, made into a payload or run is a 4xx answer, whichever mode was asked for
\* (AMQP excepted: its payload is made outside of the try).
ClientErrorsAreNotServerErrors ==
  /\ failure.at \in {"prepare", "fees", "payload", "run"} /\ failure.error \in ClientErrors
  /\ options \notin {"none", "AMQP"}
  => answer \in 400..499

\* Every request is answered, whatever the SDK rejects.
EveryRequestAnswered == <>(answer # 0)
=============================================================================
