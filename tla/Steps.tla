------------------------------- MODULE Steps -------------------------------
(***************************************************************************)
(* What a request makes the server do, as data.  A method of a service or  *)
(* of a controller is the SET of the paths through it; a path is the       *)
(* sequence of the steps on which the answer of the request can depend:    *)
(* awaited calls of the SDK, checks that throw, the submission of a        *)
(* procedure, and the model that is made of its result.  Module Requests   *)
(* executes the paths.                                                     *)
(*                                                                         *)
(* A step names the entity it works on ("api" for the SDK itself) and the  *)
(* method it calls.  Building arguments and models out of values that are  *)
(* already there cannot fail and is left out.                              *)
(***************************************************************************)
EXTENDS Naturals, Sequences

Step(op, on, call) == {<<[op |-> op, on |-> on, call |-> call]>>}

\* Every path of a, followed by every path of b.
a ** b == {p \o q : p \in a, q \in b}

\* A branch that does nothing.
Skip == {<<>>}

\* p for each item of a list, with the bound of one item: the steps for a second
\* item are those of the first.
Each(p) == Skip \cup p

---------------------------------------------------------------------------
\* Calls of the SDK.  find rejects when the entity is not on the chain; a
\* "mapped" call passes its rejection through handleSdkError, a raw one lets
\* it escape as it is.  (m names the method for the reader: which query fails makes
\* no difference to the answer.)
Find(e) == Step("find", e, "mapped")
RawFind(e) == Step("find", e, "raw")
Query(e, m) == Step("query", e, "raw")
MappedQuery(e, m) == Step("query", e, "mapped")

\* An entity made from an identifier without asking the chain.
Ref(e) == Step("ref", e, "")

\* find whose AppNotFoundError is caught, and the find that then follows.
TryFind(e) == Step("tryFind", e, "mapped")
OrFind(e) == Step("orFind", e, "mapped")

\* A condition on the request or on what was read: throws an error with this
\* AppErrorCode, or goes on.
Check(code) == Step("check", "api", code)

\* A place that raises a TypeError for some values the SDK can return.
Dereference(e) == Step("dereference", e, "")

---------------------------------------------------------------------------
\* extractTxOptions(params), getSigningAccount(signer) outside of submit, and
\* transactionsService.submit(entity.method, args, options).
Options == Step("options", "api", "")
BodyIsOptions == Step("bodyIsOptions", "api", "")
SigningAccount == Step("signingAccount", "api", "")
Submit(e, m) == Step("submit", e, m)

\* network.submitTransaction: a payload that was signed elsewhere.
SubmitSigned == Step("submitSigned", "api", "submitTransaction")

\* handleServiceResult(result, resolver): basicModelResolver; a resolver that
\* only stores the result or its fields; one that dereferences what the result
\* must contain; one that reads the result from the chain; one that looks it up
\* again with a service.
Reply == Step("reply", "result", "basic")
ReplyStored == Step("reply", "result", "stores")
ReplyUsed == Step("reply", "result", "uses")
ReplyRead == Step("reply", "result", "reads")
ReplyFound == Step("reply", "result", "finds")

---------------------------------------------------------------------------
\* A route: its path, whether its decorators declare a 404 answer, and the
\* paths through its handler.
Route(verb, path, declares, paths) ==
  [verb |-> verb, path |-> path, declares404 |-> declares, params |-> TRUE,
   body |-> verb = "POST", paths |-> paths]
Get(path, declares, paths) == Route("GET", path, declares, paths)
Post(path, declares, paths) == Route("POST", path, declares, paths)

\* A route whose path does not bind the parameter that its DTO requires.
Unbound(route) == [route EXCEPT !.params = FALSE]

\* A route that takes the transaction options from the query string.
InQuery(route) == [route EXCEPT !.body = FALSE]

Answers404 == TRUE
No404 == FALSE
============================================================================
