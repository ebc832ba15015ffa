--------------------------- MODULE RequestsProofs ---------------------------
(***************************************************************************)
(* What a request does to the chain, for every set of routes whose         *)
(* handlers have the shape of PathsAssumption.                             *)
(***************************************************************************)
EXTENDS Requests, TLAPS

Submitting == {"prepare", "dispatch", "process", "fees", "mode"}

\* The shape of a path from which a prefix is gone, where o says which options
\* were taken so far.
Shape(t, o, rq) ==
  \A i \in 1..Len(t) :
    /\ t[i].op \in SubmitOps => rq.verb = "POST" /\ \A j \in (i + 1)..Len(t) : t[j].op = "reply"
    /\ t[i].op = "submit" /\ o = "none" => \E j \in 1..(i - 1) : t[j].op \in OptionOps
    /\ t[i].op = "submitSigned" =>
         /\ rq.path = "transactions/submit" /\ o = "none"
         /\ \A j \in 1..Len(t) : t[j].op \notin OptionOps
    /\ t[i].op \in OptionOps => \E j \in (i + 1)..Len(t) : t[j].op = "submit"

TodoInv == todo \in Seq(StepRecord) /\ Shape(todo, options, request)

\* While submit is under way nothing was given to the chain and nothing returned.
SubmitInv ==
  at \in Submitting =>
    /\ todo # <<>> /\ Head(todo).op = "submit"
    /\ options \in ProcessMode /\ runs = 0 /\ result = "none"

\* After it only the reply is left.
AfterInv ==
  (runs > 0 \/ result # "none") /\ at # "answered" =>
    /\ at = "handler"
    /\ \A i \in 1..Len(todo) : todo[i].op = "reply"

\* Before it the submission is still to come.
BeforeInv ==
  options # "none" /\ runs = 0 /\ result = "none" /\ at # "answered" =>
    \E i \in 1..Len(todo) : todo[i].op = "submit"

\* What the result says of the transaction.
ResultInv ==
  /\ result = "value" => options = "submit" /\ ~multiSig /\ runs = 1
  /\ result = "empty" => runs = 0
  /\ result # "none" /\ options = "submit" => runs = 1

StateInv ==
  /\ runs \in {0, 1}
  /\ options \in ProcessMode \cup {"none"}
  /\ at # "answered" => answer = 0
  /\ at \in {"guard", "pipe"} => options = "none" /\ runs = 0

\* Transactions with a callback or a queue do not come to processTransaction.
ModeInv == at \in {"process", "fees", "mode"} => options \notin {"submitWithCallback", "AMQP"}

FormInv == request.form.options \in ProcessMode \cup {"none"}

Inv ==
  /\ TodoInv /\ SubmitInv /\ AfterInv /\ BeforeInv /\ ResultInv /\ StateInv /\ ModeInv /\ FormInv
  /\ OneTransaction /\ RunsOnlyWhenAsked /\ ErrorsComeBeforeTheRun

---------------------------------------------------------------------------
\* The first step and the others, by index.
LEMMA TailFacts ==
  ASSUME NEW t \in Seq(StepRecord), t # <<>>
  PROVE  /\ Tail(t) \in Seq(StepRecord)
         /\ Len(t) \in Nat /\ Len(t) >= 1
         /\ Len(Tail(t)) = Len(t) - 1
         /\ Head(t) = t[1]
         /\ \A i \in 1..(Len(t) - 1) : Tail(t)[i] = t[i + 1]
OBVIOUS

\* A step other than the options leaves the shape.
LEMMA ShapeTail ==
  ASSUME NEW t \in Seq(StepRecord), t # <<>>, NEW o, NEW rq, Shape(t, o, rq),
         o # "none" \/ Head(t).op \notin OptionOps
  PROVE  Shape(Tail(t), o, rq)
<1>1. /\ Len(t) \in Nat /\ Len(Tail(t)) = Len(t) - 1 /\ Head(t) = t[1]
      /\ \A i \in 1..(Len(t) - 1) : Tail(t)[i] = t[i + 1]
  BY TailFacts
<1>2. SUFFICES ASSUME NEW i \in 1..(Len(t) - 1)
               PROVE /\ t[i + 1].op \in SubmitOps =>
                          rq.verb = "POST" /\ \A j \in (i + 1)..(Len(t) - 1) : t[j + 1].op = "reply"
                     /\ t[i + 1].op = "submit" /\ o = "none" =>
                          \E j \in 1..(i - 1) : t[j + 1].op \in OptionOps
                     /\ t[i + 1].op = "submitSigned" =>
                          /\ rq.path = "transactions/submit" /\ o = "none"
                          /\ \A j \in 1..(Len(t) - 1) : t[j + 1].op \notin OptionOps
                     /\ t[i + 1].op \in OptionOps =>
                          \E j \in (i + 1)..(Len(t) - 1) : t[j + 1].op = "submit"
  BY <1>1 DEF Shape
<1>3. i + 1 \in 1..Len(t)
  BY <1>1
<1>4. /\ t[i + 1].op \in SubmitOps =>
           rq.verb = "POST" /\ \A j \in (i + 2)..Len(t) : t[j].op = "reply"
      /\ t[i + 1].op = "submit" /\ o = "none" => \E j \in 1..i : t[j].op \in OptionOps
      /\ t[i + 1].op = "submitSigned" =>
           /\ rq.path = "transactions/submit" /\ o = "none"
           /\ \A j \in 1..Len(t) : t[j].op \notin OptionOps
      /\ t[i + 1].op \in OptionOps => \E j \in (i + 2)..Len(t) : t[j].op = "submit"
  BY <1>1, <1>3 DEF Shape
<1>5. ASSUME t[i + 1].op = "submit", o = "none"
      PROVE  \E j \in 1..(i - 1) : t[j + 1].op \in OptionOps
  <2>1. PICK j \in 1..i : t[j].op \in OptionOps
    BY <1>4, <1>5
  <2>2. j # 1
    BY <1>1, <1>5, <2>1
  <2> QED
    BY <2>1, <2>2, j - 1 \in 1..(i - 1), (j - 1) + 1 = j
<1>6. ASSUME t[i + 1].op \in OptionOps
      PROVE  \E j \in (i + 1)..(Len(t) - 1) : t[j + 1].op = "submit"
  <2>1. PICK j \in (i + 2)..Len(t) : t[j].op = "submit"
    BY <1>4, <1>6
  <2> QED
    BY <1>1, <2>1, j - 1 \in (i + 1)..(Len(t) - 1), (j - 1) + 1 = j
<1> QED
  BY <1>1, <1>4, <1>5, <1>6

\* Neither do the options, once they are taken: the submission they are for follows.
LEMMA ShapeOptions ==
  ASSUME NEW t \in Seq(StepRecord), t # <<>>, NEW o, NEW rq, Shape(t, o, rq),
         Head(t).op \in OptionOps, NEW new, new # "none"
  PROVE  /\ Shape(Tail(t), new, rq)
         /\ \E i \in 1..Len(Tail(t)) : Tail(t)[i].op = "submit"
<1>1. /\ Len(t) \in Nat /\ Len(t) >= 1 /\ Len(Tail(t)) = Len(t) - 1 /\ Head(t) = t[1]
      /\ \A i \in 1..(Len(t) - 1) : Tail(t)[i] = t[i + 1]
  BY TailFacts
<1>2. Shape(t, new, rq)
  BY <1>1 DEF Shape
<1>3. Shape(Tail(t), new, rq)
  BY <1>2, ShapeTail
<1>4. PICK j \in 2..Len(t) : t[j].op = "submit"
  BY <1>1 DEF Shape
<1>5. j - 1 \in 1..Len(Tail(t)) /\ Tail(t)[j - 1].op = "submit"
  BY <1>1, <1>4
<1> QED
  BY <1>3, <1>5

---------------------------------------------------------------------------
\* Every request starts in the invariant.
LEMMA InitInv == Init => Inv
<1> SUFFICES ASSUME Init PROVE Inv
  OBVIOUS
<1>1. PICK r \in Routes : todo \in r.paths /\ request.verb = r.verb /\ request.path = r.path
  BY DEF Init
<1>2. todo \in Seq(StepRecord) /\ PathShape(r, todo)
  BY <1>1, RoutesAssumption, PathsAssumption
<1>3. TodoInv
  BY <1>1, <1>2 DEF TodoInv, Shape, PathShape, Init
<1>4. FormInv
  BY FormsAssumption DEF Init, FormInv, Form, NoForm
<1> QED
  BY <1>3, <1>4 DEF Init, Inv, ModeInv, SubmitInv, AfterInv, BeforeInv, ResultInv, StateInv, Submitting,
     OneTransaction, RunsOnlyWhenAsked, ErrorsComeBeforeTheRun, Succeeded, Refused, ProcessMode

\* A step that is thrown out of the handler, with at most the chain changed.
LEMMA FailInv ==
  ASSUME Inv, UNCHANGED <<request, todo, options, multiSig, result>>, at' = "answered",
         answer' \in {400, 401, 404, 409, 422, 500},
         runs' \in {0, 1},
         runs' > 0 => RunsOnlyWhenAsked',
         runs' > 0 => /\ failure'.at \in {"run", "reply"}
                      /\ failure'.at = "reply" => options = "submit" /\ ~multiSig,
         result # "none" => runs' = runs
  PROVE  Inv'
<1>1. TodoInv'
  BY DEF Inv, TodoInv
<1>2. ResultInv'
  BY DEF Inv, ResultInv
<1>3. SubmitInv' /\ AfterInv' /\ BeforeInv'
  BY DEF SubmitInv, AfterInv, BeforeInv, Submitting
<1>4. StateInv' /\ ModeInv' /\ FormInv'
  BY DEF Inv, StateInv, ModeInv, FormInv
<1>5. OneTransaction' /\ ErrorsComeBeforeTheRun' /\ RunsOnlyWhenAsked'
  BY DEF OneTransaction, ErrorsComeBeforeTheRun, RunsOnlyWhenAsked, Succeeded, Refused
<1> QED
  BY <1>1, <1>2, <1>3, <1>4, <1>5 DEF Inv

\* A thrown error, or a rejection, answers with an error status.
LEMMA StatusFacts ==
  ASSUME NEW e
  PROVE  /\ appErrorCodeToHttpStatusCode(e) \in {400, 401, 404, 409, 422, 500}
         /\ successCode \in {200, 201, 202}
BY DEF appErrorCodeToHttpStatusCode, successCode

\* The handler throws before anything was given to the chain.
LEMMA ThrowInv ==
  ASSUME Inv, runs = 0, NEW w, NEW e, NEW m, Throw(w, e) \/ Reject(w, m, e)
  PROVE  Inv'
<1>1. /\ UNCHANGED <<request, todo, options, multiSig, result, runs>> /\ at' = "answered"
      /\ answer' \in {400, 401, 404, 409, 422, 500}
  BY StatusFacts DEF Throw, Reject
<1> QED
  BY <1>1, FailInv DEF Inv, StateInv

\* The next step of the handler is neither options nor a submission.
LEMMA DoneInv ==
  ASSUME Inv, at = "handler", todo # <<>>, NEW k, Done(k),
         Head(todo).op \notin OptionOps \cup SubmitOps
  PROVE  Inv'
<1>1. /\ Tail(todo) \in Seq(StepRecord)
      /\ Len(todo) \in Nat /\ Len(todo) >= 1 /\ Len(Tail(todo)) = Len(todo) - 1
      /\ Head(todo) = todo[1]
      /\ \A i \in 1..(Len(todo) - 1) : Tail(todo)[i] = todo[i + 1]
  BY TailFacts DEF Inv, TodoInv
<1>2. TodoInv'
  <2>1. Shape(Tail(todo), options, request)
    BY ShapeTail DEF Inv, TodoInv
  <2> QED
    BY <1>1, <2>1 DEF TodoInv, Done
<1>3. AfterInv'
  <2>1. (runs > 0 \/ result # "none") => \A i \in 1..Len(todo) : todo[i].op = "reply"
    BY DEF Inv, AfterInv
  <2>2. (runs > 0 \/ result # "none") => \A i \in 1..(Len(todo) - 1) : Tail(todo)[i].op = "reply"
    BY <1>1, <2>1
  <2> QED
    BY <1>1, <2>2 DEF AfterInv, Done
<1>4. BeforeInv'
  <2> SUFFICES ASSUME options # "none", runs = 0, result = "none"
               PROVE  \E i \in 1..(Len(todo) - 1) : Tail(todo)[i].op = "submit"
    BY <1>1 DEF BeforeInv, Done
  <2>1. PICK i \in 1..Len(todo) : todo[i].op = "submit"
    BY DEF Inv, BeforeInv
  <2>2. i # 1
    BY <1>1, <2>1 DEF SubmitOps
  <2>3. i - 1 \in 1..(Len(todo) - 1) /\ Tail(todo)[i - 1] = todo[(i - 1) + 1] /\ (i - 1) + 1 = i
    BY <1>1, <2>2
  <2> QED
    BY <2>1, <2>3
<1>5. SubmitInv' /\ ResultInv' /\ StateInv' /\ ModeInv' /\ FormInv'
  BY DEF Inv, ModeInv, FormInv, SubmitInv, ResultInv, StateInv, Done, Submitting
<1>6. OneTransaction' /\ RunsOnlyWhenAsked' /\ ErrorsComeBeforeTheRun'
  BY DEF Inv, OneTransaction, RunsOnlyWhenAsked, ErrorsComeBeforeTheRun, Succeeded, Refused, Done
<1> QED
  BY <1>2, <1>3, <1>4, <1>5, <1>6 DEF Inv

\* Before the submission, a step of the handler that is not the reply finds nothing
\* given to the chain.
LEMMA NotYetRun ==
  ASSUME Inv, at = "handler", todo # <<>>, Head(todo).op # "reply"
  PROVE  runs = 0 /\ result = "none"
<1>1. Head(todo) = todo[1] /\ Len(todo) \in Nat /\ Len(todo) >= 1
  BY TailFacts DEF Inv, TodoInv
<1> QED
  BY <1>1 DEF Inv, AfterInv, StateInv

\* The options are taken.
LEMMA OptionsInv ==
  ASSUME Inv, at = "handler", todo # <<>>, Head(todo).op \in OptionOps,
         options' \in ProcessMode, todo' = Tail(todo),
         UNCHANGED <<request, at, known, multiSig, prepared, runs, result, failure, answer>>
  PROVE  Inv'
<1>1. runs = 0 /\ result = "none"
  BY NotYetRun DEF OptionOps
<1>2. options' # "none"
  BY DEF ProcessMode
<1>3. /\ Tail(todo) \in Seq(StepRecord) /\ Shape(Tail(todo), options', request)
      /\ \E i \in 1..Len(Tail(todo)) : Tail(todo)[i].op = "submit"
  BY <1>2, TailFacts, ShapeOptions DEF Inv, TodoInv
<1>4. TodoInv' /\ BeforeInv'
  BY <1>3 DEF TodoInv, BeforeInv
<1> QED
  BY <1>1, <1>4 DEF Inv, ModeInv, FormInv, SubmitInv, AfterInv, ResultInv, StateInv, Submitting, OneTransaction,
     RunsOnlyWhenAsked, ErrorsComeBeforeTheRun, Succeeded, Refused

\* A step inside of submit that leaves the chain and the result alone.
LEMMA WithinSubmit ==
  ASSUME Inv, at \in Submitting \/ (at = "handler" /\ todo # <<>> /\ Head(todo).op = "submit"),
         at' \in Submitting,
         at \in {"process", "fees", "mode"} \/ at' \notin {"process", "fees", "mode"}
           \/ options \notin {"submitWithCallback", "AMQP"},
         UNCHANGED <<request, todo, options, known, runs, result, failure, answer>>
  PROVE  Inv'
<1>1. todo # <<>> /\ Head(todo).op = "submit" /\ runs = 0 /\ result = "none"
  BY NotYetRun DEF Inv, SubmitInv
<1>2. Head(todo) = todo[1] /\ Len(todo) \in Nat /\ Len(todo) >= 1
  BY <1>1, TailFacts DEF Inv, TodoInv
<1>3. options \in ProcessMode
  <2>1. todo[1].op = "submit" /\ 1 \in 1..Len(todo)
    BY <1>1, <1>2
  <2>2. options # "none"
    BY <2>1, ~\E j \in 1..(1 - 1) : TRUE DEF Inv, TodoInv, Shape
  <2> QED
    BY <2>2 DEF Inv, StateInv
<1>4. at # "answered" /\ at' # "answered"
  BY DEF Submitting
<1>5. TodoInv' /\ BeforeInv'
  BY <1>4 DEF Inv, TodoInv, BeforeInv
<1>6. SubmitInv' /\ AfterInv' /\ ResultInv'
  BY <1>1, <1>3 DEF SubmitInv, AfterInv, ResultInv
<1>7. StateInv' /\ ModeInv' /\ FormInv'
  BY <1>1, <1>4 DEF Inv, StateInv, ModeInv, FormInv, Submitting
<1> QED
  BY <1>1, <1>5, <1>6, <1>7 DEF Inv, OneTransaction, RunsOnlyWhenAsked,
     ErrorsComeBeforeTheRun, Succeeded, Refused, StateInv

\* submit returns, with the transaction given to the chain in a submitting mode only.
LEMMA ReturnInv ==
  ASSUME Inv, at \in Submitting, NEW r, Return(r), r # "none",
         UNCHANGED <<request, options, known, multiSig, prepared, failure, answer>>,
         runs' \in {0, 1}, options = "submit" => runs' = 1,
         runs' = 1 => options \in {"submit", "submitWithCallback"},
         r = "value" => options = "submit" /\ ~multiSig,
         r = "empty" => options = "dryRun"
  PROVE  Inv'
<1>1. todo # <<>> /\ Head(todo).op = "submit" /\ options \in ProcessMode /\ runs = 0
  BY DEF Inv, SubmitInv
<1>2. /\ Tail(todo) \in Seq(StepRecord)
      /\ Len(todo) \in Nat /\ Len(todo) >= 1 /\ Len(Tail(todo)) = Len(todo) - 1
      /\ Head(todo) = todo[1]
      /\ \A i \in 1..(Len(todo) - 1) : Tail(todo)[i] = todo[i + 1]
  BY <1>1, TailFacts DEF Inv, TodoInv
<1>3. request.verb = "POST" /\ \A j \in 2..Len(todo) : todo[j].op = "reply"
  BY <1>1, <1>2 DEF Inv, TodoInv, Shape, SubmitOps
<1>4. \A i \in 1..(Len(todo) - 1) : Tail(todo)[i].op = "reply"
  BY <1>2, <1>3
<1>5. TodoInv'
  <2>1. Shape(Tail(todo), options, request)
    BY <1>1, ShapeTail DEF Inv, TodoInv, OptionOps
  <2> QED
    BY <1>2, <2>1 DEF TodoInv, Return
<1>6. AfterInv' /\ SubmitInv' /\ BeforeInv'
  BY <1>2, <1>4 DEF AfterInv, SubmitInv, BeforeInv, Submitting, Return
<1>7. ResultInv'
  BY DEF ResultInv, Return
<1>8. StateInv' /\ ModeInv' /\ FormInv'
  BY <1>1 DEF Inv, StateInv, ModeInv, FormInv, Return, Submitting
<1>9. answer = 0 /\ answer' = 0
  BY DEF Inv, StateInv, Submitting
<1>10. OneTransaction' /\ RunsOnlyWhenAsked' /\ ErrorsComeBeforeTheRun'
  BY <1>1, <1>3, <1>9 DEF OneTransaction, RunsOnlyWhenAsked, ErrorsComeBeforeTheRun, Succeeded,
     Refused, ProcessMode
<1> QED
  BY <1>5, <1>6, <1>7, <1>8, <1>10 DEF Inv

---------------------------------------------------------------------------
\* Every step of a request keeps the invariant.
LEMMA NextInv == Inv /\ [Next]_vars => Inv'
<1> SUFFICES ASSUME Inv, [Next]_vars PROVE Inv'
  OBVIOUS
<1>run. at \in {"guard", "pipe"} \/ at \in Submitting => runs = 0
  BY DEF Inv, StateInv, SubmitInv
<1>0. ASSUME UNCHANGED vars PROVE Inv'
  BY <1>0 DEF vars, Inv, ModeInv, FormInv, TodoInv, SubmitInv, AfterInv, BeforeInv, ResultInv, StateInv,
     OneTransaction, RunsOnlyWhenAsked, ErrorsComeBeforeTheRun, Succeeded, Refused
<1>1. ASSUME AuthGuard PROVE Inv'
  <2>1. ASSUME NEW e \in GuardError, Throw("guard", e) PROVE Inv'
    BY <1>1, <1>run, <2>1, ThrowInv DEF AuthGuard
  <2>2. ASSUME Moved("pipe") PROVE Inv'
    BY <1>1, <2>2 DEF AuthGuard, Moved, Inv, ModeInv, FormInv, TodoInv, SubmitInv, AfterInv, BeforeInv, ResultInv,
       StateInv, Submitting, OneTransaction, RunsOnlyWhenAsked, ErrorsComeBeforeTheRun, Succeeded, Refused
  <2> QED
    BY <1>1, <2>1, <2>2 DEF AuthGuard, Moved
<1>2. ASSUME ValidationPipe PROVE Inv'
  <2>1. ASSUME Throw("pipe", "Validation") PROVE Inv'
    BY <1>2, <1>run, <2>1, ThrowInv DEF ValidationPipe
  <2>2. ASSUME Moved("handler") PROVE Inv'
    BY <1>2, <2>2 DEF ValidationPipe, Moved, Inv, ModeInv, FormInv, TodoInv, SubmitInv, AfterInv, BeforeInv,
       ResultInv, StateInv, Submitting, OneTransaction, RunsOnlyWhenAsked, ErrorsComeBeforeTheRun, Succeeded, Refused
  <2> QED
    BY <1>2, <2>1, <2>2 DEF ValidationPipe, Moved
<1>3. ASSUME FindEntity \/ TryFindEntity \/ OrFindEntity \/ MakeReference \/ QueryEntity
             \/ CheckCondition \/ DereferenceValue \/ FindSigningAccount
      PROVE Inv'
  <2>1. at = "handler" /\ todo # <<>> /\ Head(todo).op \notin OptionOps \cup SubmitOps \cup {"reply"}
    BY <1>3 DEF FindEntity, TryFindEntity, OrFindEntity, MakeReference, QueryEntity, CheckCondition,
       DereferenceValue, FindSigningAccount, On, OptionOps, SubmitOps
  <2>2. runs = 0
    BY <2>1, NotYetRun
  <2>3. \/ \E k : Done(k)
        \/ \E w, e, m : Throw(w, e) \/ Reject(w, m, e)
    BY <1>3 DEF FindEntity, TryFindEntity, OrFindEntity, MakeReference, QueryEntity, CheckCondition,
       DereferenceValue, FindSigningAccount
  <2>4. ASSUME NEW k, Done(k) PROVE Inv'
    BY <2>1, <2>4, DoneInv
  <2>5. ASSUME NEW w, NEW e, NEW m, Throw(w, e) \/ Reject(w, m, e) PROVE Inv'
    BY <2>2, <2>5, ThrowInv
  <2> QED
    BY <2>3, <2>4, <2>5
<1>4. ASSUME ExtractOptions \/ BodyAsOptions PROVE Inv'
  <2>1. at = "handler" /\ todo # <<>> /\ Head(todo).op \in OptionOps
    BY <1>4 DEF ExtractOptions, BodyAsOptions, On, OptionOps
  <2>2. runs = 0
    BY <2>1, NotYetRun DEF OptionOps
  <2>3. ASSUME \E w, e : Throw(w, e) PROVE Inv'
    BY <2>2, <2>3, ThrowInv
  <2>4. ASSUME ~\E w, e : Throw(w, e) PROVE Inv'
    <3>1. /\ options' \in ProcessMode /\ todo' = Tail(todo)
          /\ UNCHANGED <<request, at, known, multiSig, prepared, runs, result, failure, answer>>
      <4>1. CASE ExtractOptions
        <5>1. options' = extractTxOptions(request.form) /\ todo' = Tail(todo)
              /\ UNCHANGED <<request, at, known, multiSig, prepared, runs, result, failure, answer>>
          BY <2>4, <4>1 DEF ExtractOptions
        <5>2. extractTxOptions(request.form) \in ProcessMode
          <6>1. request.form.options # "none" => request.form.options \in ProcessMode
            BY DEF Inv, FormInv
          <6> QED
            BY <6>1 DEF extractTxOptions, ProcessMode
        <5> QED
          BY <5>1, <5>2
      <4>2. CASE BodyAsOptions
        BY <2>4, <4>2 DEF BodyAsOptions
      <4> QED
        BY <1>4, <4>1, <4>2
    <3> QED
      BY <2>1, <3>1, OptionsInv
  <2> QED
    BY <2>3, <2>4
<1>5. ASSUME SubmitSignedPayload PROVE Inv'
  <2>1. at = "handler" /\ todo # <<>> /\ Head(todo).op = "submitSigned"
    BY <1>5 DEF SubmitSignedPayload, On
  <2>2. runs = 0 /\ result = "none"
    BY <2>1, NotYetRun
  <2>3. /\ Tail(todo) \in Seq(StepRecord)
        /\ Len(todo) \in Nat /\ Len(todo) >= 1 /\ Len(Tail(todo)) = Len(todo) - 1
        /\ Head(todo) = todo[1]
        /\ \A i \in 1..(Len(todo) - 1) : Tail(todo)[i] = todo[i + 1]
    BY <2>1, TailFacts DEF Inv, TodoInv
  <2>4. /\ request.verb = "POST" /\ request.path = "transactions/submit" /\ options = "none"
        /\ \A j \in 2..Len(todo) : todo[j].op = "reply"
    BY <2>1, <2>3 DEF Inv, TodoInv, Shape, SubmitOps
  <2>5. ASSUME RunRejects(FALSE) PROVE Inv'
    <3>1. /\ UNCHANGED <<request, todo, options, multiSig, result>> /\ at' = "answered"
          /\ answer' \in {400, 401, 404, 409, 422, 500}
          /\ runs' \in {0, 1} /\ failure'.at = "run"
      BY <2>2, <2>5, StatusFacts DEF RunRejects
    <3> QED
      BY <2>2, <2>4, <3>1, FailInv DEF RunsOnlyWhenAsked
  <2>6. ASSUME ~RunRejects(FALSE) PROVE Inv'
    <3>0. /\ runs' = runs + 1 /\ todo' = Tail(todo)
          /\ UNCHANGED <<request, at, options, known, multiSig, prepared, result, failure, answer>>
      BY <1>5, <2>6, Zenon DEF SubmitSignedPayload
    <3>1. /\ runs' = 1 /\ todo' = Tail(todo)
          /\ UNCHANGED <<request, at, options, known, multiSig, prepared, result, failure, answer>>
      BY <2>2, <3>0
    <3>2. TodoInv'
      <4>1. Shape(Tail(todo), options, request)
        BY <2>1, ShapeTail DEF Inv, TodoInv, OptionOps
      <4> QED
        BY <2>3, <3>1, <4>1 DEF TodoInv
    <3>3. AfterInv'
      BY <2>1, <2>3, <2>4, <3>1 DEF AfterInv
    <3> QED
      BY <2>1, <2>2, <2>4, <3>1, <3>2, <3>3 DEF Inv, ModeInv, FormInv, SubmitInv, BeforeInv, ResultInv, StateInv,
         Submitting, OneTransaction, RunsOnlyWhenAsked, ErrorsComeBeforeTheRun, Succeeded, Refused
  <2> QED
    BY <2>5, <2>6
<1>6. ASSUME SubmitSigner PROVE Inv'
  <2>1. at = "handler" /\ todo # <<>> /\ Head(todo).op = "submit"
    BY <1>6 DEF SubmitSigner, On
  <2>2. runs = 0
    BY <2>1, NotYetRun
  <2>3. ASSUME Moved("prepare") PROVE Inv'
    BY <2>1, <2>3, WithinSubmit DEF Moved, Submitting
  <2>4. ASSUME NEW e, Throw("signer", e) PROVE Inv'
    BY <2>2, <2>4, ThrowInv
  <2> QED
    BY <1>6, <2>3, <2>4 DEF SubmitSigner
<1>7. ASSUME Prepare \/ PrepareAgain \/ ProcessTransaction \/ GetTotalFees PROVE Inv'
  <2>1. at \in Submitting /\ runs = 0
    BY <1>7, <1>run DEF Prepare, PrepareAgain, prepareProcedure, ProcessTransaction, GetTotalFees, Submitting
  <2>2. \/ /\ at' \in Submitting
           /\ \/ at \in {"process", "fees", "mode"} \/ at' \notin {"process", "fees", "mode"}
              \/ options \notin {"submitWithCallback", "AMQP"}
           /\ UNCHANGED <<request, todo, options, known, runs, result, failure, answer>>
        \/ \E w, e, m : Reject(w, m, e)
    BY <1>7 DEF Prepare, PrepareAgain, prepareProcedure, ProcessTransaction, GetTotalFees, Moved, Submitting
  <2>3. ASSUME NEW w, NEW e, NEW m, Reject(w, m, e) PROVE Inv'
    BY <2>1, <2>3, ThrowInv
  <2> QED
    BY <2>1, <2>2, <2>3, WithinSubmit
<1>8. ASSUME SubmitAndSubscribe \/ BeginOfflineTransaction \/ AnswerDryRun \/ ToSignablePayload
             \/ RunTransaction
      PROVE Inv'
  <2>1. at \in Submitting /\ runs = 0 /\ options \in ProcessMode /\ result = "none"
    BY <1>8, <1>run DEF SubmitAndSubscribe, BeginOfflineTransaction, AnswerDryRun, ToSignablePayload,
       RunTransaction, Submitting, Inv, SubmitInv
  <2>2. request.verb = "POST"
    <3>1. todo # <<>> /\ Head(todo).op = "submit"
      BY <2>1 DEF Inv, SubmitInv
    <3>2. Head(todo) = todo[1] /\ Len(todo) \in Nat /\ Len(todo) >= 1
      BY <3>1, TailFacts DEF Inv, TodoInv
    <3> QED
      BY <3>1, <3>2 DEF Inv, TodoInv, Shape, SubmitOps
  <2>3. ASSUME NEW w, NEW e, NEW m, Throw(w, e) \/ Reject(w, m, e) PROVE Inv'
    BY <2>1, <2>3, ThrowInv
  <2>4. ASSUME RunRejects(TRUE), RunTransaction, at = "mode" PROVE Inv'
    <3>1. /\ UNCHANGED <<request, todo, options, multiSig, result>> /\ at' = "answered"
          /\ answer' \in {400, 401, 404, 409, 422, 500}
          /\ runs' \in {0, 1} /\ failure'.at = "run"
      BY <2>1, <2>4, StatusFacts DEF RunRejects
    <3>2. options \in {"submit", "submitWithCallback"}
      BY <2>1, <2>4 DEF RunTransaction, ProcessMode, Inv, ModeInv
    <3> QED
      BY <2>1, <2>2, <3>1, <3>2, FailInv DEF RunsOnlyWhenAsked
  <2>5. ASSUME NEW r, Return(r), r # "none",
               UNCHANGED <<request, options, known, multiSig, prepared, failure, answer>>,
               runs' \in {0, 1}, options = "submit" => runs' = 1,
               runs' = 1 => options \in {"submit", "submitWithCallback"},
               r = "value" => options = "submit" /\ ~multiSig,
               r = "empty" => options = "dryRun"
        PROVE Inv'
    BY <2>1, <2>5, ReturnInv
  <2>6. CASE SubmitAndSubscribe
    <3>1. CASE Throw("subscribe", "Error")
      BY <2>3, <3>1
    <3>2. CASE /\ Return("notification") /\ runs' \in {runs, runs + 1}
               /\ UNCHANGED <<request, options, known, multiSig, prepared, failure, answer>>
      <4>1. runs' \in {0, 1} /\ options = "submitWithCallback"
        BY <2>1, <2>6, <3>2 DEF SubmitAndSubscribe
      <4> QED
        BY <2>5, <3>2, <4>1
    <3> QED
      BY <2>6, <3>1, <3>2 DEF SubmitAndSubscribe
  <2>7. CASE BeginOfflineTransaction
    <3>1. ASSUME NEW e, Reject("payload", FALSE, e) PROVE Inv'
      BY <2>3, <3>1
    <3>2. CASE /\ Return("receipt")
               /\ UNCHANGED <<request, options, known, multiSig, prepared, runs, failure, answer>>
      <4>1. runs' = 0 /\ options = "AMQP"
        BY <2>1, <2>7, <3>2 DEF BeginOfflineTransaction
      <4> QED
        BY <2>5, <3>2, <4>1
    <3> QED
      BY <2>7, <3>1, <3>2 DEF BeginOfflineTransaction
  <2>8. CASE AnswerDryRun
    <3> DEFINE r == IF multiSig THEN "fakeProposal" ELSE "empty"
    <3>1. /\ Return(r) /\ runs' = 0 /\ options = "dryRun"
          /\ UNCHANGED <<request, options, known, multiSig, prepared, failure, answer>>
      BY <2>1, <2>8 DEF AnswerDryRun
    <3>2. r # "none" /\ r # "value"
      OBVIOUS
    <3> HIDE DEF r
    <3> QED
      BY <2>5, <3>1, <3>2
  <2>9. CASE ToSignablePayload
    <3>1. ASSUME NEW e, Reject("payload", TRUE, e) PROVE Inv'
      BY <2>3, <3>1
    <3>2. CASE /\ Return("payload")
               /\ UNCHANGED <<request, options, known, multiSig, prepared, runs, failure, answer>>
      <4>1. runs' = 0 /\ options = "offline"
        BY <2>1, <2>9, <3>2 DEF ToSignablePayload
      <4> QED
        BY <2>5, <3>2, <4>1
    <3> QED
      BY <2>9, <3>1, <3>2 DEF ToSignablePayload
  <2>10. CASE RunTransaction
    <3>1. at = "mode" /\ options \in {"submit", "submitWithCallback"} /\ options = "submit"
      BY <2>1, <2>10 DEF RunTransaction, ProcessMode, Inv, ModeInv
    <3>2. ASSUME RunRejects(TRUE) PROVE Inv'
      BY <2>4, <2>10, <3>1, <3>2
    <3>3. ASSUME ~RunRejects(TRUE) PROVE Inv'
      <4>1. /\ Return(IF multiSig THEN "proposal" ELSE "value") /\ runs' = runs + 1
            /\ UNCHANGED <<request, options, known, multiSig, prepared, failure, answer>>
        BY <2>10, <3>3, Zenon DEF RunTransaction
      <4>2. runs' = 1 /\ options = "submit"
        BY <2>1, <3>1, <4>1
      <4> DEFINE r == IF multiSig THEN "proposal" ELSE "value"
      <4>3. r # "none" /\ r # "empty" /\ (r = "value" => ~multiSig)
        OBVIOUS
      <4>4. Return(r)
        BY <4>1
      <4> HIDE DEF r
      <4> QED
        BY <2>5, <3>1, <4>1, <4>2, <4>3, <4>4
    <3> QED
      BY <3>2, <3>3
  <2> QED
    BY <1>8, <2>6, <2>7, <2>8, <2>9, <2>10
<1>9. ASSUME HandleServiceResult PROVE Inv'
  <2>1. at = "handler" /\ todo # <<>> /\ Head(todo).op \notin OptionOps \cup SubmitOps
    BY <1>9 DEF HandleServiceResult, On, OptionOps, SubmitOps
  <2>2. \/ Done({})
        \/ result \in {"value", "empty"} /\ \E e, m : Throw("reply", e) \/ Reject("reply", m, e)
    BY <1>9 DEF HandleServiceResult, Resolves
  <2>3. ASSUME result \in {"value", "empty"}, NEW e, NEW m, Throw("reply", e) \/ Reject("reply", m, e)
        PROVE Inv'
    <3>1. /\ UNCHANGED <<request, todo, options, multiSig, result, runs>> /\ at' = "answered"
          /\ answer' \in {400, 401, 404, 409, 422, 500} /\ failure'.at = "reply"
      BY <2>3, StatusFacts DEF Throw, Reject
    <3>2. runs > 0 => options = "submit" /\ ~multiSig
      BY <2>3 DEF Inv, ResultInv
    <3>3. runs \in {0, 1} /\ RunsOnlyWhenAsked'
      BY <3>1 DEF Inv, StateInv, RunsOnlyWhenAsked
    <3> QED
      BY <3>1, <3>2, <3>3, FailInv
  <2> QED
    BY <2>1, <2>2, <2>3, DoneInv
<1>10. ASSUME Answer PROVE Inv'
  <2>1. /\ at = "handler" /\ todo = <<>> /\ answer' \in {200, 201, 202} /\ at' = "answered"
        /\ UNCHANGED <<request, todo, options, multiSig, runs, result>>
    BY <1>10, StatusFacts DEF Answer
  <2>2. options = "submit" => runs = 1
    <3>1. Len(todo) = 0
      BY <2>1
    <3>2. ~\E i \in 1..Len(todo) : todo[i].op = "submit"
      BY <3>1
    <3> QED
      BY <2>1, <3>2 DEF Inv, BeforeInv, ResultInv, StateInv
  <2> QED
    BY <2>1, <2>2 DEF Inv, TodoInv, SubmitInv, AfterInv, BeforeInv, ResultInv, StateInv, ModeInv, FormInv,
       Submitting, OneTransaction, RunsOnlyWhenAsked, ErrorsComeBeforeTheRun, Succeeded, Refused
<1> QED
  BY <1>0, <1>1, <1>2, <1>3, <1>4, <1>5, <1>6, <1>7, <1>8, <1>9, <1>10 DEF Next

\* The invariant holds in every state of every request.
LEMMA InvHolds == Spec => []Inv
BY InitInv, NextInv, PTL DEF Spec

\* A request gives at most one transaction to the chain although the procedure is
\* prepared twice, and a success of mode submit gave exactly one.
THEOREM OneTransactionHolds == Spec => []OneTransaction
<1>1. Inv => OneTransaction
  BY DEF Inv
<1> QED
  BY <1>1, InvHolds, PTL

\* Dry runs, offline payloads, queued transactions and queries give nothing to it.
THEOREM RunsOnlyWhenAskedHolds == Spec => []RunsOnlyWhenAsked
<1>1. Inv => RunsOnlyWhenAsked
  BY DEF Inv
<1> QED
  BY <1>1, InvHolds, PTL

\* Once a transaction may be on the chain, only the run itself or a resolver that reads
\* its outcome can turn the answer into an error.
THEOREM ErrorsComeBeforeTheRunHolds == Spec => []ErrorsComeBeforeTheRun
<1>1. Inv => ErrorsComeBeforeTheRun
  BY DEF Inv
<1> QED
  BY <1>1, InvHolds, PTL

---------------------------------------------------------------------------
(* What an error of the SDK is answered with.                              *)

ErrorInv ==
  /\ at # "answered" => failure = NoFailure
  /\ request.declares404 =>
       \A i \in 1..Len(todo) :
         todo[i].op = "find" /\ todo[i].on \notin UnmappedLookUps => todo[i].call = "mapped"
  /\ MissingIsNotFound /\ ClientErrorsAreNotServerErrors

\* handleSdkError and the filter: a client error is a 4xx, a missing entity a 404.
LEMMA MappedErrors ==
  ASSUME NEW e
  PROVE  /\ e = "DataUnavailable" => appErrorCodeToHttpStatusCode(handleSdkError(e)) = 404
         /\ e \in ClientErrors => appErrorCodeToHttpStatusCode(handleSdkError(e)) \in 400..499
BY DEF appErrorCodeToHttpStatusCode, handleSdkError, ClientErrors, AppErrorCode

\* A step that throws nothing.
LEMMA ErrorQuiet ==
  ASSUME Inv, ErrorInv, at # "answered", UNCHANGED <<request, failure>>,
         todo' = todo \/ (todo # <<>> /\ todo' = Tail(todo))
  PROVE  ErrorInv'
<1>1. failure' = NoFailure
  BY DEF ErrorInv
<1>2. MissingIsNotFound' /\ ClientErrorsAreNotServerErrors'
  BY <1>1 DEF NoFailure, MissingIsNotFound, ClientErrorsAreNotServerErrors
<1>3. ASSUME request.declares404, NEW i \in 1..Len(todo'), todo'[i].op = "find",
             todo'[i].on \notin UnmappedLookUps
      PROVE  todo'[i].call = "mapped"
  <2>1. CASE todo' = todo
    BY <1>3, <2>1 DEF ErrorInv
  <2>2. CASE todo # <<>> /\ todo' = Tail(todo)
    <3>1. /\ Len(todo) \in Nat /\ Len(todo') = Len(todo) - 1
          /\ \A j \in 1..(Len(todo) - 1) : todo'[j] = todo[j + 1]
      BY <2>2, TailFacts DEF Inv, TodoInv
    <3>2. todo'[i] = todo[i + 1] /\ i + 1 \in 1..Len(todo)
      BY <3>1
    <3> QED
      BY <1>3, <3>2 DEF ErrorInv
  <2> QED
    BY <2>1, <2>2
<1> QED
  BY <1>1, <1>2, <1>3 DEF ErrorInv

\* A step that throws e at w.
LEMMA ErrorThrown ==
  ASSUME ErrorInv, NEW w, NEW e, failure' = [at |-> w, error |-> e], at' = "answered",
         UNCHANGED <<request, todo, options>>,
         w = "find" /\ e = "DataUnavailable" /\ request.declares404 /\ Head(todo).on \notin UnmappedLookUps
           => answer' = 404,
         w \in {"prepare", "fees", "payload", "run"} /\ e \in ClientErrors /\ options \notin {"none", "AMQP"}
           => answer' \in 400..499
  PROVE  ErrorInv'
<1>1. failure'.at = w /\ failure'.error = e
  OBVIOUS
<1>2. MissingIsNotFound'
  BY <1>1 DEF MissingIsNotFound
<1>3. ClientErrorsAreNotServerErrors'
  BY <1>1 DEF ClientErrorsAreNotServerErrors, ClientErrors
<1> QED
  BY <1>2, <1>3 DEF ErrorInv

\* An error that the code itself throws, and a rejection that is mapped.
LEMMA ErrorCases ==
  ASSUME ErrorInv, NEW w, NEW e, NEW m,
         \/ Throw(w, e) /\ w \notin {"find", "prepare", "fees", "payload", "run"}
         \/ Reject(w, m, e) /\ w \notin {"find", "prepare", "fees", "payload", "run"}
         \/ Reject(w, TRUE, e)
         \/ Reject(w, m, e) /\ w = "payload" /\ options = "AMQP"
  PROVE  ErrorInv'
<1>1. /\ failure' = [at |-> w, error |-> e] /\ at' = "answered" /\ UNCHANGED <<request, todo, options>>
  BY DEF Throw, Reject
<1>2. CASE w \notin {"find", "prepare", "fees", "payload", "run"}
  BY <1>1, <1>2, ErrorThrown
<1>3. CASE Reject(w, TRUE, e)
  <2>1. answer' = appErrorCodeToHttpStatusCode(handleSdkError(e))
    BY <1>3 DEF Reject
  <2> QED
    BY <1>1, <2>1, MappedErrors, ErrorThrown
<1>4. CASE w = "payload" /\ options = "AMQP"
  BY <1>1, <1>4, ErrorThrown
<1> QED
  BY <1>2, <1>3, <1>4

\* The same, at the points of the code that throw without asking the SDK about the
\* request, and wherever the error is mapped.
LEMMA ErrorsElsewhere ==
  ASSUME ErrorInv, NEW e, NEW m,
         NEW w \in {"auth", "pipe", "tryFind", "query", "check", "dereference", "signer", "options", "subscribe", "reply"},
         Throw(w, e) \/ Reject(w, m, e)
  PROVE  ErrorInv'
<1>1. w \notin {"find", "prepare", "fees", "payload", "run"}
  OBVIOUS
<1> QED
  BY <1>1, ErrorCases

LEMMA ErrorsMapped ==
  ASSUME ErrorInv, NEW w, NEW e, Reject(w, TRUE, e)
  PROVE  ErrorInv'
BY ErrorCases

LEMMA ErrorInvInit == Init => ErrorInv
<1> SUFFICES ASSUME Init PROVE ErrorInv
  OBVIOUS
<1>1. PICK r \in Routes : todo \in r.paths /\ request.declares404 = r.declares404
  BY DEF Init
<1>2. request.declares404 =>
        \A i \in 1..Len(todo) :
          todo[i].op = "find" /\ todo[i].on \notin UnmappedLookUps => todo[i].call = "mapped"
  BY <1>1, RawFindsAssumption
<1> QED
  BY <1>2 DEF Init, ErrorInv, NoFailure, MissingIsNotFound, ClientErrorsAreNotServerErrors

LEMMA ErrorInvNext == Inv /\ ErrorInv /\ [Next]_vars => ErrorInv'
<1> SUFFICES ASSUME Inv, ErrorInv, [Next]_vars PROVE ErrorInv'
  OBVIOUS
<1>0. CASE UNCHANGED vars
  BY <1>0 DEF vars, ErrorInv, MissingIsNotFound, ClientErrorsAreNotServerErrors
<1>1. CASE AuthGuard \/ ValidationPipe
  BY <1>1, ErrorQuiet, ErrorCases DEF AuthGuard, ValidationPipe
<1>2. CASE FindEntity
  <2>1. at = "handler" /\ todo # <<>> /\ Head(todo).op = "find"
    BY <1>2 DEF FindEntity, On
  <2>2. ASSUME NEW e \in SdkError, Reject("find", Head(todo).call = "mapped", e) PROVE ErrorInv'
    <3>1. Head(todo) = todo[1] /\ 1 \in 1..Len(todo)
      BY <2>1, TailFacts DEF Inv, TodoInv
    <3>2. request.declares404 /\ Head(todo).on \notin UnmappedLookUps => Head(todo).call = "mapped"
      BY <2>1, <3>1 DEF ErrorInv
    <3>3. failure' = [at |-> "find", error |-> e] /\ at' = "answered" /\ UNCHANGED <<request, todo, options>>
      BY <2>2 DEF Reject
    <3>4. request.declares404 /\ Head(todo).on \notin UnmappedLookUps =>
            answer' = appErrorCodeToHttpStatusCode(handleSdkError(e))
      BY <2>2, <3>2 DEF Reject
    <3> QED
      BY <3>3, <3>4, MappedErrors, ErrorThrown
  <2> QED
    BY <1>2, <2>1, <2>2, ErrorQuiet DEF FindEntity, Done
<1>3. CASE TryFindEntity \/ OrFindEntity \/ MakeReference \/ QueryEntity \/ CheckCondition \/ DereferenceValue
           \/ FindSigningAccount
  <2>1. at = "handler" /\ todo # <<>>
    BY <1>3 DEF TryFindEntity, OrFindEntity, MakeReference, QueryEntity, CheckCondition, DereferenceValue,
       FindSigningAccount, On
  <2>2. \/ \E k : Done(k)
        \/ \E e : Reject("tryFind", TRUE, e) \/ Reject("find", TRUE, e)
        \/ \E e, m : Reject("query", m, e)
        \/ \E e : Throw("check", e) \/ Throw("dereference", e) \/ Throw("signer", e)
    BY <1>3 DEF TryFindEntity, OrFindEntity, MakeReference, QueryEntity, CheckCondition, DereferenceValue,
       FindSigningAccount
  <2>3. ASSUME NEW k, Done(k) PROVE ErrorInv'
    BY <2>1, <2>3, ErrorQuiet DEF Done
  <2>4. ASSUME NEW e, Reject("tryFind", TRUE, e) \/ Reject("find", TRUE, e) PROVE ErrorInv'
    BY <2>4, ErrorsMapped
  <2>5. ASSUME NEW e, NEW m, Reject("query", m, e) PROVE ErrorInv'
    BY <2>5, ErrorsElsewhere
  <2>6. ASSUME NEW e, Throw("check", e) PROVE ErrorInv'
    BY <2>6, ErrorsElsewhere
  <2>7. ASSUME NEW e, Throw("dereference", e) PROVE ErrorInv'
    BY <2>7, ErrorsElsewhere
  <2>8. ASSUME NEW e, Throw("signer", e) PROVE ErrorInv'
    BY <2>8, ErrorsElsewhere
  <2> QED
    BY <2>2, <2>3, <2>4, <2>5, <2>6, <2>7, <2>8, Zenon
<1>4. CASE ExtractOptions \/ BodyAsOptions
  <2>1. at = "handler" /\ todo # <<>>
    BY <1>4 DEF ExtractOptions, BodyAsOptions, On
  <2>2. \/ Throw("options", "Validation") \/ Throw("pipe", "Validation")
        \/ todo' = Tail(todo) /\ UNCHANGED <<request, failure>>
    BY <1>4 DEF ExtractOptions, BodyAsOptions
  <2>3. CASE Throw("options", "Validation")
    BY <2>3, ErrorsElsewhere
  <2>4. CASE Throw("pipe", "Validation")
    BY <2>4, ErrorsElsewhere
  <2>5. CASE todo' = Tail(todo) /\ UNCHANGED <<request, failure>>
    BY <2>1, <2>5, ErrorQuiet
  <2> QED
    BY <2>2, <2>3, <2>4, <2>5
<1>5. CASE SubmitSignedPayload
  <2>1. at = "handler" /\ todo # <<>> /\ Head(todo).op = "submitSigned"
    BY <1>5 DEF SubmitSignedPayload, On
  <2>2. Head(todo) = todo[1] /\ 1 \in 1..Len(todo)
    BY <2>1, TailFacts DEF Inv, TodoInv
  <2>3. options = "none"
    BY <2>1, <2>2 DEF Inv, TodoInv, Shape
  <2>4. CASE RunRejects(FALSE)
    <3>1. PICK e \in SdkError : failure' = [at |-> "run", error |-> e]
      BY <2>4 DEF RunRejects
    <3>2. at' = "answered" /\ UNCHANGED <<request, todo, options>>
      BY <2>4 DEF RunRejects
    <3> QED
      BY <2>3, <3>1, <3>2, ErrorThrown
  <2>5. CASE ~RunRejects(FALSE)
    <3>1. todo' = Tail(todo) /\ UNCHANGED <<request, failure>>
      BY <1>5, <2>5, Zenon DEF SubmitSignedPayload
    <3> QED
      BY <2>1, <3>1, ErrorQuiet
  <2> QED
    BY <2>4, <2>5
<1>6. CASE SubmitSigner \/ Prepare \/ PrepareAgain \/ ProcessTransaction \/ GetTotalFees
  <2>1. at # "answered"
    BY <1>6 DEF SubmitSigner, On, Prepare, PrepareAgain, prepareProcedure, ProcessTransaction, GetTotalFees
  <2>2. \/ UNCHANGED <<request, todo, failure>>
        \/ \E e : Throw("signer", e)
        \/ \E e : Reject("prepare", TRUE, e) \/ Reject("fees", TRUE, e)
    BY <1>6 DEF SubmitSigner, Prepare, PrepareAgain, prepareProcedure, ProcessTransaction, GetTotalFees, Moved
  <2>3. CASE UNCHANGED <<request, todo, failure>>
    BY <2>1, <2>3, ErrorQuiet
  <2>4. ASSUME NEW e, Throw("signer", e) PROVE ErrorInv'
    BY <2>4, ErrorsElsewhere
  <2>5. ASSUME NEW e, Reject("prepare", TRUE, e) \/ Reject("fees", TRUE, e) PROVE ErrorInv'
    BY <2>5, ErrorsMapped
  <2> QED
    BY <2>2, <2>3, <2>4, <2>5, Zenon
<1>7. CASE SubmitAndSubscribe \/ BeginOfflineTransaction \/ AnswerDryRun \/ ToSignablePayload
  <2>1. at \in Submitting
    BY <1>7 DEF SubmitAndSubscribe, BeginOfflineTransaction, AnswerDryRun, ToSignablePayload, Submitting
  <2>2. at # "answered" /\ todo # <<>>
    BY <2>1 DEF Inv, SubmitInv, Submitting
  <2>3. \/ todo' = Tail(todo) /\ UNCHANGED <<request, failure>>
        \/ Throw("subscribe", "Error")
        \/ \E e : Reject("payload", TRUE, e) \/ (Reject("payload", FALSE, e) /\ options = "AMQP")
    BY <1>7 DEF SubmitAndSubscribe, BeginOfflineTransaction, AnswerDryRun, ToSignablePayload, Return
  <2>4. CASE todo' = Tail(todo) /\ UNCHANGED <<request, failure>>
    BY <2>2, <2>4, ErrorQuiet
  <2>5. CASE Throw("subscribe", "Error")
    BY <2>5, ErrorsElsewhere
  <2>6. ASSUME NEW e, Reject("payload", TRUE, e) PROVE ErrorInv'
    BY <2>6, ErrorsMapped
  <2>7. ASSUME NEW e, Reject("payload", FALSE, e), options = "AMQP" PROVE ErrorInv'
    BY <2>7, ErrorCases
  <2> QED
    BY <2>3, <2>4, <2>5, <2>6, <2>7, Zenon
<1>8. CASE RunTransaction
  <2>1. at \in Submitting
    BY <1>8 DEF RunTransaction, Submitting
  <2>2. at # "answered" /\ todo # <<>>
    BY <2>1 DEF Inv, SubmitInv, Submitting
  <2>3. CASE RunRejects(TRUE)
    <3>1. PICK e \in SdkError : /\ failure' = [at |-> "run", error |-> e]
                                /\ answer' = appErrorCodeToHttpStatusCode(handleSdkError(e))
      BY <2>3 DEF RunRejects
    <3>2. at' = "answered" /\ UNCHANGED <<request, todo, options>>
      BY <2>3 DEF RunRejects
    <3> QED
      BY <3>1, <3>2, MappedErrors, ErrorThrown
  <2>4. CASE ~RunRejects(TRUE)
    <3>1. todo' = Tail(todo) /\ UNCHANGED <<request, failure>>
      BY <1>8, <2>4, Zenon DEF RunTransaction, Return
    <3> QED
      BY <2>2, <3>1, ErrorQuiet
  <2> QED
    BY <2>3, <2>4
<1>9. CASE HandleServiceResult
  <2>1. at = "handler" /\ todo # <<>>
    BY <1>9 DEF HandleServiceResult, On
  <2>2. Done({}) \/ \E e, m : Throw("reply", e) \/ Reject("reply", m, e)
    BY <1>9 DEF HandleServiceResult, Resolves
  <2>3. CASE Done({})
    BY <2>1, <2>3, ErrorQuiet DEF Done
  <2>4. ASSUME NEW e, NEW m, Throw("reply", e) \/ Reject("reply", m, e) PROVE ErrorInv'
    BY <2>4, ErrorsElsewhere
  <2> QED
    BY <2>2, <2>3, <2>4, Zenon
<1>10. CASE Answer
  BY <1>10, ErrorQuiet DEF Answer
<1> QED
  BY <1>0, <1>1, <1>2, <1>3, <1>4, <1>5, <1>6, <1>7, <1>8, <1>9, <1>10 DEF Next

\* The mapping of errors holds in every state of every request.
LEMMA ErrorInvHolds == Spec => []ErrorInv
BY ErrorInvInit, ErrorInvNext, InvHolds, PTL DEF Spec

\* A look-up of what does not exist is a 404 of every route that documents one
\* (handleSdkError, AppErrorToHttpResponseFilter), permission groups excepted.
THEOREM MissingIsNotFoundHolds == Spec => []MissingIsNotFound
<1>1. ErrorInv => MissingIsNotFound
  BY DEF ErrorInv
<1> QED
  BY <1>1, ErrorInvHolds, PTL

\* What the SDK says of the client's request while a transaction is prepared, priced,
\* made into a payload or run is a 4xx answer, except where AMQP leaves the try.
THEOREM ClientErrorsAreNotServerErrorsHolds == Spec => []ClientErrorsAreNotServerErrors
<1>1. ErrorInv => ClientErrorsAreNotServerErrors
  BY DEF ErrorInv
<1> QED
  BY <1>1, ErrorInvHolds, PTL

---------------------------------------------------------------------------
(* Entities.  What is left of a handler uses what is known, or what one of *)
(* the steps left delivers first.                                          *)

LooksUp(t, k) ==
  \A i \in 1..Len(t) : t[i].op \in {"query", "submit"} =>
    \/ t[i].on \in k
    \/ \E j \in 1..(i - 1) : t[j].op \in DeliveringOps /\ t[j].on = t[i].on

LookInv == LooksUp(todo, known)

\* The first step is done, and what it delivers is known.
LEMMA LooksUpTail ==
  ASSUME NEW t \in Seq(StepRecord), t # <<>>, NEW k, NEW new, LooksUp(t, k), k \subseteq new,
         Head(t).op \in DeliveringOps => Head(t).on \in new
  PROVE  LooksUp(Tail(t), new)
<1>1. /\ Len(t) \in Nat /\ Len(Tail(t)) = Len(t) - 1 /\ Head(t) = t[1]
      /\ \A i \in 1..(Len(t) - 1) : Tail(t)[i] = t[i + 1]
  BY TailFacts
<1>2. SUFFICES ASSUME NEW i \in 1..(Len(t) - 1), t[i + 1].op \in {"query", "submit"},
                      t[i + 1].on \notin new
               PROVE  \E j \in 1..(i - 1) : t[j + 1].op \in DeliveringOps /\ t[j + 1].on = t[i + 1].on
  BY <1>1 DEF LooksUp
<1>3. i + 1 \in 1..Len(t) /\ t[i + 1].on \notin k
  BY <1>1, <1>2
<1>4. PICK j \in 1..i : t[j].op \in DeliveringOps /\ t[j].on = t[i + 1].on
  <2>1. \E j \in 1..((i + 1) - 1) : t[j].op \in DeliveringOps /\ t[j].on = t[i + 1].on
    BY <1>2, <1>3 DEF LooksUp
  <2>2. (i + 1) - 1 = i
    OBVIOUS
  <2> QED
    BY <2>1, <2>2
<1>5. j # 1
  BY <1>1, <1>2, <1>4
<1> QED
  BY <1>4, <1>5, j - 1 \in 1..(i - 1), (j - 1) + 1 = j

LEMMA LookInvInit == Init => LookInv
<1> SUFFICES ASSUME Init PROVE LookInv
  OBVIOUS
<1>1. PICK r \in Routes : todo \in r.paths
  BY DEF Init
<1>2. known = {"api"}
  BY DEF Init
<1> QED
  BY <1>1, <1>2, LookUpsAssumption DEF LookInv, LooksUp

\* A step that is done, and one that is not.
LEMMA LookInvDone ==
  ASSUME Inv, LookInv, todo # <<>>, todo' = Tail(todo), known \subseteq known',
         Head(todo).op \in DeliveringOps => Head(todo).on \in known'
  PROVE  LookInv'
BY LooksUpTail DEF LookInv, Inv, TodoInv

LEMMA LookInvSame ==
  ASSUME LookInv, UNCHANGED <<todo, known>>
  PROVE  LookInv'
BY DEF LookInv

LEMMA LookInvNext == Inv /\ LookInv /\ [Next]_vars => LookInv'
<1> SUFFICES ASSUME Inv, LookInv, [Next]_vars PROVE LookInv'
  OBVIOUS
<1>0. ASSUME UNCHANGED vars PROVE LookInv'
  BY <1>0, LookInvSame DEF vars
<1>1. ASSUME NEW w, NEW e, NEW m, Throw(w, e) \/ Reject(w, m, e) PROVE LookInv'
  BY <1>1, LookInvSame DEF Throw, Reject
<1>2. ASSUME NEW m, RunRejects(m) PROVE LookInv'
  BY <1>2, LookInvSame DEF RunRejects
<1>3. ASSUME NEW next, Moved(next) PROVE LookInv'
  BY <1>3, LookInvSame DEF Moved
<1>4. ASSUME NEW e, Done(e), todo # <<>>, Head(todo).op \in DeliveringOps => Head(todo).on \in known \cup e
      PROVE  LookInv'
  BY <1>4, LookInvDone DEF Done
<1>5. ASSUME NEW e, Done(e), todo # <<>>, Head(todo).op \notin DeliveringOps PROVE LookInv'
  BY <1>4, <1>5
<1>6. ASSUME AuthGuard \/ ValidationPipe PROVE LookInv'
  BY <1>1, <1>3, <1>6 DEF AuthGuard, ValidationPipe, Moved
<1>7. ASSUME FindEntity \/ MakeReference PROVE LookInv'
  BY <1>1, <1>4, <1>7 DEF FindEntity, MakeReference, On
<1>8. ASSUME OrFindEntity PROVE LookInv'
  BY <1>1, <1>4, <1>8 DEF OrFindEntity, On
<1>9. ASSUME TryFindEntity \/ QueryEntity \/ CheckCondition \/ DereferenceValue \/ FindSigningAccount
      PROVE LookInv'
  <2>1. todo # <<>> /\ Head(todo).op \notin DeliveringOps
    BY <1>9 DEF TryFindEntity, QueryEntity, CheckCondition, DereferenceValue, FindSigningAccount, On,
       DeliveringOps
  <2> QED
    BY <1>1, <1>5, <1>9, <2>1
       DEF TryFindEntity, QueryEntity, CheckCondition, DereferenceValue, FindSigningAccount
<1>10. ASSUME todo # <<>>, todo' = Tail(todo), UNCHANGED known, Head(todo).op \notin DeliveringOps
       PROVE  LookInv'
  BY <1>10, LookInvDone
<1>11. ASSUME ExtractOptions \/ BodyAsOptions \/ SubmitSignedPayload PROVE LookInv'
  <2>1. todo # <<>> /\ Head(todo).op \notin DeliveringOps
    BY <1>11 DEF ExtractOptions, BodyAsOptions, SubmitSignedPayload, On, DeliveringOps
  <2> QED
    BY <1>1, <1>2, <1>10, <1>11, <2>1 DEF ExtractOptions, BodyAsOptions, SubmitSignedPayload
<1>12. ASSUME SubmitSigner \/ ProcessTransaction \/ GetTotalFees PROVE LookInv'
  BY <1>1, <1>3, <1>12 DEF SubmitSigner, ProcessTransaction, GetTotalFees
<1>13. ASSUME Prepare \/ PrepareAgain PROVE LookInv'
  BY <1>1, <1>13, LookInvSame DEF Prepare, PrepareAgain, prepareProcedure
<1>14. ASSUME SubmitAndSubscribe \/ BeginOfflineTransaction \/ AnswerDryRun \/ ToSignablePayload \/ RunTransaction
       PROVE  LookInv'
  <2>1. at \in Submitting
    BY <1>14 DEF SubmitAndSubscribe, BeginOfflineTransaction, AnswerDryRun, ToSignablePayload, RunTransaction,
       Submitting
  <2>2. todo # <<>> /\ Head(todo).op \notin DeliveringOps
    BY <2>1 DEF Inv, SubmitInv, DeliveringOps
  <2>3. ASSUME NEW r, Return(r), UNCHANGED known PROVE LookInv'
    BY <1>10, <2>2, <2>3 DEF Return
  <2> QED
    BY <1>1, <1>2, <1>14, <2>3
       DEF SubmitAndSubscribe, BeginOfflineTransaction, AnswerDryRun, ToSignablePayload, RunTransaction
<1>15. ASSUME HandleServiceResult PROVE LookInv'
  <2>1. todo # <<>> /\ Head(todo).op \notin DeliveringOps
    BY <1>15 DEF HandleServiceResult, On, DeliveringOps
  <2> QED
    BY <1>1, <1>5, <1>15, <2>1 DEF HandleServiceResult
<1>16. ASSUME Answer PROVE LookInv'
  BY <1>16, LookInvSame DEF Answer
<1> QED
  BY <1>0, <1>6, <1>7, <1>8, <1>9, <1>11, <1>12, <1>13, <1>14, <1>15, <1>16 DEF Next

\* Whatever the routes, if every handler is written so that a step before a call
\* delivers the entity, no request ever calls what it did not get: an error, or a
\* look-up that is caught and made again, never lets it go on without one.
THEOREM EntitiesAreLookedUpHolds == Spec => []EntitiesAreLookedUp
<1>1. Inv /\ LookInv => EntitiesAreLookedUp
  <2> SUFFICES ASSUME Inv, LookInv, todo # <<>>, Head(todo).op \in {"query", "submit"}
               PROVE  Head(todo).on \in known
    BY DEF EntitiesAreLookedUp, Inv, SubmitInv, Submitting, On
  <2>1. Head(todo) = todo[1] /\ 1 \in 1..Len(todo)
    BY TailFacts DEF Inv, TodoInv
  <2> QED
    BY <2>1, ~\E j \in 1..(1 - 1) : TRUE DEF LookInv, LooksUp
<1> QED
  BY <1>1, InvHolds, LookInvInit, LookInvNext, PTL DEF Spec
=============================================================================
