--------------------- MODULE TransferRestrictionsProofs ---------------------
(***************************************************************************)
(* The conversions lose nothing, duplicates are recognised exactly, and    *)
(* requests that are not overtaken implement the atomic Restrictions.      *)
(***************************************************************************)
EXTENDS TransferRestrictions, TLAPS

CountInput == [type : {"Count"}, count : Amounts]
PercentageInput == [type : {"Percentage"}, percentage : Amounts]
ClaimCountInput ==
  [type : {"ClaimCount"}, min : Amounts, max : Amounts \cup {None}, issuer : Issuers, claim : Claims]
ClaimPercentageInput ==
  [type : {"ClaimPercentage"}, min : Amounts, max : Amounts, issuer : Issuers, claim : Claims]

LEMMA InputCases ==
  Input = CountInput \cup PercentageInput \cup ClaimCountInput \cup ClaimPercentageInput
  BY DEF Input, CountInput, PercentageInput, ClaimCountInput, ClaimPercentageInput

\* What getTransferRestrictions shows for a restriction is what was written.
LEMMA RoundTrip ==
  ASSUME NEW i \in Input
  PROVE  normalizeExistingRestrictions(ToChain(i)) = i
<1>1. CASE i \in CountInput
  BY <1>1 DEF CountInput, ToChain, normalizeExistingRestrictions
<1>2. CASE i \in PercentageInput
  BY <1>2 DEF PercentageInput, ToChain, normalizeExistingRestrictions
<1>3. CASE i \in ClaimCountInput
  BY <1>3 DEF ClaimCountInput, ToChain, normalizeExistingRestrictions
<1>4. CASE i \in ClaimPercentageInput
  BY <1>4 DEF ClaimPercentageInput, ToChain, normalizeExistingRestrictions
<1> QED
  BY <1>1, <1>2, <1>3, <1>4, InputCases

LEMMA SameClaim ==
  ASSUME NEW a \in Claims, NEW b \in Claims
  PROVE  isSameStatClaim(a, b) <=> a = b
  BY DEF Claims, isSameStatClaim

\* isSameRestriction compares everything that tells two restrictions apart.
LEMMA SameIsEqual ==
  ASSUME NEW a \in Input, NEW b \in Input
  PROVE  isSameRestriction(a, b) <=> a = b
<1>1. CASE a \in CountInput
  BY <1>1, InputCases DEF CountInput, PercentageInput, ClaimCountInput, ClaimPercentageInput, isSameRestriction
<1>2. CASE a \in PercentageInput
  BY <1>2, InputCases DEF CountInput, PercentageInput, ClaimCountInput, ClaimPercentageInput, isSameRestriction
<1>3. CASE a \in ClaimCountInput
  <2>1. CASE b \in ClaimCountInput
    BY <1>3, <2>1, SameClaim, NoneAssumption DEF ClaimCountInput, isSameRestriction
  <2> QED
    BY <1>3, <2>1, InputCases DEF CountInput, PercentageInput, ClaimCountInput, ClaimPercentageInput, isSameRestriction
<1>4. CASE a \in ClaimPercentageInput
  <2>1. CASE b \in ClaimPercentageInput
    BY <1>4, <2>1, SameClaim DEF ClaimPercentageInput, isSameRestriction
  <2> QED
    BY <1>4, <2>1, InputCases DEF CountInput, PercentageInput, ClaimCountInput, ClaimPercentageInput, isSameRestriction
<1> QED
  BY <1>1, <1>2, <1>3, <1>4, InputCases

---------------------------------------------------------------------------
Open(r) == reqs[r].at \notin {"idle", "answered"}
Ready == {"prepare", "again", "run"}

\* What holds of every request on its own.
Good(q) ==
  /\ q.at = "idle" <=> q.kind = "none"
  /\ q.at = "idle" => q.wants = {}
  /\ q.at # "answered" => ~q.wrote /\ ~q.refused
  /\ q.at \in {"idle", "asset", "read"} => q.read = {}
  /\ q.at \in {"idle", "asset", "read", "issuers"} => q.restrictions = {}
  /\ q.at = "read" => q.kind = "add"
  /\ q.kind # "add" => q.read = {}
  /\ q.kind = "remove" => q.wants = {}
  /\ q.at \in Ready => q.restrictions = q.read \cup q.wants
  /\ q.at \in Ready => q.read \cap q.wants = {}
  /\ q.refused => q.read \cap q.wants # {}

\* A list that was read and not disturbed is still the list.
Fresh(q, list) == q.kind = "add" /\ q.at \in Holding /\ ~q.stale => q.read = list

GoodInv == \A r \in Reqs : Good(reqs[r])
FreshInv == \A r \in Reqs : Fresh(reqs[r], Current)

\* The inductive invariant.
Inv == TypeOK /\ GoodInv /\ FreshInv

LEMMA CurrentIsInput ==
  ASSUME chain \subseteq {ToChain(i) : i \in Input}
  PROVE  Current \subseteq Input
  BY RoundTrip DEF Current

\* After a write the list is what was written.
LEMMA WrittenIsCurrent ==
  ASSUME NEW S \in SUBSET Input, chain' = {ToChain(i) : i \in S}
  PROVE  Current' = S
<1>1. Current' = {normalizeExistingRestrictions(c) : c \in {ToChain(i) : i \in S}}
  BY DEF Current
<1> QED
  BY <1>1, RoundTrip

LEMMA NoRequestGood == NoRequest \in Request /\ Good(NoRequest)
  BY DEF NoRequest, Request, Kinds, Places, Good, Ready

LEMMA InitInv == Init => Inv
<1> SUFFICES ASSUME Init PROVE Inv
  OBVIOUS
<1>1. TypeOK
  BY NoRequestGood, WishesAssumption DEF Init, TypeOK
<1>2. GoodInv /\ FreshInv
  BY NoRequestGood DEF Init, GoodInv, FreshInv, Fresh, Holding, NoRequest
<1> QED
  BY <1>1, <1>2 DEF Inv

\* One request changes and the chain does not.
LEMMA OneMoves ==
  ASSUME Inv, NEW r \in Reqs, NEW q \in Request,
         reqs' = [reqs EXCEPT ![r] = q], UNCHANGED chain,
         Good(q), Fresh(q, Current)
  PROVE  Inv'
<1>1. TypeOK'
  BY DEF Inv, TypeOK
<1>2. Current' = Current
  BY DEF Current
<1>3. GoodInv'
  BY DEF Inv, TypeOK, GoodInv
<1>4. FreshInv'
  BY <1>2 DEF Inv, TypeOK, FreshInv
<1> QED
  BY <1>1, <1>3, <1>4 DEF Inv

\* An open request that goes on, or is answered, without touching its lists.
LEMMA FailInv ==
  ASSUME Inv, NEW r \in Reqs, Open(r), Fail(r)
  PROVE  Inv'
<1> DEFINE q == [reqs[r] EXCEPT !.at = "answered"]
<1>0. reqs[r] \in Request /\ Good(reqs[r])
  BY DEF Inv, TypeOK, GoodInv
<1>1. q \in Request
  BY <1>0 DEF Request, Places
<1>2. Good(q) /\ Fresh(q, Current)
  BY <1>0 DEF Request, Good, Fresh, Holding, Ready, Open
<1>3. reqs' = [reqs EXCEPT ![r] = q] /\ UNCHANGED chain
  BY <1>0 DEF Fail, Move, Request, Inv, TypeOK
<1> QED
  BY <1>1, <1>2, <1>3, OneMoves

LEMMA ReceiveInv == ASSUME Inv, NEW r \in Reqs, Receive(r) PROVE Inv'
<1>0. /\ reqs[r] \in Request /\ Good(reqs[r])
      /\ reqs[r].at = "idle" /\ UNCHANGED chain
  BY DEF Inv, TypeOK, GoodInv, Receive
<1>1. PICK kind \in {"add", "set", "remove"}, wants \in Wishes \cup {{}} :
        /\ reqs' = [reqs EXCEPT ![r] = [reqs[r] EXCEPT !.kind = kind, !.wants = wants, !.at = "asset"]]
        /\ kind = "remove" => wants = {}
  <2>1. CASE reqs' = [reqs EXCEPT ![r] = [@ EXCEPT !.kind = "remove", !.at = "asset"]]
    BY <1>0, <2>1 DEF Request, Inv, TypeOK, Good
  <2>2. CASE \E kind \in {"add", "set"}, wants \in Wishes :
               reqs' = [reqs EXCEPT ![r] = [@ EXCEPT !.kind = kind, !.wants = wants, !.at = "asset"]]
    BY <1>0, <2>2 DEF Request, Inv, TypeOK
  <2> QED
    BY <2>1, <2>2 DEF Receive
<1> DEFINE q == [reqs[r] EXCEPT !.kind = kind, !.wants = wants, !.at = "asset"]
<1>2. q \in Request
  BY <1>0, WishesAssumption DEF Request, Kinds, Places
<1>3. Good(q) /\ Fresh(q, Current)
  BY <1>0, <1>1 DEF Request, Good, Fresh, Holding, Ready
<1> QED
  BY <1>0, <1>1, <1>2, <1>3, OneMoves

LEMMA MoveInv ==
  ASSUME Inv, NEW r \in Reqs, NEW place \in Places,
         \/ reqs[r].at = "asset" /\ reqs[r].kind = "add" /\ place = "read"
         \/ reqs[r].at = "asset" /\ reqs[r].kind = "set" /\ place = "issuers"
         \/ reqs[r].at = "asset" /\ reqs[r].kind = "remove" /\ place = "prepare"
         \/ reqs[r].at = "prepare" /\ place = "again"
         \/ reqs[r].at = "again" /\ place = "run",
         Move(r, place)
  PROVE  Inv'
<1> DEFINE q == [reqs[r] EXCEPT !.at = place]
<1>0. /\ reqs[r] \in Request /\ Good(reqs[r]) /\ Fresh(reqs[r], Current)
      /\ Open(r)
  BY DEF Inv, TypeOK, GoodInv, FreshInv, Open
<1>1. q \in Request
  BY <1>0 DEF Request
<1>2. Good(q) /\ Fresh(q, Current)
  BY <1>0 DEF Request, Good, Fresh, Holding, Ready
<1>3. reqs' = [reqs EXCEPT ![r] = q] /\ UNCHANGED chain
  BY <1>0 DEF Move, Request, Inv, TypeOK
<1> QED
  BY <1>0, <1>1, <1>2, <1>3, OneMoves

LEMMA FindInv == ASSUME Inv, NEW r \in Reqs, FindAsset(r) PROVE Inv'
<1>0. reqs[r] \in Request /\ Good(reqs[r]) /\ reqs[r].at = "asset" /\ Open(r)
  BY DEF Inv, TypeOK, GoodInv, FindAsset, Open
<1>1. reqs[r].kind \in {"add", "set", "remove"}
  BY <1>0 DEF Good, Request, Kinds
<1> QED
  BY <1>0, <1>1, FailInv, MoveInv DEF FindAsset, Places

LEMMA ReadInv == ASSUME Inv, NEW r \in Reqs, ReadRestrictions(r) PROVE Inv'
<1>0. /\ reqs[r] \in Request /\ Good(reqs[r])
      /\ reqs[r].at = "read" /\ Open(r) /\ Current \subseteq Input
  BY CurrentIsInput DEF Inv, TypeOK, GoodInv, ReadRestrictions, Open
<1>1. CASE Fail(r)
  BY <1>0, <1>1, FailInv
<1>2. CASE reqs' = [reqs EXCEPT ![r] = [@ EXCEPT !.read = Current, !.at = "issuers"]] /\ UNCHANGED chain
  <2> DEFINE q == [reqs[r] EXCEPT !.read = Current, !.at = "issuers"]
  <2>1. q \in Request
    BY <1>0 DEF Request, Places
  <2>2. Good(q) /\ Fresh(q, Current)
    BY <1>0 DEF Request, Good, Fresh, Holding, Ready
  <2>3. reqs' = [reqs EXCEPT ![r] = q] /\ UNCHANGED chain
    BY <1>0, <1>2 DEF Request, Inv, TypeOK
  <2> QED
    BY <1>0, <2>1, <2>2, <2>3, OneMoves
<1> QED
  BY <1>1, <1>2 DEF ReadRestrictions

LEMMA DuplicatesAre ==
  ASSUME NEW r \in Reqs, reqs[r] \in Request
  PROVE  Duplicates(r) = reqs[r].read \cap reqs[r].wants
  BY SameIsEqual DEF Duplicates, Request

\* The records that the steps with a mark make; t is TRUE, or the mark as it was.
LEMMA RefusedRecord ==
  ASSUME NEW p \in Request, NEW t \in BOOLEAN, Good(p), p.at = "issuers", t => p.read \cap p.wants # {},
         NEW q, q = [p EXCEPT !.at = "answered", !.refused = t]
  PROVE  q \in Request /\ Good(q) /\ q.at = "answered" /\ q.stale = p.stale
<1>1. q \in Request
  BY DEF Request, Places
<1>2. /\ q.at = "answered" /\ q.refused = t /\ q.kind = p.kind /\ q.wants = p.wants /\ q.read = p.read
      /\ q.stale = p.stale
  BY DEF Request
<1>3. Good(q)
  BY <1>2 DEF Good, Ready
<1> QED
  BY <1>1, <1>2, <1>3

LEMMA StaleRecord ==
  ASSUME NEW p \in Request, NEW t \in BOOLEAN, Good(p), NEW q, q = [p EXCEPT !.stale = t]
  PROVE  q \in Request /\ Good(q) /\ q.at = p.at /\ q.stale = t /\ q.read = p.read
         /\ q.wrote = p.wrote /\ q.kind = p.kind /\ q.wants = p.wants
  BY DEF Request, Good, Ready

LEMMA ResolveInv == ASSUME Inv, NEW r \in Reqs, ResolveIssuers(r) PROVE Inv'
<1>0. /\ reqs[r] \in Request /\ Good(reqs[r]) /\ Fresh(reqs[r], Current)
      /\ reqs[r].at = "issuers" /\ Open(r)
  BY DEF Inv, TypeOK, GoodInv, FreshInv, ResolveIssuers, Open
<1>d. Duplicates(r) = reqs[r].read \cap reqs[r].wants
  BY <1>0, DuplicatesAre
<1>1. CASE Fail(r)
  BY <1>0, <1>1, FailInv
<1>2. CASE /\ Duplicates(r) = {}
           /\ reqs' = [reqs EXCEPT ![r] = [@ EXCEPT !.restrictions = NewList(r), !.at = "prepare"]]
           /\ UNCHANGED chain
  <2> DEFINE q == [reqs[r] EXCEPT !.restrictions = NewList(r), !.at = "prepare"]
  <2>1. q \in Request
    BY <1>0 DEF Request, Places, NewList
  <2>2. Good(q) /\ Fresh(q, Current)
    BY <1>0, <1>d, <1>2 DEF Request, Good, Fresh, Holding, Ready, NewList
  <2>3. reqs' = [reqs EXCEPT ![r] = q] /\ UNCHANGED chain
    BY <1>0, <1>2 DEF Request, Inv, TypeOK
  <2> QED
    BY <1>0, <2>1, <2>2, <2>3, OneMoves
<1>3. CASE /\ Duplicates(r) # {}
           /\ reqs' = [reqs EXCEPT ![r] = [@ EXCEPT !.at = "answered", !.refused = TRUE]]
           /\ UNCHANGED chain
  <2> DEFINE t == TRUE
             q == [reqs[r] EXCEPT !.at = "answered", !.refused = t]
  <2>0. t \in BOOLEAN /\ reqs[r].read \cap reqs[r].wants # {}
    BY <1>d, <1>3
  <2>1. q \in Request /\ Good(q) /\ q.at = "answered" /\ q.stale = reqs[r].stale
    <3> HIDE DEF t
    <3> QED
      BY <1>0, <2>0, RefusedRecord
  <2>2. Fresh(q, Current)
    BY <1>0, <2>1 DEF Fresh, Holding
  <2>3. reqs' = [reqs EXCEPT ![r] = q] /\ UNCHANGED chain
    BY <1>0, <1>3 DEF Request, Inv, TypeOK
  <2> QED
    BY <1>0, <2>1, <2>2, <2>3, OneMoves
<1> QED
  BY <1>1, <1>2, <1>3 DEF ResolveIssuers

LEMMA PrepareInv == ASSUME Inv, NEW r \in Reqs, Prepare(r) PROVE Inv'
<1>0. Open(r) /\ reqs[r].at \in {"prepare", "again"}
  BY DEF Prepare, Open
<1> QED
  BY <1>0, FailInv, MoveInv DEF Prepare, Places

\* The write: the others that hold a list become stale.
LEMMA TakesEffectInv ==
  ASSUME Inv, NEW r \in Reqs, reqs[r].at = "run", TakesEffect(r)
  PROVE  Inv' /\ Current' = reqs[r].restrictions
<1>0. /\ reqs \in [Reqs -> Request] /\ \A p \in Reqs : reqs[p] \in Request /\ Good(reqs[p])
  BY DEF Inv, TypeOK, GoodInv
<1>1. reqs[r].restrictions \in SUBSET Input
  BY <1>0 DEF Request
<1>2. Current' = reqs[r].restrictions
  BY <1>1, WrittenIsCurrent DEF TakesEffect
<1>3. reqs' = [q \in Reqs |->
                   IF q = r THEN [reqs[r] EXCEPT !.at = "answered", !.wrote = TRUE]
                   ELSE [reqs[q] EXCEPT !.stale = IF reqs[q].at \in Holding THEN TRUE ELSE @]]
  BY DEF TakesEffect
<1>4. ASSUME NEW p \in Reqs, p # r
      PROVE  /\ reqs'[p] \in Request /\ Good(reqs'[p])
             /\ reqs'[p].at = reqs[p].at
             /\ reqs'[p].stale = IF reqs[p].at \in Holding THEN TRUE ELSE reqs[p].stale
  <2> DEFINE t == IF reqs[p].at \in Holding THEN TRUE ELSE reqs[p].stale
  <2>1. reqs'[p] = [reqs[p] EXCEPT !.stale = t]
    BY <1>3, <1>4
  <2>2. t \in BOOLEAN
    BY <1>0 DEF Request
  <2>3. t = IF reqs[p].at \in Holding THEN TRUE ELSE reqs[p].stale
    OBVIOUS
  <2> HIDE DEF t
  <2>4. reqs'[p] \in Request /\ Good(reqs'[p]) /\ reqs'[p].at = reqs[p].at /\ reqs'[p].stale = t
    BY <1>0, <2>1, <2>2, StaleRecord
  <2> QED
    BY <2>3, <2>4
<1>5. /\ reqs'[r] \in Request /\ Good(reqs'[r])
      /\ reqs'[r].at = "answered" /\ reqs'[r].stale = reqs[r].stale
  <2> DEFINE t == TRUE
  <2>1. reqs'[r] = [reqs[r] EXCEPT !.at = "answered", !.wrote = t]
    BY <1>3
  <2>2. t \in BOOLEAN
    OBVIOUS
  <2>3. reqs[r] \in Request /\ Good(reqs[r]) /\ reqs[r].at = "run"
    BY <1>0
  <2> HIDE DEF t
  <2>4. reqs'[r] \in Request
    BY <2>1, <2>2, <2>3 DEF Request, Places
  <2>5. /\ reqs'[r].at = "answered" /\ reqs'[r].refused = reqs[r].refused /\ reqs'[r].kind = reqs[r].kind
        /\ reqs'[r].wants = reqs[r].wants /\ reqs'[r].read = reqs[r].read /\ reqs'[r].stale = reqs[r].stale
    BY <2>1, <2>3 DEF Request
  <2>6. Good(reqs'[r])
    BY <2>3, <2>5 DEF Good, Ready
  <2> QED
    BY <2>4, <2>5, <2>6
<1>6. TypeOK'
  <2>1. reqs' \in [Reqs -> Request]
    BY <1>3, <1>4, <1>5
  <2>2. chain' \subseteq {ToChain(i) : i \in Input}
    BY <1>1 DEF TakesEffect
  <2> QED
    BY <2>1, <2>2 DEF TypeOK
<1>7. GoodInv'
  BY <1>4, <1>5 DEF GoodInv
<1>8. FreshInv'
  BY <1>4, <1>5 DEF FreshInv, Fresh, Holding
<1> QED
  BY <1>2, <1>6, <1>7, <1>8 DEF Inv

LEMMA RunInv == ASSUME Inv, NEW r \in Reqs, RunTransaction(r) PROVE Inv'
<1>0. reqs[r].at = "run" /\ Open(r)
  BY DEF RunTransaction, Open
<1> QED
  BY <1>0, FailInv, TakesEffectInv DEF RunTransaction

LEMMA NextInv == Inv /\ [Next]_vars => Inv'
<1> SUFFICES ASSUME Inv, [Next]_vars PROVE Inv'
  OBVIOUS
<1>1. CASE UNCHANGED vars
  BY <1>1 DEF vars, Inv, TypeOK, GoodInv, FreshInv, Current
<1>2. CASE Next
  BY <1>2, ReceiveInv, FindInv, ReadInv, ResolveInv, PrepareInv, RunInv DEF Next, Handle
<1> QED
  BY <1>1, <1>2

LEMMA InvHolds == Spec => []Inv
  BY InitInv, NextInv, PTL DEF Spec

\* For any number of overlapping requests an addition is refused as a duplicate exactly
\* when one of its restrictions was on the chain when it read the list.
THEOREM DuplicatesAreExactHolds == Spec => []DuplicatesAreExact
<1>1. Inv => DuplicatesAreExact
  BY DEF Inv, GoodInv, Good, Ready, DuplicatesAreExact
<1> QED
  BY <1>1, InvHolds, PTL

---------------------------------------------------------------------------
\* What Restrictions sees of a request.
Same(q, p) == q.kind = p.kind /\ q.wants = p.wants /\ q.wrote = p.wrote

Asked(r) ==
  /\ reqs[r].kind = "none" /\ ~reqs[r].wrote /\ ~reqs'[r].wrote
  /\ reqs'[r].kind \in {"add", "set", "remove"} /\ reqs'[r].wants \in Wishes \cup {{}}
  /\ \A p \in Reqs \ {r} : Same(reqs'[p], reqs[p])
  /\ UNCHANGED chain

Written(r) ==
  /\ reqs[r].at = "run" /\ ~reqs[r].wrote /\ reqs'[r].wrote
  /\ reqs'[r].kind = reqs[r].kind /\ reqs'[r].wants = reqs[r].wants
  /\ \A p \in Reqs \ {r} : Same(reqs'[p], reqs[p])
  /\ Current' = reqs[r].restrictions

LEMMA RefusedSame ==
  ASSUME NEW p \in Request, NEW t \in BOOLEAN
  PROVE  Same([p EXCEPT !.at = "answered", !.refused = t], p)
  BY DEF Request, Same

LEMMA MoveSame ==
  ASSUME Inv, NEW r \in Reqs, NEW place, Move(r, place)
  PROVE  UNCHANGED chain /\ \A p \in Reqs : Same(reqs'[p], reqs[p])
  BY DEF Inv, TypeOK, Move, Request, Same

LEMMA AskedBy == ASSUME Inv, NEW r \in Reqs, Receive(r) PROVE Asked(r)
<1>0. /\ reqs \in [Reqs -> Request] /\ reqs[r] \in Request /\ Good(reqs[r])
      /\ reqs[r].at = "idle" /\ UNCHANGED chain
  BY DEF Inv, TypeOK, GoodInv, Receive
<1>1. reqs[r].kind = "none" /\ reqs[r].wants = {} /\ ~reqs[r].wrote
  BY <1>0 DEF Good
<1>2. PICK q : reqs' = [reqs EXCEPT ![r] = q] /\ q.kind \in {"add", "set", "remove"}
               /\ q.wants \in Wishes \cup {{}} /\ q.wrote = reqs[r].wrote
  <2>1. CASE reqs' = [reqs EXCEPT ![r] = [@ EXCEPT !.kind = "remove", !.at = "asset"]]
    <3> DEFINE q == [reqs[r] EXCEPT !.kind = "remove", !.at = "asset"]
    <3>1. q.kind = "remove" /\ q.wants = reqs[r].wants /\ q.wrote = reqs[r].wrote
      BY <1>0 DEF Request
    <3>2. reqs' = [reqs EXCEPT ![r] = q]
      BY <1>0, <2>1
    <3> HIDE DEF q
    <3> QED
      BY <1>1, <3>1, <3>2
  <2>2. ASSUME NEW kind \in {"add", "set"}, NEW wants \in Wishes,
               reqs' = [reqs EXCEPT ![r] = [@ EXCEPT !.kind = kind, !.wants = wants, !.at = "asset"]]
        PROVE  \E q : /\ reqs' = [reqs EXCEPT ![r] = q] /\ q.kind \in {"add", "set", "remove"}
                      /\ q.wants \in Wishes \cup {{}} /\ q.wrote = reqs[r].wrote
    <3> DEFINE q == [reqs[r] EXCEPT !.kind = kind, !.wants = wants, !.at = "asset"]
    <3>1. q.kind = kind /\ q.wants = wants /\ q.wrote = reqs[r].wrote
      BY <1>0 DEF Request
    <3>2. reqs' = [reqs EXCEPT ![r] = q]
      BY <1>0, <2>2
    <3> HIDE DEF q
    <3> QED
      BY <3>1, <3>2
  <2> QED
    BY <2>1, <2>2 DEF Receive
<1> QED
  BY <1>0, <1>1, <1>2 DEF Asked, Same

LEMMA ReadSame ==
  ASSUME Inv, NEW r \in Reqs, ReadRestrictions(r)
  PROVE  UNCHANGED chain /\ \A p \in Reqs : Same(reqs'[p], reqs[p])
<1>0. reqs \in [Reqs -> Request]
  BY DEF Inv, TypeOK
<1>1. CASE Fail(r)
  BY <1>1, MoveSame DEF Fail
<1>2. CASE reqs' = [reqs EXCEPT ![r] = [@ EXCEPT !.read = Current, !.at = "issuers"]]
  <2> DEFINE q == [reqs[r] EXCEPT !.read = Current, !.at = "issuers"]
  <2>1. Same(q, reqs[r])
    BY <1>0 DEF Request, Same
  <2>2. reqs' = [reqs EXCEPT ![r] = q]
    BY <1>0, <1>2
  <2> HIDE DEF q
  <2> QED
    BY <1>0, <2>1, <2>2 DEF Same, ReadRestrictions, Fail, Move
<1> QED
  BY <1>1, <1>2 DEF ReadRestrictions

LEMMA ResolveSame ==
  ASSUME Inv, NEW r \in Reqs, ResolveIssuers(r)
  PROVE  UNCHANGED chain /\ \A p \in Reqs : Same(reqs'[p], reqs[p])
<1>0. reqs \in [Reqs -> Request]
  BY DEF Inv, TypeOK
<1>c. UNCHANGED chain
  BY DEF ResolveIssuers, Fail, Move
<1>1. CASE Fail(r)
  BY <1>1, MoveSame DEF Fail
<1>2. CASE reqs' = [reqs EXCEPT ![r] = [@ EXCEPT !.restrictions = NewList(r), !.at = "prepare"]]
  <2> DEFINE q == [reqs[r] EXCEPT !.restrictions = NewList(r), !.at = "prepare"]
  <2>1. Same(q, reqs[r])
    BY <1>0 DEF Request, Same
  <2>2. reqs' = [reqs EXCEPT ![r] = q]
    BY <1>0, <1>2
  <2> HIDE DEF q
  <2> QED
    BY <1>0, <1>c, <2>1, <2>2 DEF Same
<1>3. CASE reqs' = [reqs EXCEPT ![r] = [@ EXCEPT !.at = "answered", !.refused = TRUE]]
  <2> DEFINE t == TRUE
             q == [reqs[r] EXCEPT !.at = "answered", !.refused = t]
  <2>0. t \in BOOLEAN
    OBVIOUS
  <2>1. Same(q, reqs[r])
    <3> HIDE DEF t
    <3> QED
      BY <1>0, <2>0, RefusedSame
  <2>2. reqs' = [reqs EXCEPT ![r] = q]
    BY <1>0, <1>3
  <2> HIDE DEF q
  <2> QED
    BY <1>0, <1>c, <2>1, <2>2 DEF Same
<1> QED
  BY <1>1, <1>2, <1>3 DEF ResolveIssuers

LEMMA WrittenBy == ASSUME Inv, NEW r \in Reqs, reqs[r].at = "run", TakesEffect(r) PROVE Written(r)
<1>0. /\ reqs \in [Reqs -> Request] /\ \A p \in Reqs : reqs[p] \in Request /\ Good(reqs[p])
      /\ ~reqs[r].wrote
  BY DEF Inv, TypeOK, GoodInv, Good
<1>1. Current' = reqs[r].restrictions
  BY TakesEffectInv
<1>2. reqs' = [q \in Reqs |->
                   IF q = r THEN [reqs[r] EXCEPT !.at = "answered", !.wrote = TRUE]
                   ELSE [reqs[q] EXCEPT !.stale = IF reqs[q].at \in Holding THEN TRUE ELSE @]]
  BY DEF TakesEffect
<1>3. ASSUME NEW p \in Reqs \ {r} PROVE Same(reqs'[p], reqs[p])
  <2> DEFINE t == IF reqs[p].at \in Holding THEN TRUE ELSE reqs[p].stale
  <2>1. reqs'[p] = [reqs[p] EXCEPT !.stale = t]
    BY <1>2, <1>3
  <2>2. t \in BOOLEAN
    BY <1>0 DEF Request
  <2> HIDE DEF t
  <2> QED
    BY <1>0, <2>1, <2>2, StaleRecord DEF Same
<1>4. reqs'[r].wrote /\ reqs'[r].kind = reqs[r].kind /\ reqs'[r].wants = reqs[r].wants
  <2> DEFINE t == TRUE
  <2>1. reqs'[r] = [reqs[r] EXCEPT !.at = "answered", !.wrote = t]
    BY <1>2
  <2>2. t
    OBVIOUS
  <2> HIDE DEF t
  <2>3. reqs'[r].wrote = t /\ reqs'[r].kind = reqs[r].kind /\ reqs'[r].wants = reqs[r].wants
    BY <1>0, <2>1 DEF Request
  <2> QED
    BY <2>2, <2>3
<1> QED
  BY <1>0, <1>1, <1>3, <1>4 DEF Written

\* Only Receive and the write are seen.
LEMMA StepView ==
  ASSUME Inv, Next
  PROVE  \/ UNCHANGED chain /\ \A p \in Reqs : Same(reqs'[p], reqs[p])
         \/ \E r \in Reqs : Asked(r)
         \/ \E r \in Reqs : Written(r)
<1>1. PICK r \in Reqs : Receive(r) \/ Handle(r)
  BY DEF Next
<1>2. CASE Receive(r)
  BY <1>2, AskedBy
<1>3. CASE FindAsset(r) \/ Prepare(r)
  BY <1>3, MoveSame DEF FindAsset, Prepare, Fail
<1>4. CASE ReadRestrictions(r) \/ ResolveIssuers(r)
  BY <1>4, ReadSame, ResolveSame
<1>5. CASE RunTransaction(r)
  BY <1>5, WrittenBy, MoveSame DEF RunTransaction, Fail
<1> QED
  BY <1>1, <1>2, <1>3, <1>4, <1>5 DEF Handle

\* What a request writes, unless it is an addition that was overtaken.
LEMMA WrittenList ==
  ASSUME Inv, NEW r \in Reqs, Written(r), reqs[r].kind = "add" => ~reqs[r].stale
  PROVE  /\ reqs[r].kind \in {"add", "set", "remove"}
         /\ reqs[r].kind = "add" => /\ Current' = Current \cup reqs[r].wants
                                    /\ Current \cap reqs[r].wants = {}
         /\ reqs[r].kind = "set" => Current' = reqs[r].wants
         /\ reqs[r].kind = "remove" => Current' = {}
<1>1. /\ reqs[r] \in Request /\ Good(reqs[r]) /\ Fresh(reqs[r], Current) /\ reqs[r].at = "run"
      /\ Current' = reqs[r].restrictions
  BY DEF Inv, TypeOK, GoodInv, FreshInv, Written
<1>2. reqs[r].kind \in {"add", "set", "remove"}
  BY <1>1 DEF Good, Request, Kinds
<1> QED
  BY <1>1, <1>2 DEF Good, Ready, Fresh, Holding

asked == [r \in Reqs |-> [kind |-> reqs[r].kind, wants |-> reqs[r].wants, wrote |-> reqs[r].wrote]]

\* Every step is seen as a stutter, as a step of Restrictions or as an addition that
\* was overtaken.
LEMMA StepIsAtomic ==
  ASSUME Inv, Next
  PROVE  Atomic!Next \/ (\E r \in Reqs : WritesStaleList(r)) \/ UNCHANGED <<Current, asked>>
<1>0. \A p \in Reqs : reqs[p].wrote \in BOOLEAN /\ reqs'[p].wrote \in BOOLEAN
  BY NextInv DEF Inv, TypeOK, Request
<1>1. CASE UNCHANGED chain /\ \A p \in Reqs : Same(reqs'[p], reqs[p])
  BY <1>1 DEF Current, asked, Same
<1>2. ASSUME NEW r \in Reqs, Asked(r) PROVE Atomic!Ask(r)
  <2>1. reqs'[r].wrote = FALSE
    BY <1>0, <1>2 DEF Asked
  <2>2. asked' = [asked EXCEPT ![r] = [kind |-> reqs'[r].kind, wants |-> reqs'[r].wants, wrote |-> FALSE]]
    BY <1>2, <2>1 DEF asked, Asked, Same
  <2>3. asked[r].kind = "none" /\ UNCHANGED Current
    BY <1>2 DEF asked, Asked, Current
  <2> QED
    BY <1>2, <2>2, <2>3 DEF Atomic!Ask, Asked, asked
<1>3. ASSUME NEW r \in Reqs, Written(r), ~WritesStaleList(r) PROVE Atomic!TakesEffect(r)
  <2>1. reqs[r].kind = "add" => ~reqs[r].stale
    BY <1>3 DEF Written, WritesStaleList
  <2>2. reqs'[r].wrote = TRUE
    BY <1>0, <1>3 DEF Written
  <2>3. asked' = [asked EXCEPT ![r] = [kind |-> reqs[r].kind, wants |-> reqs[r].wants, wrote |-> TRUE]]
    BY <1>3, <2>2 DEF asked, Written, Same
  <2>4. /\ asked[r].kind = reqs[r].kind /\ asked[r].wants = reqs[r].wants
        /\ asked[r].wrote = reqs[r].wrote /\ ~asked[r].wrote
    BY <1>3 DEF asked, Written
  <2>5. asked' = [asked EXCEPT ![r].wrote = TRUE]
    BY <2>3 DEF asked
  <2> HIDE DEF asked
  <2> QED
    BY <1>3, <2>1, <2>4, <2>5, WrittenList DEF Atomic!TakesEffect, asked
<1> QED
  BY <1>1, <1>2, <1>3, StepView DEF Atomic!Next

LEMMA InitIsAtomic == Init => Atomic!Init
  BY DEF Init, Atomic!Init, NoRequest

LEMMA StutterIsAtomic == UNCHANGED vars => UNCHANGED <<Current, asked>>
  BY DEF vars, Current, asked

\* However requests overlap, what a request holds is a list the SDK accepts and what
\* the chain holds is the image of one (normalizeExistingRestrictions).
THEOREM TypeOKHolds == Spec => []TypeOK
<1>1. Inv => TypeOK
  BY DEF Inv
<1> QED
  BY <1>1, InvHolds, PTL

\* For any number of overlapping requests, and any restrictions, every request changes
\* the list of the asset as if in one step, except an addition that was overtaken.
THEOREM AtomicUnlessOvertakenHolds == Spec => AtomicUnlessOvertaken
<1>1. Inv /\ [Next]_vars => [Atomic!Next \/ \E r \in Reqs : WritesStaleList(r)]_(Atomic!vars)
  BY StepIsAtomic, StutterIsAtomic DEF Atomic!vars, asked
<1> QED
  BY <1>1, InitIsAtomic, InvHolds, PTL DEF Spec, AtomicUnlessOvertaken

Undisturbed == \A r \in Reqs : ~reqs[r].stale

\* Clients that see to it that nobody writes between the reading and the writing of a
\* request (one request at a time, for example) get the atomic specification.
THEOREM UndisturbedRequestsAreAtomic == Spec /\ []Undisturbed => Atomic!Spec
<1>1. Inv /\ Undisturbed /\ [Next]_vars => [Atomic!Next]_(Atomic!vars)
  BY StepIsAtomic, StutterIsAtomic DEF Undisturbed, WritesStaleList, Atomic!vars, asked
<1> QED
  BY <1>1, InitIsAtomic, InvHolds, PTL DEF Spec, Atomic!Spec
=============================================================================
