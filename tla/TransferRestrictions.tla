------------------------ MODULE TransferRestrictions ------------------------
(***************************************************************************)
(* The transfer restrictions of one asset (assets.service.ts and           *)
(* assets.util.ts).  The chain only knows setRestrictions, which replaces  *)
(* the whole list: an addition reads the list, awaits the look-up of the   *)
(* issuers, compares, and writes the old list together with the new        *)
(* restrictions.  Nothing keeps other requests away in between.            *)
(*                                                                         *)
(* The process mode is submit.  A list is modelled as a set.               *)
(***************************************************************************)
EXTENDS Naturals

CONSTANTS
  Reqs,       \* requests
  Amounts,    \* numbers and percentages of investors
  Issuers,    \* identities that issue claims
  Countries,  \* country codes
  None,       \* undefined
  Wishes      \* sets of restrictions that a request may name

\* InputStatClaim
Claims ==
  [type : {"Accredited"}, accredited : BOOLEAN]
  \cup [type : {"Affiliate"}, affiliate : BOOLEAN]
  \cup [type : {"Jurisdiction"}, countryCode : Countries]

\* TransferRestrictionParams['restrictions'][number]
Input ==
  [type : {"Count"}, count : Amounts]
  \cup [type : {"Percentage"}, percentage : Amounts]
  \cup [type : {"ClaimCount"}, min : Amounts, max : Amounts \cup {None}, issuer : Issuers, claim : Claims]
  \cup [type : {"ClaimPercentage"}, min : Amounts, max : Amounts, issuer : Issuers, claim : Claims]

ASSUME NoneAssumption == None \notin Amounts
ASSUME WishesAssumption == Wishes \subseteq SUBSET Input

\* TransferRestriction of the SDK: what the chain stores for an input.
ToChain(i) ==
  CASE i.type = "Count" -> [type |-> "Count", value |-> i.count]
    [] i.type = "Percentage" -> [type |-> "Percentage", value |-> i.percentage]
    [] OTHER -> [type |-> i.type,
                 value |-> [min |-> i.min, max |-> i.max, issuer |-> i.issuer, claim |-> i.claim]]

normalizeExistingRestrictions(c) ==
  CASE c.type = "Count" -> [type |-> "Count", count |-> c.value]
    [] c.type = "Percentage" -> [type |-> "Percentage", percentage |-> c.value]
    [] c.type = "ClaimCount" -> [type |-> "ClaimCount", min |-> c.value.min, max |-> c.value.max,
                                 issuer |-> c.value.issuer, claim |-> c.value.claim]
    [] OTHER -> [type |-> "ClaimPercentage", min |-> c.value.min, max |-> c.value.max,
                 issuer |-> c.value.issuer, claim |-> c.value.claim]

isSameStatClaim(a, b) ==
  \/ a.type = "Accredited" /\ b.type = "Accredited" /\ a.accredited = b.accredited
  \/ a.type = "Affiliate" /\ b.type = "Affiliate" /\ a.affiliate = b.affiliate
  \/ a.type = "Jurisdiction" /\ b.type = "Jurisdiction" /\ a.countryCode = b.countryCode

\* Mutant: the maximum is not compared.
MutSameForgetsMax(a, b) ==
  /\ a.type = b.type
  /\ CASE a.type = "Count" -> a.count = b.count
       [] a.type = "Percentage" -> a.percentage = b.percentage
       [] OTHER -> a.min = b.min /\ a.issuer = b.issuer /\ isSameStatClaim(a.claim, b.claim)

isSameRestriction(a, b) ==
  /\ a.type = b.type
  /\ CASE a.type = "Count" -> a.count = b.count
       [] a.type = "Percentage" -> a.percentage = b.percentage
       [] a.type = "ClaimCount" ->
            /\ a.min = b.min
            /\ \/ a.max = None /\ b.max = None
               \/ a.max # None /\ b.max # None /\ a.max = b.max
            /\ a.issuer = b.issuer
            /\ isSameStatClaim(a.claim, b.claim)
       [] OTHER ->
            /\ a.min = b.min /\ a.max = b.max
            /\ a.issuer = b.issuer
            /\ isSameStatClaim(a.claim, b.claim)

NamesIssuer(wants) == \E i \in wants : i.type \in {"ClaimCount", "ClaimPercentage"}

---------------------------------------------------------------------------
VARIABLES
  chain,  \* the restrictions the chain has for the asset
  reqs    \* the requests

vars == <<chain, reqs>>

\* The restrictions, as getTransferRestrictions shows them.
Current == {normalizeExistingRestrictions(c) : c \in chain}

\* wrote, stale and refused are what an observer knows: the transaction of the
\* request took effect; another one did after the request read the list; the
\* request was refused for a duplicate.
NoRequest ==
  [kind |-> "none", wants |-> {}, at |-> "idle", read |-> {}, restrictions |-> {},
   wrote |-> FALSE, stale |-> FALSE, refused |-> FALSE]

Init ==
  /\ \E wish \in Wishes : chain = {ToChain(i) : i \in wish}
  /\ reqs = [r \in Reqs |-> NoRequest]

Move(r, place) == reqs' = [reqs EXCEPT ![r].at = place] /\ UNCHANGED chain

\* The request is answered with an error (which one: module Requests).
Fail(r) == Move(r, "answered")

Receive(r) ==
  /\ reqs[r].at = "idle"
  /\ \/ \E kind \in {"add", "set"}, wants \in Wishes :
          reqs' = [reqs EXCEPT ![r] = [@ EXCEPT !.kind = kind, !.wants = wants, !.at = "asset"]]
     \/ reqs' = [reqs EXCEPT ![r] = [@ EXCEPT !.kind = "remove", !.at = "asset"]]
  /\ UNCHANGED chain

\* findFungible
FindAsset(r) ==
  /\ reqs[r].at = "asset"
  /\ \/ Move(r, CASE reqs[r].kind = "add" -> "read"
                  [] reqs[r].kind = "set" -> "issuers"
                  [] OTHER -> "prepare")
     \/ Fail(r)

\* getRestrictions of the SDK, and the conversion of its result.
ReadRestrictions(r) ==
  /\ reqs[r].at = "read"
  /\ \/ /\ reqs' = [reqs EXCEPT ![r] = [@ EXCEPT !.read = Current, !.at = "issuers"]]
        /\ UNCHANGED chain
     \/ Fail(r)

\* Mutant: the list is replaced by the new restrictions.
MutNewOnly(r) == reqs[r].wants

\* The list that is written.
NewList(r) == reqs[r].read \cup reqs[r].wants

Duplicates(r) ==
  {nr \in reqs[r].wants : \E er \in reqs[r].read : isSameRestriction(er, nr)}

\* transferRestrictionsDtoToRestrictions; what follows it in the handler is synchronous
\* up to submit.
ResolveIssuers(r) ==
  /\ reqs[r].at = "issuers"
  /\ \/ /\ Duplicates(r) = {}
        /\ reqs' = [reqs EXCEPT ![r] = [@ EXCEPT !.restrictions = NewList(r), !.at = "prepare"]]
        /\ UNCHANGED chain
     \/ /\ Duplicates(r) # {}
        /\ reqs' = [reqs EXCEPT ![r] = [@ EXCEPT !.at = "answered", !.refused = TRUE]]
        /\ UNCHANGED chain
     \/ NamesIssuer(reqs[r].wants) /\ Fail(r)

\* submit prepares the procedure, and processTransaction once more; the SDK
\* refuses a caller without permission, or a list that changes nothing.
Prepare(r) ==
  \/ reqs[r].at = "prepare" /\ (Move(r, "again") \/ Fail(r))
  \/ reqs[r].at = "again" /\ (Move(r, "run") \/ Fail(r))

\* Places where a request has read the list and not yet written it.
Holding == {"issuers", "prepare", "again", "run"}

TakesEffect(r) ==
  /\ chain' = {ToChain(i) : i \in reqs[r].restrictions}
  /\ reqs' = [q \in Reqs |->
                IF q = r THEN [reqs[r] EXCEPT !.at = "answered", !.wrote = TRUE]
                ELSE [reqs[q] EXCEPT !.stale = IF reqs[q].at \in Holding THEN TRUE ELSE @]]

\* setRestrictions runs; its promise may reject before or after it took effect.
RunTransaction(r) ==
  /\ reqs[r].at = "run"
  /\ TakesEffect(r) \/ Fail(r)

Handle(r) ==
  \/ FindAsset(r) \/ ReadRestrictions(r) \/ ResolveIssuers(r) \/ Prepare(r) \/ RunTransaction(r)

Next == \E r \in Reqs : Receive(r) \/ Handle(r)

\* Promises of the SDK settle.
Spec == Init /\ [][Next]_vars /\ \A r \in Reqs : WF_vars(Handle(r))
---------------------------------------------------------------------------
Kinds == {"none", "add", "set", "remove"}
Places == {"idle", "asset", "read", "issuers", "prepare", "again", "run", "answered"}

Request ==
  [kind : Kinds, wants : SUBSET Input, at : Places, read : SUBSET Input, restrictions : SUBSET Input,
   wrote : BOOLEAN, stale : BOOLEAN, refused : BOOLEAN]

\* What a request holds is always a list the SDK accepts, and what the chain holds
\* is the image of one.
TypeOK ==
  /\ reqs \in [Reqs -> Request]
  /\ chain \subseteq {ToChain(i) : i \in Input}

\* An addition is refused as a duplicate only if one of its restrictions was on the
\* chain when it read the list, and goes on only if none was.
DuplicatesAreExact ==
  \A r \in Reqs :
    /\ reqs[r].kind = "add" /\ reqs[r].at \in {"prepare", "again", "run"}
         => reqs[r].read \cap reqs[r].wants = {}
    /\ reqs[r].refused => reqs[r].read \cap reqs[r].wants # {}

Atomic == INSTANCE Restrictions WITH
  stored <- Current,
  asked <- [r \in Reqs |->
              [kind |-> reqs[r].kind, wants |-> reqs[r].wants, wrote |-> reqs[r].wrote]]

\* The addition writes a list that has changed since it was read.
WritesStaleList(r) ==
  reqs[r].kind = "add" /\ reqs[r].stale /\ ~reqs[r].wrote /\ reqs'[r].wrote

\* However requests overlap, reading the list, comparing it and writing it back looks
\* like one step that adds, sets or removes (module Restrictions); the only exception
\* is an addition that was overtaken between its reading and its writing.
AtomicUnlessOvertaken ==
  Atomic!Init /\ [][Atomic!Next \/ \E r \in Reqs : WritesStaleList(r)]_(Atomic!vars)

\* Documentation of the add route: "This endpoint adds transfer restrictions for an
\* Asset".  When all requests are additions, what one added stays.
AdditionsStay ==
  (\A r \in Reqs : reqs[r].kind \in {"none", "add"})
    => \A r \in Reqs : reqs[r].wrote => reqs[r].wants \subseteq Current
=============================================================================
