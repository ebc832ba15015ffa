---------------------------- MODULE Restrictions ----------------------------
(***************************************************************************)
(* What a client expects of the transfer restrictions of an asset: a set,  *)
(* which every request changes in one step.  An addition adds new          *)
(* restrictions to those that are there, set replaces them, remove leaves  *)
(* none.                                                                   *)
(***************************************************************************)
CONSTANTS
  Reqs,   \* requests
  Wishes  \* sets of restrictions that a request may name

VARIABLES
  stored,  \* the restrictions of the asset
  asked    \* what each request asked for, and whether it took effect

vars == <<stored, asked>>

Init == asked = [r \in Reqs |-> [kind |-> "none", wants |-> {}, wrote |-> FALSE]]

Ask(r) ==
  /\ asked[r].kind = "none"
  /\ \E kind \in {"add", "set", "remove"}, wants \in Wishes \cup {{}} :
       asked' = [asked EXCEPT ![r] = [kind |-> kind, wants |-> wants, wrote |-> FALSE]]
  /\ UNCHANGED stored

TakesEffect(r) ==
  /\ asked[r].kind # "none" /\ ~asked[r].wrote
  /\ asked' = [asked EXCEPT ![r].wrote = TRUE]
  /\ \/ /\ asked[r].kind = "add"
        /\ asked[r].wants \cap stored = {}
        /\ stored' = stored \cup asked[r].wants
     \/ /\ asked[r].kind = "set"
        /\ stored' = asked[r].wants
     \/ /\ asked[r].kind = "remove"
        /\ stored' = {}

Next == \E r \in Reqs : Ask(r) \/ TakesEffect(r)

Spec == Init /\ [][Next]_vars
=============================================================================
