----------------------------- MODULE OfflineFlow -----------------------------
(***************************************************************************)
(* What process mode AMQP promises on either message service: the life of  *)
(* a transaction, one stage after the other.  It is requested, signed,     *)
(* saved, put on the chain, announced and marked as Finalized; it may stop *)
(* at any stage, and skips none.                                           *)
(***************************************************************************)
CONSTANT Txs

VARIABLES
    requested,   \* a request was sent
    signed,      \* a signature was sent
    row,         \* status of the saved transaction
    included,    \* on the chain
    announced    \* a finalization was sent

vars == <<requested, signed, row, included, announced>>

Init ==
    /\ requested = {}
    /\ signed = {}
    /\ row = [t \in Txs |-> "none"]
    /\ included = {}
    /\ announced = {}

Request(t) ==
    /\ t \notin requested
    /\ requested' = requested \cup {t}
    /\ UNCHANGED <<signed, row, included, announced>>

Sign(t) ==
    /\ t \in requested \ signed
    /\ signed' = signed \cup {t}
    /\ UNCHANGED <<requested, row, included, announced>>

Save(t) ==
    /\ t \in signed /\ row[t] = "none"
    /\ row' = [row EXCEPT ![t] = "Signed"]
    /\ UNCHANGED <<requested, signed, included, announced>>

\* The transaction may be announced at once.
Include(t) ==
    /\ row[t] # "none" /\ t \notin included
    /\ included' = included \cup {t}
    /\ announced' \in {announced, announced \cup {t}}
    /\ UNCHANGED <<requested, signed, row>>

Announce(t) ==
    /\ t \in included \ announced
    /\ announced' = announced \cup {t}
    /\ UNCHANGED <<requested, signed, row, included>>

Finalize(t) ==
    /\ t \in announced /\ row[t] = "Signed"
    /\ row' = [row EXCEPT ![t] = "Finalized"]
    /\ UNCHANGED <<requested, signed, included, announced>>

Next ==
    \E t \in Txs :
        Request(t) \/ Sign(t) \/ Save(t) \/ Include(t) \/ Announce(t) \/ Finalize(t)

Spec == Init /\ [][Next]_vars

\* A signature that is handled again puts a finalized transaction back.
Resave(t) ==
    /\ row[t] = "Finalized"
    /\ row' = [row EXCEPT ![t] = "Signed"]
    /\ UNCHANGED <<requested, signed, included, announced>>
=============================================================================
