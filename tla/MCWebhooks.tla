----------------------------- MODULE MCWebhooks -----------------------------
(* Instances of the webhook path.                                          *)
EXTENDS Webhooks

CONSTANTS s1, s2

OneSub == {s1}
TwoSubs == {s1, s2}
NoSubs == {}

\* The internal ids a process can hand out.
MCScopes == 0..Cardinality(Subs)

\* A signer that refuses: the shortest life of a transaction.
RefusedSteps == {<<"Idle", "Unapproved">>, <<"Unapproved", "Rejected">>}

\* A signer that has not answered yet.
PendingSteps == {<<"Idle", "Unapproved">>}

\* The events these transactions cause.
MCEvents == {<<s, step[2]>> : s \in Subs, step \in StatusSteps}
=============================================================================
