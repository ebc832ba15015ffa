----------------------------- MODULE MCRequests -----------------------------
(***************************************************************************)
(* Requests over every route of the controllers.                           *)
(***************************************************************************)
EXTENDS AssetRoutes, Requests

AllRoutes == IdentityRouteSet \cup AssetRouteSet

\* Nested options in every mode, with and without a deprecated field beside them, and
\* every combination of the deprecated fields.
AllForms ==
  {f \in Form : f.options # "none" => ~f.signer /\ ~f.dryRun} \cup
  {[options |-> "submit", signer |-> TRUE, webhookUrl |-> FALSE, dryRun |-> TRUE]}
=============================================================================
