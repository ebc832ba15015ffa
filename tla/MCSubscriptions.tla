--------------------------- MODULE MCSubscriptions ---------------------------
(* The handshake component alone: two subscriptions, three tries each, two *)
(* failing repository calls.                                               *)
EXTENDS Subscriptions
=============================================================================
