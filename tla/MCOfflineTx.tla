---------------------------- MODULE MCOfflineTx ----------------------------
(* Instances of the AMQP path.                                             *)
EXTENDS OfflineTx
=============================================================================
