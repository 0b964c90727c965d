------------------------------ MODULE MCSsmbIpi ------------------------------
(* The mailbox with one or two U54s, small queues and a few transactions.  *)
EXTENDS SsmbIpi
=============================================================================
