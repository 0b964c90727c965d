------------------------------ MODULE MCSuperLoop ------------------------------
(***************************************************************************)
(* SuperLoop with five init functions, IPI_QueuesInit as the first, and     *)
(* a transfer of a block of two pieces and an empty one.                   *)
(***************************************************************************)
EXTENDS SuperLoop

TransferBlocks == <<2, 0>>
=============================================================================
