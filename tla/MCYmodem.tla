------------------------------- MODULE MCYmodem -------------------------------
(* Files around the wrap of the block number and around the buffer's size.  *)
EXTENDS Ymodem

AllSizes == 1..MaxSize + 1
=============================================================================
