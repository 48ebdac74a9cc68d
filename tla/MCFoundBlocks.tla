---------------------------- MODULE MCFoundBlocks ----------------------------
(* A small instance of FoundBlocks: blocks.cfg gives the constants.  Rivals  *)
(* of one kind may be exchanged.                                             *)
EXTENDS FoundBlocks

Rivals == Permutations(PoolBlocks)
=============================================================================
