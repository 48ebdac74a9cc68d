---------------------------- MODULE MCShareQueue ----------------------------
(* ShareQueue on the shares its configuration names.  No symmetry: the same  *)
(* run checks liveness. *)
EXTENDS ShareQueue
=============================================================================
