--------------------------- MODULE MCDatumSession ---------------------------
(* A small instance of DatumSession: datum.cfg gives the constants.  Job ids *)
(* are only compared, so they may be exchanged.                              *)
EXTENDS DatumSession, TLC

JobSymmetry == Permutations(JobIds)
=============================================================================
