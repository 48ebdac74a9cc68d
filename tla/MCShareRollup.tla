--------------------------- MODULE MCShareRollup ---------------------------
(* ShareRollup with two workers and three shares.  Share s1 is accepted at    *)
(* the start, s2, of the other worker, a tick later, so that s1's row ages   *)
(* while one with a lower index may be under way; s2 and s3 are accepted     *)
(* also when the first batches are made.                                     *)
EXTENDS ShareRollup, TLC

CONSTANTS s1, s2, s3, w1, w2, r1, r2

MCHome == [s \in Shares |-> IF s = s2 THEN w2 ELSE w1]
MCAcceptAt == [s \in Shares |->
    CASE s = s1 -> {0}
      [] s = s2 -> {1, 3}
      [] s = s3 -> {0, 3}]
=============================================================================
