--------------------------- MODULE MCPayoutRounds ---------------------------
(* PayoutRounds with three miners, the third with a larger output. *)
EXTENDS PayoutRounds

MCOutputWeight == [a \in Addresses \cup {FeeAddress} |-> IF a = 3 THEN 2 ELSE 1]
=============================================================================
