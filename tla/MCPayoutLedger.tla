--------------------------- MODULE MCPayoutLedger ---------------------------
(* PayoutLedger with two miners; a reward of two sats is earned evenly or by *)
(* one of them and always paid to that one.                                  *)
EXTENDS PayoutLedger, TLC

CONSTANTS a1, a2

OnlyA1(sats) == a1 :> sats @@ a2 :> 0

MCPayments ==
    {[listed |-> {a1, a2}, gross |-> [a \in Addresses |-> 1], paid |-> OnlyA1(2)],
     [listed |-> {a1}, gross |-> OnlyA1(2), paid |-> OnlyA1(2)]}

(* Empty blocks: every template is worth the same; or none is. *)
MCSameValue == [k \in 0..MaxHeight + 1 |-> 0]
MCOwnValue  == [k \in 0..MaxHeight + 1 |-> k]

Symmetry == Permutations(Handlers)
=============================================================================
