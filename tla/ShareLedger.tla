---------------------------- MODULE ShareLedger ----------------------------
(***************************************************************************)
(* What share accounting promises the payout side, free of its mechanism:  *)
(* shares are recorded, and each recorded share is credited once.          *)
(***************************************************************************)
EXTENDS Naturals

CONSTANT PplnsShares

VARIABLES
    recorded,  \* the shares that are durable
    credits    \* how often each share counts towards payouts

vars == <<recorded, credits>>

Init ==
    /\ recorded = {}
    /\ credits = [s \in PplnsShares |-> 0]

Record ==
    \E new \in SUBSET (PplnsShares \ recorded) :
        /\ new # {}
        /\ recorded' = recorded \cup new
        /\ UNCHANGED credits

(* A batch credits recorded shares that were never credited before. *)
Credit ==
    \E batch \in SUBSET {s \in recorded : credits[s] = 0} :
        /\ batch # {}
        /\ credits' = [s \in PplnsShares |->
                          IF s \in batch THEN 1 ELSE credits[s]]
        /\ UNCHANGED recorded

Next == Record \/ Credit

Spec == Init /\ [][Next]_vars
=============================================================================
