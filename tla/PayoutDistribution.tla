------------------------- MODULE PayoutDistribution -------------------------
(***************************************************************************)
(* How one coinbase is split among the addresses of a PPLNS window:        *)
(* buildPayoutDistribution of src/src/ORM/payout-snapshot/                 *)
(* payout-distribution.ts and limitCoinbaseOutputs of                      *)
(* payout-snapshot.service.ts.  Pure operators; PayoutRounds runs them.    *)
(*                                                                         *)
(* An address is a natural number, their order stands for localeCompare.   *)
(* Amounts and work are integers: the code's floats are not modelled, so   *)
(* the fraction of a share is compared exactly.  An address without work   *)
(* and balance has a row of zeros here and none in the code.               *)
(***************************************************************************)
EXTENDS PayoutBooks

CONSTANTS
    OutputWeight,  \* weight units of an output to each address
    WeightBudget,  \* coinbaseWeightBudget less the fixed parts and the margin
    MaxOutputs,    \* PAYOUT_MAX_COINBASE_OUTPUTS
    MinOutput,     \* minOutputSats, not below the dust limit
    FeeAddress,    \* PAYOUT_FEE_ADDRESS, NoFee if there is none
    NoFee,
    FeePercent     \* PAYOUT_FEE_PERCENT

ASSUME PayoutDistributionAssumption ==
    /\ Addresses \subseteq Nat /\ IsFiniteSet(Addresses)
    /\ OutputWeight \in [Addresses \cup {FeeAddress} -> Nat]
    /\ NoFee \notin Addresses
    /\ {WeightBudget, FeePercent} \subseteq Nat
    /\ {MaxOutputs, MinOutput} \subseteq Nat \ {0}

-----------------------------------------------------------------------------
(* allocateIntegerSats, largest remainders: the whole part for each, and one *)
(* of the sats left over for the largest fractions, ties by weight, address. *)

(* Mutant: every fraction is rounded up. *)
AllocateRoundingUp(weight, amount, total) ==
    [a \in Addresses |->
        IF amount <= 0 \/ total <= 0 \/ a \notin DOMAIN weight \/ weight[a] <= 0 THEN 0
        ELSE (weight[a] * amount + total - 1) \div total]

AllocateIntegerSats(weight, amount, total) ==
    LET items    == {a \in DOMAIN weight : weight[a] > 0}
        whole    == [a \in items |-> (weight[a] * amount) \div total]
        fraction == [a \in items |-> (weight[a] * amount) % total]
        residual == amount - SumFunction(whole)
        Before(b, a) ==
            \/ fraction[b] > fraction[a]
            \/ fraction[b] = fraction[a] /\ weight[b] > weight[a]
            \/ fraction[b] = fraction[a] /\ weight[b] = weight[a] /\ b < a
    IN  [a \in Addresses |->
            IF amount <= 0 \/ total <= 0 \/ a \notin items THEN 0
            ELSE IF Cardinality({b \in items : Before(b, a)}) < residual
                 THEN whole[a] + 1
                 ELSE whole[a]]

(* The shares of amount that the addresses in S get, by their work. *)
ByWork(row, S, amount) ==
    LET work == [a \in S |-> row[a].work]
    IN  AllocateIntegerSats(work, amount, SumFunction(work))

Positive(row) == {a \in Addresses : row[a].target > 0}
Active(row)   == {a \in Addresses : row[a].work > 0}
Included(row) == {a \in Addresses : row[a].included}
TotalPaid(row, S) == SumFunction([a \in S |-> row[a].paid])

(* More sats for a row: they are paid out, and taken from its balance. *)
AddPayment(row, extra) ==
    [a \in Addresses |-> [row[a] EXCEPT !.paid = @ + extra[a],
                                        !.after = @ - extra[a]]]

-----------------------------------------------------------------------------
(* The fee comes first; a fee below the smallest output is not taken. *)
FeeSats(value) ==
    LET wanted == (FeePercent * value) \div 100
    IN  IF FeeAddress # NoFee /\ wanted >= MinOutput THEN wanted ELSE 0

(* What each address is owed: its fair share and its balance. *)
InitialRows(work, carried, reward) ==
    LET fair == AllocateIntegerSats(work, reward, SumFunction(work))
    IN  [a \in Addresses |->
            [work |-> work[a], gross |-> fair[a], before |-> carried[a],
             target |-> fair[a] + carried[a], paid |-> 0,
             after |-> fair[a] + carried[a], included |-> FALSE]]

(* Mutant: debts are not taken into account. *)
AllocateIgnoringDebts(row, reward) ==
    AddPayment(row, ByWork(row, Active(row), reward))

(* allocatePayoutTargets: three ways to split the reward.  Nobody is owed    *)
(* anything: by work.  All that is owed fits: pay it, and the surplus by     *)
(* work.  It does not fit: in proportion to what is owed.                    *)
AllocatePayoutTargets(row, reward) ==
    LET positive == Positive(row)
        owed     == [a \in positive |-> row[a].target]
        total    == SumFunction(owed)
        inFull   == AddPayment(row,
                        [a \in Addresses |->
                            IF a \in positive THEN row[a].target ELSE 0])
    IN  CASE total <= 0 ->
               AddPayment(row, ByWork(row, Active(row), reward))
          [] 0 < total /\ total <= reward ->
               AddPayment(inFull, ByWork(row, positive \cap Active(row), reward - total))
          [] 0 < total /\ reward < total ->
               AddPayment(row, AllocateIntegerSats(owed, reward, total))

(* The order of payment: by payout, then by target, then by address. *)
PaidBefore(row, b, a) ==
    \/ row[b].paid > row[a].paid
    \/ row[b].paid = row[a].paid /\ row[b].target > row[a].target
    \/ row[b].paid = row[a].paid /\ row[b].target = row[a].target /\ b < a

Eligible(row) ==
    {a \in Addresses :
        row[a].paid > 0 /\ (row[a].work > 0 \/ row[a].paid >= MinOutput)}

(* The outputs that fit the coinbase, tried in the order of payment; what    *)
(* does not fit is not paid and stays owed.                                  *)
ChooseOutputs(row, feeWeight) ==
    LET Used(S, a) ==
            feeWeight + OutputWeight[a] +
            SumFunction([b \in {c \in S : PaidBefore(row, c, a)} |-> OutputWeight[b]])
        fitting == CHOOSE S \in SUBSET Eligible(row) :
                      \A a \in Eligible(row) :
                          a \in S <=> Used(S, a) <= WeightBudget
    IN  [a \in Addresses |->
            IF a \in fitting THEN [row[a] EXCEPT !.included = TRUE]
            ELSE [row[a] EXCEPT !.paid = 0, !.after = row[a].target]]

(* redistributeUnfitMinerPayouts: what was not paid goes to the active       *)
(* miners who have an output, as an advance on their balance.                *)
RedistributeUnfit(row, reward) ==
    LET remainder == reward - TotalPaid(row, Included(row))
    IN  AddPayment(row, ByWork(row, Included(row) \cap Active(row), remainder))

(* mergeFeeEntry: the fee joins the fee address's own output, if it has one. *)
FeeMerges(row, fee) == fee > 0 /\ FeeAddress \in Included(row)

(* Mutant: the fee is paid with the address's own payout, but not earned. *)
MergeFeeNotGross(row, fee) ==
    IF FeeMerges(row, fee) THEN [row EXCEPT ![FeeAddress].paid = @ + fee] ELSE row

MergeFee(row, fee) ==
    IF FeeMerges(row, fee)
    THEN [row EXCEPT ![FeeAddress].paid = @ + fee, ![FeeAddress].gross = @ + fee]
    ELSE row

(* limitCoinbaseOutputs: only the first MaxOutputs outputs stay; what the    *)
(* others would have got is owed to them and goes to the active ones left.   *)
LimitCoinbaseOutputs(row, rank) ==
    LET removed == {a \in Included(row) : rank[a] > MaxOutputs}
        kept    == Included(row) \ removed
        limited == [a \in Addresses |->
                       IF a \in removed
                       THEN [row[a] EXCEPT !.paid = 0, !.after = @ + row[a].paid,
                                           !.included = FALSE]
                       ELSE row[a]]
    IN  AddPayment(limited,
            ByWork(limited, kept \cap Active(row), TotalPaid(row, removed)))

(* The position of each output in the coinbase: a fee of its own comes       *)
(* first, the miners follow in the order of payment.                         *)
Rank(row, fee) ==
    LET first == IF fee > 0 /\ ~FeeMerges(row, fee) THEN 1 ELSE 0
    IN  [a \in Addresses |->
            1 + first + Cardinality({b \in Included(row) : PaidBefore(row, b, a)})]

(* Rows that are stored although they have no output. *)
Pending(row) ==
    {a \in Addresses :
        /\ ~row[a].included
        /\ row[a].before # row[a].after \/ row[a].after # 0}
=============================================================================
