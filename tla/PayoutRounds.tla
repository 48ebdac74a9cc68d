---------------------------- MODULE PayoutRounds ----------------------------
(***************************************************************************)
(* Snapshots of src/src/ORM/payout-snapshot/payout-snapshot.service.ts,    *)
(* one block after the other: a snapshot is made from the window's work    *)
(* and the balances, a block is found with it, and it is finalized before  *)
(* the next is made.  The steps of buildPayoutDistribution are actions of  *)
(* their own; nothing comes between them.  PayoutLedger models what        *)
(* happens when snapshots and finalizations interleave.  totalPaid leaves  *)
(* out a fee that is paid in an output of its own.                         *)
(***************************************************************************)
EXTENDS PayoutDistribution

CONSTANTS
    Works,      \* the work an address may have in a window
    Values,     \* the coinbase values
    MaxBlocks   \* bound on the number of blocks

ASSUME PayoutRoundsAssumption ==
    Works \subseteq Nat /\ Values \subseteq Nat /\ MaxBlocks \in Nat

VARIABLES
    step,       \* how far the snapshot is
    value,      \* its coinbase value
    row,        \* its rows
    fee,        \* the sats its fee takes in an output of its own
    earned,     \* auxiliary: the sum of an address's gross payouts
    blocks      \* the number of blocks found, for MaxBlocks

roundsVars == <<step, value, row, fee, balance, totalPaid, earned, blocks>>

ledgerVars == <<balance, totalPaid, earned, blocks>>

RoundsInit ==
    /\ step = "idle"
    /\ value = 0
    /\ row = InitialRows(Zero, Zero, 0)
    /\ fee = 0
    /\ balance = Zero
    /\ totalPaid = Zero
    /\ earned = Zero
    /\ blocks = 0

Reward == value - FeeSats(value)

(* createSnapshotForTemplate: no snapshot without work. *)
CreateSnapshot(work, v) ==
    /\ step = "idle"
    /\ blocks < MaxBlocks
    /\ work # Zero
    /\ step' = "split"
    /\ value' = v
    /\ fee' = FeeSats(v)
    /\ row' = InitialRows(work, balance, v - FeeSats(v))
    /\ UNCHANGED ledgerVars

Allocate ==
    /\ step = "split"
    /\ step' = "allocated"
    /\ row' = AllocatePayoutTargets(row, Reward)
    /\ UNCHANGED <<value, fee, ledgerVars>>

Choose ==
    /\ step = "allocated"
    /\ step' = "chosen"
    /\ row' = ChooseOutputs(row, IF fee > 0 THEN OutputWeight[FeeAddress] ELSE 0)
    /\ UNCHANGED <<value, fee, ledgerVars>>

Redistribute ==
    /\ step = "chosen"
    /\ step' = "redistributed"
    /\ row' = RedistributeUnfit(row, Reward)
    /\ UNCHANGED <<value, fee, ledgerVars>>

MergeAndLimit ==
    /\ step = "redistributed"
    /\ step' = "built"
    /\ row' = LimitCoinbaseOutputs(MergeFee(row, fee), Rank(row, fee))
    /\ fee' = IF FeeMerges(row, fee) THEN 0 ELSE fee
    /\ UNCHANGED <<value, ledgerVars>>

(* The snapshot is stored, unless nobody is paid or the fee address has a    *)
(* pending row beside its fee: the unique index on (snapshotId, address)     *)
(* refuses that and the template goes without a snapshot.                    *)
Storable ==
    /\ fee > 0 \/ Included(row) # {}
    /\ fee > 0 => FeeAddress \notin Pending(row)

(* finalizeSnapshotForBlock for a block that pays this snapshot: each row's  *)
(* balance replaces the stored one, its payout adds to the total.  A row of  *)
(* zeros is none and changes nothing.                                        *)
FinalizeRound ==
    /\ step = "built"
    /\ Storable
    /\ step' = "idle"
    /\ balance' = [a \in Addresses |-> row[a].after]
    /\ totalPaid' = [a \in Addresses |-> totalPaid[a] + row[a].paid]
    /\ earned' = [a \in Addresses |-> earned[a] + row[a].gross]
    /\ blocks' = blocks + 1
    /\ UNCHANGED <<value, row, fee>>

Discard ==
    /\ step = "built"
    /\ ~Storable
    /\ step' = "idle"
    /\ blocks' = blocks + 1
    /\ UNCHANGED <<value, row, fee, balance, totalPaid, earned>>

RoundsNext ==
    \/ \E work \in [Addresses -> Works], v \in Values : CreateSnapshot(work, v)
    \/ Allocate
    \/ Choose
    \/ Redistribute
    \/ MergeAndLimit
    \/ FinalizeRound
    \/ Discard

RoundsSpec == RoundsInit /\ [][RoundsNext]_roundsVars

-----------------------------------------------------------------------------
Steps == {"idle", "split", "allocated", "chosen", "redistributed", "built"}

RowType ==
    [work : Nat, gross : Nat, before : Int, target : Int, paid : Nat,
     after : Int, included : BOOLEAN]

(* Types of the variables. *)
RoundsTypeOK ==
    /\ step \in Steps
    /\ {value, fee, blocks} \subseteq Nat
    /\ row \in [Addresses -> RowType]
    /\ balance \in [Addresses -> Int]
    /\ totalPaid \in [Addresses -> Nat]
    /\ earned \in [Addresses -> Nat]

Built == step = "built" /\ Storable

(* Over any number of blocks an address is owed what it earned less what it  *)
(* was paid, whatever was trimmed, advanced, limited or merged on the way.   *)
BooksBalance ==
    \A a \in Addresses : balance[a] = earned[a] - totalPaid[a]

(* What the outputs of the snapshot hand out. *)
Distributed == fee + TotalPaid(row, Included(row))

(* The whole coinbase is handed out as long as an active miner has an output *)
(* to take what the others could not be paid.                                *)
RewardDistributed ==
    Built /\ Included(row) \cap Active(row) # {} => Distributed = value

(* Nobody is paid while deep in debt: an address whose earlier advances      *)
(* exceed its share gets nothing, and no output carries a negative amount.   *)
DebtorsNotPaid ==
    Built =>
        \A a \in Addresses :
            /\ row[a].paid >= 0
            /\ row[a].paid > 0 => row[a].before + row[a].gross > 0

(* The shares of one reward are fair to the sat: a gross payout is within    *)
(* one sat of its exact proportion of the miners' part, and they sum to it.  *)
(* Nothing limits the fee to the coinbase: above 100 percent no part is left.*)
GrossIsFair ==
    step \in {"split", "allocated"} /\ Reward >= 0 =>
        LET total == SumFunction([a \in Addresses |-> row[a].work])
        IN  /\ SumFunction([a \in Addresses |-> row[a].gross]) = Reward
            /\ \A a \in Addresses :
                  LET error == row[a].gross * total - row[a].work * Reward
                  IN  -total < error /\ error < total

(* The coinbase stays within its weight and number of outputs, and carries   *)
(* no output below the minimum for an address that did not mine.  The weight *)
(* is only looked at to add a miner's output: an output of the fee alone is  *)
(* never refused.                                                            *)
WithinLimits ==
    Built =>
        /\ Cardinality(Included(row)) + (IF fee > 0 THEN 1 ELSE 0) <= MaxOutputs
        /\ Included(row) # {} =>
              SumFunction([a \in Included(row) |-> OutputWeight[a]])
                + (IF fee > 0 THEN OutputWeight[FeeAddress] ELSE 0) <= WeightBudget
        /\ \A a \in Included(row) \ Active(row) : row[a].paid >= MinOutput

(* A coinbase that is built hands out the reward, within its limits, to      *)
(* addresses that are owed it.                                               *)
CoinbaseInv == RoundsTypeOK /\ RewardDistributed /\ WithinLimits /\ DebtorsNotPaid
=============================================================================
