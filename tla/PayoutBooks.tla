---------------------------- MODULE PayoutBooks ----------------------------
(***************************************************************************)
(* The payout_balance table (src/src/ORM/payout-snapshot): what the pool   *)
(* owes each address and has paid it.  PayoutRounds and PayoutLedger are   *)
(* two views of what changes it.                                           *)
(***************************************************************************)
EXTENDS Integers, FiniteSets, Functions

CONSTANT
    Addresses   \* the miners' payout addresses

VARIABLES
    balance,    \* payout_balance.balanceSats, below zero after an advance
    totalPaid   \* payout_balance.totalPaidSats

(* An address without a row is owed nothing. *)
Zero == [a \in Addresses |-> 0]
=============================================================================
