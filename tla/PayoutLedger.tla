---------------------------- MODULE PayoutLedger ----------------------------
(***************************************************************************)
(* The payout books while the pool runs: the master makes a snapshot for   *)
(* each template it broadcasts (bitcoin-rpc.service.ts, payout-snapshot    *)
(* .service.ts), stratum handlers of other processes submit the blocks     *)
(* they find with a template and finalize its snapshot afterwards          *)
(* (StratumV1Client.ts and its SV2, JDP and TDP counterparts).  Nothing    *)
(* orders the two.                                                         *)
(*                                                                         *)
(* How a reward is split is PayoutDistribution's subject; here a snapshot  *)
(* takes any of Payments, and its balances follow as BooksBalance says.    *)
(* The chain does not reorganize.                                          *)
(***************************************************************************)
EXTENDS PayoutBooks, Sequences

CONSTANTS
    Handlers,    \* connections that may find a block
    Payments,    \* the ways a reward may be split, [listed, gross, paid]: the
                 \* addresses with work or a fee, what each earned and was paid
    Value,       \* the coinbase value of the templates of each height
    NoSnapshot,  \* payoutSnapshotId of a template without one
    MaxHeight,   \* bound on the chain
    MaxWindow    \* bound on the number of rollup batches

ASSUME PayoutLedgerAssumption ==
    /\ Payments \subseteq [listed : SUBSET Addresses, gross : [Addresses -> Nat],
                           paid : [Addresses -> Nat]]
    /\ \A payment \in Payments : \A a \in Addresses \ payment.listed : payment.gross[a] = 0
    /\ {MaxHeight, MaxWindow} \subseteq Nat
    /\ Value \in [0..MaxHeight + 1 -> Nat]
    /\ NoSnapshot \notin Nat \X Nat \X Nat

(* The ZMQ loop and the 60 s interval of onModuleInit. *)
Refreshers == {"zmq", "interval"}

VARIABLES
    chain,      \* the node's blocks, each the snapshot its coinbase pays
    info,       \* miningInfo.blocks of the master
    windowEnd,  \* index of the last rollup batch
    snapshots,  \* payout_snapshot with its entries, by its unique key
    templates,  \* the templates broadcast
    refresh,    \* the master's refreshes in progress
    handler,    \* the handlers' submissions in progress
    history,    \* payout_history: block height -> snapshot
    owed        \* auxiliary: what the chain's blocks leave owed

masterVars == <<info, snapshots, templates, refresh>>
booksVars  == <<balance, totalPaid, history>>
vars == <<chain, windowEnd, owed, handler, masterVars, booksVars>>

tip == Len(chain)

(* Another row of a table that is a function of its key. *)
With(table, key, value) ==
    [k \in DOMAIN table \cup {key} |-> IF k = key THEN value ELSE table[k]]

NoTemplate  == [snapshot |-> NoSnapshot, height |-> 0]
IdleRefresh == [step |-> "idle", base |-> 0, height |-> 0, key |-> NoSnapshot,
                before |-> Zero, covers |-> {}]
IdleHandler == [step |-> "idle", template |-> NoTemplate, result |-> "none"]

Init ==
    /\ chain = <<>>
    /\ info = 0
    /\ windowEnd = 0
    /\ snapshots = <<>>
    /\ templates = {}
    /\ refresh = [r \in Refreshers |-> IdleRefresh]
    /\ handler = [h \in Handlers |-> IdleHandler]
    /\ balance = Zero
    /\ totalPaid = Zero
    /\ history = <<>>
    /\ owed = Zero

-----------------------------------------------------------------------------
(* The world around: a rollup batch is finalized; another pool finds a block. *)
Rollup ==
    /\ windowEnd < MaxWindow
    /\ windowEnd' = windowEnd + 1
    /\ UNCHANGED <<chain, owed, handler, masterVars, booksVars>>

OthersBlock ==
    /\ tip < MaxHeight
    /\ chain' = Append(chain, NoSnapshot)
    /\ UNCHANGED <<windowEnd, owed, handler, masterVars, booksVars>>

-----------------------------------------------------------------------------
(* A refresh gets the node's template for its tip and takes it for one at    *)
(* miningInfo.blocks, which only the ZMQ loop brings up to date.             *)
ReceiveTemplate(r) ==
    /\ refresh[r].step = "idle"
    /\ r = "zmq" => info # tip
    /\ info' = IF r = "zmq" THEN tip ELSE info
    /\ refresh' = [refresh EXCEPT ![r] =
                      [step |-> "received", base |-> info', height |-> tip + 1,
                       key |-> NoSnapshot, before |-> Zero, covers |-> {}]]
    /\ UNCHANGED <<chain, windowEnd, owed, handler, snapshots, templates, booksVars>>

(* The template goes out, and the refresh is done. *)
Broadcast(r, key) ==
    /\ templates' = templates \cup {[snapshot |-> key, height |-> refresh[r].height]}
    /\ refresh' = [refresh EXCEPT ![r] = IdleRefresh]

(* What IDX_payout_snapshot_template_window keeps unique. *)
Key(r) == <<refresh[r].base, Value[refresh[r].height], windowEnd>>

(* createSnapshotForTemplate: without a batch there is no snapshot. *)
FindNoWindow(r) ==
    /\ refresh[r].step = "received"
    /\ windowEnd = 0
    /\ Broadcast(r, NoSnapshot)
    /\ UNCHANGED <<chain, windowEnd, owed, handler, info, snapshots, booksVars>>

(* A snapshot with the same key serves again. *)
ReuseSnapshot(r) ==
    LET key == Key(r) IN
    /\ refresh[r].step = "received"
    /\ windowEnd > 0
    /\ key \in DOMAIN snapshots
    /\ Broadcast(r, key)
    /\ UNCHANGED <<chain, windowEnd, owed, handler, info, snapshots, booksVars>>

(* Otherwise the balances are read, and with them the blocks they cover. *)
ReadBalances(r) ==
    LET key == Key(r) IN
    /\ refresh[r].step = "received"
    /\ windowEnd > 0
    /\ key \notin DOMAIN snapshots
    /\ refresh' = [refresh EXCEPT ![r] =
                      [step |-> "computed", base |-> refresh[r].base,
                       height |-> refresh[r].height, key |-> key,
                       before |-> balance, covers |-> DOMAIN history]]
    /\ UNCHANGED <<chain, windowEnd, owed, handler, info, snapshots, templates, booksVars>>

(* The reward is split and the snapshot stored, with an entry for each       *)
(* address that is listed or has a balance; nobody else is paid.             *)
StoreSnapshot(r, payment) ==
    LET key == refresh[r].key
        before == refresh[r].before
        entries == payment.listed \cup {a \in Addresses : before[a] # 0}
    IN
    /\ refresh[r].step = "computed"
    /\ key \notin DOMAIN snapshots
    /\ \A a \in Addresses \ entries : payment.paid[a] = 0
    /\ snapshots' = With(snapshots, key,
                         [entries |-> entries, gross |-> payment.gross, paid |-> payment.paid,
                          before |-> before, covers |-> refresh[r].covers])
    /\ Broadcast(r, key)
    /\ UNCHANGED <<chain, windowEnd, owed, handler, info, booksVars>>

(* The other refresh stored one with this key first: the unique index        *)
(* refuses the insert and the template goes without a snapshot.              *)
StoreRefused(r) ==
    /\ refresh[r].step = "computed"
    /\ refresh[r].key \in DOMAIN snapshots
    /\ Broadcast(r, NoSnapshot)
    /\ UNCHANGED <<chain, windowEnd, owed, handler, info, snapshots, booksVars>>

-----------------------------------------------------------------------------
Net(key, a) == snapshots[key].gross[a] - snapshots[key].paid[a]

Answered(h, t, result) ==
    handler' = [handler EXCEPT ![h] = [step |-> "answered", template |-> t,
                                       result |-> result]]

(* A share is a block for one of the templates, and submitblock takes it on  *)
(* top of the tip.  Its answer may be lost: SUBMIT_BLOCK then returns the    *)
(* error's text. *)
SubmitBlock(h, t, result) ==
    /\ handler[h].step = "idle"
    /\ t.height = tip + 1
    /\ tip < MaxHeight
    /\ chain' = Append(chain, t.snapshot)
    /\ owed' = IF t.snapshot = NoSnapshot THEN owed
               ELSE [a \in Addresses |-> owed[a] + Net(t.snapshot, a)]
    /\ Answered(h, t, result)
    /\ UNCHANGED <<windowEnd, masterVars, booksVars>>

(* A block that does not extend the tip is refused. *)
SubmitStaleBlock(h, t) ==
    /\ handler[h].step = "idle"
    /\ t.height # tip + 1
    /\ Answered(h, t, "error")
    /\ UNCHANGED <<chain, windowEnd, owed, masterVars, booksVars>>

(* Mutant: the balance an address brought along is forgotten. *)
AfterWithoutBefore(key, a) == Net(key, a)

AfterBalance(key, a) == snapshots[key].before[a] + Net(key, a)

(* Mutant: the total is replaced. *)
TotalReplaced(key, a) == snapshots[key].paid[a]

TotalAfter(key, a) == totalPaid[a] + snapshots[key].paid[a]

(* Mutant: the answer of submitblock is not looked at. *)
FinalizableAnyResult(h) ==
    /\ handler[h].template.snapshot # NoSnapshot
    /\ handler[h].template.height \notin DOMAIN history

(* finalizeSnapshotForBlock acts on a block that was taken, once per height. *)
Finalizable(h) ==
    /\ handler[h].result = "SUCCESS!"
    /\ handler[h].template.snapshot # NoSnapshot
    /\ handler[h].template.height \notin DOMAIN history

(* The balances of the snapshot's entries replace the stored ones, in one    *)
(* transaction; an address without an entry keeps its balance. *)
Finalize(h) ==
    LET t == handler[h].template IN
    /\ handler[h].step = "answered"
    /\ Finalizable(h)
    /\ balance' = [a \in Addresses |-> IF a \in snapshots[t.snapshot].entries
                                       THEN AfterBalance(t.snapshot, a) ELSE balance[a]]
    /\ totalPaid' = [a \in Addresses |-> TotalAfter(t.snapshot, a)]
    /\ history' = With(history, t.height, t.snapshot)
    /\ handler' = [handler EXCEPT ![h] = IdleHandler]
    /\ UNCHANGED <<chain, windowEnd, owed, masterVars>>

SkipFinalization(h) ==
    /\ handler[h].step = "answered"
    /\ ~Finalizable(h)
    /\ handler' = [handler EXCEPT ![h] = IdleHandler]
    /\ UNCHANGED <<chain, windowEnd, owed, masterVars, booksVars>>

(* blocksService.save throws, or the handler's process ends. *)
HandlerFails(h) ==
    /\ handler[h].step = "answered"
    /\ handler' = [handler EXCEPT ![h] = IdleHandler]
    /\ UNCHANGED <<chain, windowEnd, owed, masterVars, booksVars>>

-----------------------------------------------------------------------------
RefreshStep(r) ==
    \/ ReceiveTemplate(r)
    \/ FindNoWindow(r)
    \/ ReuseSnapshot(r)
    \/ ReadBalances(r)
    \/ \E payment \in Payments : StoreSnapshot(r, payment)
    \/ StoreRefused(r)

HandlerStep(h) ==
    \/ \E t \in templates :
          \/ \E result \in {"SUCCESS!", "error"} : SubmitBlock(h, t, result)
          \/ SubmitStaleBlock(h, t)
    \/ Finalize(h)
    \/ SkipFinalization(h)
    \/ HandlerFails(h)

Next ==
    \/ Rollup
    \/ OthersBlock
    \/ \E r \in Refreshers : RefreshStep(r)
    \/ \E h \in Handlers : HandlerStep(h)

Spec == Init /\ [][Next]_vars
-----------------------------------------------------------------------------
Keys == Nat \X Nat \X Nat

(* An address without an entry earned nothing and is paid nothing. *)
SnapshotType ==
    {s \in [entries : SUBSET Addresses, gross : [Addresses -> Nat], paid : [Addresses -> Nat],
            before : [Addresses -> Int], covers : SUBSET Nat] :
        \A a \in Addresses \ s.entries : s.gross[a] = 0 /\ s.paid[a] = 0}

TemplateType == [snapshot : Keys \cup {NoSnapshot}, height : Nat]

RefreshType ==
    [step : {"idle", "received", "computed"}, base : Nat, height : 0..MaxHeight + 1,
     key : Keys \cup {NoSnapshot}, before : [Addresses -> Int], covers : SUBSET Nat]

HandlerType ==
    [step : {"idle", "answered"}, template : TemplateType,
     result : {"none", "SUCCESS!", "error"}]

(* Types of the variables: a template's or a block's snapshot is a stored    *)
(* one, and so is every snapshot in the history.                             *)
TypeOK ==
    /\ tip \in 0..MaxHeight
    /\ chain \in Seq(DOMAIN snapshots \cup {NoSnapshot})
    /\ {info, windowEnd} \subseteq Nat
    /\ DOMAIN snapshots \subseteq Keys
    /\ \A key \in DOMAIN snapshots : snapshots[key] \in SnapshotType
    /\ templates \subseteq TemplateType
    /\ \A t \in templates : t.snapshot \in DOMAIN snapshots \cup {NoSnapshot}
    /\ refresh \in [Refreshers -> RefreshType]
    /\ \A r \in Refreshers : refresh[r].step = "computed" => refresh[r].key \in Keys
    /\ handler \in [Handlers -> HandlerType]
    /\ \A h \in Handlers :
          handler[h].template.snapshot \in DOMAIN snapshots \cup {NoSnapshot}
    /\ balance \in [Addresses -> Int]
    /\ totalPaid \in [Addresses -> Nat]
    /\ DOMAIN history \subseteq Nat
    /\ \A k \in DOMAIN history : history[k] \in DOMAIN snapshots
    /\ owed \in [Addresses -> Int]

(* Only blocks that are on the chain reach the books, each with the          *)
(* snapshot its coinbase pays: no rejected or stale block is finalized.      *)
HistoryOnChain ==
    \A k \in DOMAIN history : k \in 1..tip /\ chain[k] = history[k]

(* An address's total is what its finalized blocks paid it, each once.       *)
TotalsMatchHistory ==
    \A a \in Addresses :
        totalPaid[a] = SumFunction([k \in DOMAIN history |->
                                        snapshots[history[k]].paid[a]])

PoolBlocks == {k \in 1..tip : chain[k] # NoSnapshot}

(* Every block was mined on a snapshot whose balances were read after all    *)
(* the pool's earlier blocks had been finalized.                             *)
MinedOnSettledBooks ==
    \A k \in PoolBlocks :
        snapshots[chain[k]].covers = {j \in PoolBlocks : j < k}

Settled == PoolBlocks \subseteq DOMAIN history

(* The balances carry what every block left owed, whatever is interleaved,   *)
(* so long as no block was mined on a snapshot older than the finalization   *)
(* of the block before it.                                                   *)
BalancesCarried == MinedOnSettledBooks /\ Settled => balance = owed

(* "should apply positive and negative carried balances to the next          *)
(* distribution" (payout-distribution.spec.ts:92): once all blocks are       *)
(* finalized the balances carry what they left owed.                         *)
CarriedBalances == Settled => balance = owed
=============================================================================
