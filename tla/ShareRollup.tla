---------------------------- MODULE ShareRollup ----------------------------
(***************************************************************************)
(* Accepted shares on their way from the stratum workers through the table *)
(* accepted_share_entity into the batches PPLNS payouts are computed from  *)
(* (src/src/ORM/share-accounting/share-accounting.service.ts).             *)
(*                                                                         *)
(* A worker stamps a share with its own clock, queues it and inserts it    *)
(* later, together with others, in one statement.  Each row of the insert  *)
(* takes its shareIndex from a sequence when the row is evaluated and is   *)
(* visible only when the insert commits, so rows of different workers      *)
(* become visible out of index order.  The rollup walks the table by       *)
(* shareIndex and never looks below its watermark again: what keeps a late *)
(* commit from being skipped is the safety lag alone.                      *)
(*                                                                         *)
(* Time is the real clock `now', also read by the database (one host or    *)
(* NTP); a worker's clock may be off by up to MaxSkew.  How a worker picks *)
(* the rows of an insert is in ShareQueue; here it is any of its queue.    *)
(***************************************************************************)
EXTENDS Integers, FiniteSets

CONSTANTS
    Shares,             \* the shares the miners submit
    PplnsShares,        \* those of payoutMode 'pplns', the others are 'solo'
    Workers,            \* processes that record shares
    Home,               \* the worker each share is submitted to
    Rollers,            \* processes that run the rollup timer (MASTER)
    NoRoller,           \* the advisory lock is free
    Lag,                \* SHARE_ROLLUP_SAFETY_LAG_SECONDS
    MaxSharesPerBatch,  \* SHARE_ROLLUP_MAX_SHARES_PER_BATCH
    MaxDelay,           \* longest time from acceptance to commit or failure
    MaxSkew,            \* how far a worker's clock is off
    AcceptAt,           \* bound: the times at which each share may be accepted
    Horizon,            \* bound: the clock stops here
    MaxAborts           \* bound: rollup transactions that fail

ASSUME ShareRollupAssumption ==
    /\ IsFiniteSet(Shares)
    /\ PplnsShares \subseteq Shares
    /\ Home \in [Shares -> Workers]
    /\ NoRoller \notin Rollers
    /\ {Lag, MaxDelay, MaxSkew, Horizon, MaxAborts} \subseteq Nat
    /\ AcceptAt \in [Shares -> SUBSET Nat]
    /\ MaxSharesPerBatch \in Nat \ {0}

(* The deployment's duty: a share reaches the table, or fails to, soon     *)
(* enough for the configured lag.  Nothing in the code enforces it.        *)
ASSUME LagAssumption == Lag > 2 * MaxDelay + MaxSkew

VARIABLES
    now,         \* real time, and the database's NOW()
    phase,       \* where each share is
    acceptedAt,  \* the stamp the worker put on each share
    shareIndex,  \* value drawn from accepted_share_index_seq, 0 if none yet
    nextIndex,   \* the sequence's next value
    lock,        \* who holds SHARE_ROLLUP_ADVISORY_LOCK
    tx,          \* the rollup transaction of each process
    batches,     \* share_rollup_batch with its share_rollup_batch_summary rows
    aborts,      \* counts failed rollup transactions, for MaxAborts
    born         \* auxiliary: real time at which each share was accepted

shareVars == <<phase, acceptedAt, shareIndex, nextIndex, born>>
rollupVars == <<lock, tx, batches, aborts>>
vars == <<now, phase, acceptedAt, shareIndex, nextIndex, lock, tx, batches,
          aborts, born>>

-----------------------------------------------------------------------------
(* The table as a query sees it. *)

Pending(w) == {s \in Shares : Home[s] = w /\ phase[s] = "pending"}
Flight(w)  == {s \in Shares : Home[s] = w /\ phase[s] = "inserting"}
Rows       == {s \in PplnsShares : phase[s] = "committed"}

RowsBetween(lo, hi) ==
    {s \in Rows : lo <= shareIndex[s] /\ shareIndex[s] <= hi}

(* Mutant: the watermark is MAX("startShareIndex"). *)
LastStarted ==
    {w \in {0} \cup {b.start : b \in batches} :
        \A b \in batches : b.start <= w}

(* COALESCE(MAX("endShareIndex"), 0), the one member of this set. *)
LastProcessed ==
    {w \in {0} \cup {b.end : b \in batches} :
        \A b \in batches : b.end <= w}

(* Mutants: no lag at all; young rows filtered out, the scan not stopped. *)
StableRowsNoLag(last, startedAt) == {s \in Rows : shareIndex[s] > last}

StableRowsFiltered(last, startedAt) ==
    {s \in Rows : shareIndex[s] > last /\ acceptedAt[s] <= startedAt - Lag}

(* CTEs first_unstable and stable_bound: rows above the watermark and below *)
(* the first row, by index, that is younger than the lag.                   *)
StableRows(last, startedAt) ==
    {s \in Rows :
        /\ shareIndex[s] > last
        /\ \A u \in Rows :
              shareIndex[u] > last /\ acceptedAt[u] > startedAt - Lag
                => shareIndex[s] < shareIndex[u]}

(* CTE bounded: the first MaxSharesPerBatch of them in index order. *)
BoundedRows(last, startedAt) ==
    LET stable == StableRows(last, startedAt)
    IN  {s \in stable :
            Cardinality({c \in stable : shareIndex[c] < shareIndex[s]})
                < MaxSharesPerBatch}

IdleTx == [step |-> "idle", startedAt |-> 0, start |-> 0, end |-> 0,
           counted |-> {}]

-----------------------------------------------------------------------------
Init ==
    /\ now = 0
    /\ phase = [s \in Shares |-> "new"]
    /\ acceptedAt = [s \in Shares |-> 0]
    /\ born = [s \in Shares |-> 0]
    /\ shareIndex = [s \in Shares |-> 0]
    /\ nextIndex = 1
    /\ lock = NoRoller
    /\ tx = [r \in Rollers |-> IdleTx]
    /\ batches = {}
    /\ aborts = 0

(* recordAcceptedShare: stamp the share with the worker's clock, queue it. *)
RecordAcceptedShare(s) ==
    /\ phase[s] = "new"
    /\ now \in AcceptAt[s]
    /\ phase' = [phase EXCEPT ![s] = "pending"]
    /\ \E t \in (now - MaxSkew)..(now + MaxSkew) :
          acceptedAt' = [acceptedAt EXCEPT ![s] = t]
    /\ born' = [born EXCEPT ![s] = now]
    /\ UNCHANGED <<now, shareIndex, nextIndex, rollupVars>>

(* startFlush: one insert at a time per worker. *)
BeginFlush(w) ==
    /\ Flight(w) = {}
    /\ \E batch \in SUBSET Pending(w) :
          /\ batch # {}
          /\ phase' = [s \in Shares |->
                          IF s \in batch THEN "inserting" ELSE phase[s]]
    /\ UNCHANGED <<now, acceptedAt, born, shareIndex, nextIndex, rollupVars>>

(* The database evaluates nextval() for one row of a running insert. *)
AssignIndex(s) ==
    /\ phase[s] = "inserting"
    /\ shareIndex[s] = 0
    /\ shareIndex' = [shareIndex EXCEPT ![s] = nextIndex]
    /\ nextIndex' = nextIndex + 1
    /\ UNCHANGED <<now, phase, acceptedAt, born, rollupVars>>

(* The insert commits: all its rows become visible together. *)
CommitFlush(w) ==
    /\ Flight(w) # {}
    /\ \A s \in Flight(w) : shareIndex[s] # 0
    /\ phase' = [s \in Shares |->
                    IF s \in Flight(w) THEN "committed" ELSE phase[s]]
    /\ UNCHANGED <<now, acceptedAt, born, shareIndex, nextIndex, rollupVars>>

(* The insert fails: no row appears, the index values it drew are gaps. *)
FailFlush(w) ==
    /\ Flight(w) # {}
    /\ phase' = [s \in Shares |->
                    IF s \in Flight(w) THEN "failed" ELSE phase[s]]
    /\ UNCHANGED <<now, acceptedAt, born, shareIndex, nextIndex, rollupVars>>

(* SIGTERM ends the process with its queue; a running insert ends by itself. *)
ExitWorker(w) ==
    /\ Pending(w) # {}
    /\ phase' = [s \in Shares |->
                    IF s \in Pending(w) THEN "failed" ELSE phase[s]]
    /\ UNCHANGED <<now, acceptedAt, born, shareIndex, nextIndex, rollupVars>>

-----------------------------------------------------------------------------
(* processPendingShareRollupBatch runs in a READ COMMITTED transaction: each *)
(* statement sees what has committed by then, NOW() is the transaction's     *)
(* start.  A process that does not get the lock returns 'locked' and changes *)
(* nothing.                                                                  *)
BeginRollupUnlocked(r) ==  \* Mutant: the lock is not looked at.
    /\ tx[r].step = "idle"
    /\ lock' = r
    /\ tx' = [tx EXCEPT ![r] = [IdleTx EXCEPT !.step = "locked",
                                              !.startedAt = now]]
    /\ UNCHANGED <<now, shareVars, batches, aborts>>

BeginRollup(r) ==
    /\ tx[r].step = "idle"
    /\ lock = NoRoller
    /\ lock' = r
    /\ tx' = [tx EXCEPT ![r] = [IdleTx EXCEPT !.step = "locked",
                                              !.startedAt = now]]
    /\ UNCHANGED <<now, shareVars, batches, aborts>>

(* The rows of the next batch, for the transaction of process r. *)
NextRows(r) ==
    UNION {BoundedRows(last, tx[r].startedAt) : last \in LastProcessed}

FindNoSharesKeepsLock(r) ==  \* Mutant: a lock of the session, not released.
    /\ tx[r].step = "locked"
    /\ NextRows(r) = {}
    /\ tx' = [tx EXCEPT ![r] = IdleTx]
    /\ UNCHANGED <<now, shareVars, lock, batches, aborts>>

(* Nothing is stable above the watermark: 'no-shares'. *)
FindNoShares(r) ==
    /\ tx[r].step = "locked"
    /\ NextRows(r) = {}
    /\ tx' = [tx EXCEPT ![r] = IdleTx]
    /\ lock' = NoRoller
    /\ UNCHANGED <<now, shareVars, batches, aborts>>

(* The range of the next batch, from the lowest of its rows to the highest. *)
FindRange(r) ==
    /\ tx[r].step = "locked"
    /\ \E lo, hi \in NextRows(r) :
          /\ \A s \in NextRows(r) : shareIndex[s] \in shareIndex[lo]..shareIndex[hi]
          /\ tx' = [tx EXCEPT ![r].step = "ranged",
                              ![r].start = shareIndex[lo],
                              ![r].end = shareIndex[hi]]
    /\ UNCHANGED <<now, shareVars, lock, batches, aborts>>

(* The batch's own count and difficulty, read by a second statement. *)
ReadStats(r) ==
    /\ tx[r].step = "ranged"
    /\ tx' = [tx EXCEPT ![r].step = "counted",
                        ![r].counted = RowsBetween(tx[r].start, tx[r].end)]
    /\ UNCHANGED <<now, shareVars, lock, batches, aborts>>

(* The batch row with the statistics read before, its per-address summary   *)
(* read by the insert itself, COMMIT; the lock goes with the transaction.   *)
CommitRollup(r) ==
    /\ tx[r].step = "counted"
    /\ \A b \in batches : b.start # tx[r].start \/ b.end # tx[r].end
    /\ batches' = batches \cup
          {[start   |-> tx[r].start,
            end     |-> tx[r].end,
            counted |-> tx[r].counted,
            summary |-> RowsBetween(tx[r].start, tx[r].end)]}
    /\ tx' = [tx EXCEPT ![r] = IdleTx]
    /\ lock' = NoRoller
    /\ UNCHANGED <<now, shareVars, aborts>>

(* A statement fails or the process dies: the transaction rolls back. *)
AbortRollup(r) ==
    /\ tx[r].step # "idle"
    /\ aborts < MaxAborts
    /\ aborts' = aborts + 1
    /\ tx' = [tx EXCEPT ![r] = IdleTx]
    /\ lock' = NoRoller
    /\ UNCHANGED <<now, shareVars, batches>>

(* Time passes, but not beyond MaxDelay for a share still on its way. *)
Tick ==
    /\ now < Horizon
    /\ \A s \in Shares :
          phase[s] \in {"pending", "inserting"} => now < born[s] + MaxDelay
    /\ now' = now + 1
    /\ UNCHANGED <<shareVars, rollupVars>>

FlushStep(w) ==
    BeginFlush(w) \/ CommitFlush(w) \/ FailFlush(w) \/ ExitWorker(w)

RollupStep(r) ==
    \/ BeginRollup(r)
    \/ FindNoShares(r)
    \/ FindRange(r)
    \/ ReadStats(r)
    \/ CommitRollup(r)

Next ==
    \/ \E s \in Shares : RecordAcceptedShare(s) \/ AssignIndex(s)
    \/ \E w \in Workers : FlushStep(w)
    \/ \E r \in Rollers : RollupStep(r) \/ AbortRollup(r)
    \/ Tick

(* Timers fire, statements end, time passes. *)
Fairness ==
    /\ \A s \in Shares : WF_vars(AssignIndex(s))
    /\ \A w \in Workers : WF_vars(FlushStep(w))
    /\ \A r \in Rollers : WF_vars(RollupStep(r))
    /\ WF_vars(Tick)

Spec == Init /\ [][Next]_vars
FairSpec == Spec /\ Fairness

-----------------------------------------------------------------------------
Phases == {"new", "pending", "inserting", "committed", "failed"}

TxType == [step : {"idle", "locked", "ranged", "counted"}, startedAt : Nat,
           start : Nat, end : Nat, counted : SUBSET PplnsShares]

BatchType == [start : Nat, end : Nat, counted : SUBSET PplnsShares,
              summary : SUBSET PplnsShares]

(* Types of the variables; the table is finite because Shares is. *)
TypeOK ==
    /\ now \in Nat
    /\ phase \in [Shares -> Phases]
    /\ acceptedAt \in [Shares -> Int]
    /\ born \in [Shares -> Nat]
    /\ shareIndex \in [Shares -> Nat]
    /\ nextIndex \in Nat \ {0}
    /\ lock \in Rollers \cup {NoRoller}
    /\ tx \in [Rollers -> TxType]
    /\ batches \in SUBSET BatchType
    /\ aborts \in Nat

(* A finalized batch holds exactly the rows of its range, forever: its count *)
(* and its per-address summary, read by different statements, agree, and no  *)
(* insert ever commits a row into a range that is already finalized          *)
(* (processPendingShareRollupBatch).                                         *)
BatchesComplete ==
    \A b \in batches :
        /\ b.counted = RowsBetween(b.start, b.end)
        /\ b.summary = RowsBetween(b.start, b.end)

(* No share is left behind: a visible PPLNS row at or below the watermark is *)
(* in some batch, since the rollup never reads below the watermark again.    *)
NoShareSkipped ==
    \A s \in Rows : \A w \in batches :
        shareIndex[s] <= w.end => \E b \in batches : s \in b.summary

(* No share is paid twice: ranges of different batches do not overlap even   *)
(* when two processes run the rollup timer.                                  *)
BatchesDisjoint ==
    \A b, c \in batches : b # c => b.end < c.start \/ c.end < b.start

(* The clock runs until the row and those below it are old enough.           *)
Ripens(s) ==
    \A u \in Rows : shareIndex[u] <= shareIndex[s] => acceptedAt[u] + Lag <= Horizon

(* Every committed PPLNS share is rolled up in the end, while later ones     *)
(* arrive: neither a share of the same table that is too young, nor a failed *)
(* transaction, nor a gap in the sequence holds the rollup up forever.       *)
EveryShareRolledUp ==
    <>[](\A s \in Rows : Ripens(s) => \E b \in batches : s \in b.summary)

(* The promise to the payout side, see ShareLedger. *)
Ledger == INSTANCE ShareLedger WITH
    recorded <- Rows,
    credits  <- [s \in PplnsShares |->
                    Cardinality({b \in batches : s \in b.summary})]

(* The rollup implements the exactly-once ledger. *)
ImplementsLedger == Ledger!Spec
=============================================================================
