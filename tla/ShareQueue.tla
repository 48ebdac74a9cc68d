----------------------------- MODULE ShareQueue -----------------------------
(***************************************************************************)
(* The queue of accepted shares in one process: recordAcceptedShare,       *)
(* scheduleFlush, startFlush, flushBatch and flushPendingShares of         *)
(* src/src/ORM/share-accounting/share-accounting.service.ts.               *)
(*                                                                         *)
(* JavaScript runs each callback to its end, so a step is one callback:    *)
(* a call, the timer, or the answer of the database.  Between the moment   *)
(* flushBatch settles its promises and the .finally() that clears          *)
(* activeFlush no caller's continuation runs (the callback is earlier in   *)
(* the microtask queue), so the two are one step, EndFlush.                *)
(***************************************************************************)
EXTENDS Naturals, Sequences, Functions

CONSTANTS
    CallerShares, \* the shares callers record
    BatchSize,    \* SHARE_ACCOUNTING_BATCH_SIZE
    MaxQueueSize  \* SHARE_ACCOUNTING_MAX_QUEUE_SIZE

ASSUME ShareQueueAssumption ==
    /\ BatchSize \in Nat \ {0}
    /\ MaxQueueSize \in Nat \ {0}

VARIABLES
    up,         \* the process runs
    pending,    \* pendingShares
    flight,     \* the batch activeFlush inserts, <<>> if activeFlush is null
    timer,      \* flushTimer is set
    draining,   \* flushPendingShares waits
    outcome,    \* the promise of each recordAcceptedShare call
    executing,  \* the batches whose INSERT the database executes
    table       \* accepted_share_entity

queueVars == <<up, pending, flight, timer, draining, outcome, executing, table>>

QueueInit ==
    /\ up = TRUE
    /\ pending = <<>>
    /\ flight = <<>>
    /\ timer = FALSE
    /\ draining = FALSE
    /\ outcome = [s \in CallerShares |-> "new"]
    /\ executing = {}
    /\ table = {}

-----------------------------------------------------------------------------
(* Steps of the service's methods, given its state when they are called. *)

TakeLength(queue) == IF Len(queue) < BatchSize THEN Len(queue) ELSE BatchSize

(* startFlush: nothing while a flush is active; else stop the timer and      *)
(* hand the head of the queue to the database.                               *)
StartFlush(queue, active, armed) ==
    \/ /\ active # <<>>
       /\ pending' = queue
       /\ flight' = active
       /\ timer' = armed
       /\ UNCHANGED executing
    \/ /\ active = <<>>
       /\ flight' = SubSeq(queue, 1, TakeLength(queue))
       /\ pending' = SubSeq(queue, TakeLength(queue) + 1, Len(queue))
       /\ timer' = FALSE
       /\ executing' = IF queue = <<>> THEN executing
                                       ELSE executing \cup {flight'}

(* Mutant: the timer is armed whether or not a flush is active. *)
ScheduleAlways(queue, active) ==
    /\ pending' = queue
    /\ flight' = active
    /\ timer' = TRUE
    /\ UNCHANGED executing

(* scheduleFlush: arm the timer, unless it is armed or a flush is active. *)
ScheduleFlush(queue, active) ==
    /\ pending' = queue
    /\ flight' = active
    /\ timer' = (timer \/ active = <<>>)
    /\ UNCHANGED executing

Settle(answer) ==
    outcome' = [s \in CallerShares |->
                   IF s \in Range(flight) THEN answer ELSE outcome[s]]

-----------------------------------------------------------------------------
(* recordAcceptedShare with room in the queue. *)
Record(s) ==
    /\ up
    /\ outcome[s] = "new"
    /\ Len(pending) < MaxQueueSize
    /\ outcome' = [outcome EXCEPT ![s] = "waiting"]
    /\ LET queue == Append(pending, s)
       IN  \/ Len(queue) >= BatchSize /\ StartFlush(queue, flight, timer)
           \/ Len(queue) <  BatchSize /\ ScheduleFlush(queue, flight)
    /\ UNCHANGED <<up, draining, table>>

(* recordAcceptedShare throws: the queue is full. *)
Refuse(s) ==
    /\ up
    /\ outcome[s] = "new"
    /\ Len(pending) >= MaxQueueSize
    /\ outcome' = [outcome EXCEPT ![s] = "refused"]
    /\ UNCHANGED <<up, pending, flight, timer, draining, executing, table>>

(* flushIntervalMs have passed. *)
TimerFires ==
    /\ timer
    /\ StartFlush(pending, flight, FALSE)
    /\ UNCHANGED <<up, draining, outcome, table>>

(* The database commits an INSERT, also one whose client is gone ... *)
CommitInsert(batch) ==
    /\ batch \in executing
    /\ executing' = executing \ {batch}
    /\ table' = table \cup Range(batch)
    /\ UNCHANGED <<up, pending, flight, timer, draining, outcome>>

(* ... or rolls it back; one bad row fails the whole batch. *)
FailInsert(batch) ==
    /\ batch \in executing
    /\ executing' = executing \ {batch}
    /\ UNCHANGED <<up, pending, flight, timer, draining, outcome, table>>

(* Mutants: no new flush after one; only a full batch restarts the flushing. *)
NoRestart ==
    /\ flight' = <<>>
    /\ UNCHANGED <<pending, timer, executing>>

RestartIfFull ==
    \/ Len(pending) >= BatchSize /\ StartFlush(pending, <<>>, timer)
    \/ Len(pending) < BatchSize /\ NoRestart

(* The .finally() of startFlush: activeFlush is null, go on with the queue. *)
Restart ==
    \/ Len(pending) >= BatchSize /\ StartFlush(pending, <<>>, timer)
    \/ Len(pending) \in 1..(BatchSize - 1) /\ ScheduleFlush(pending, <<>>)
    \/ Len(pending) = 0 /\ NoRestart

(* Mutant: the promises are resolved without waiting for the database. *)
ResolveFlushEarly ==
    /\ flight # <<>>
    /\ Settle("resolved")
    /\ Restart
    /\ UNCHANGED <<up, draining, table>>

(* flushBatch: the insert succeeded, every promise of the batch resolves. *)
ResolveFlush ==
    /\ flight # <<>>
    /\ Range(flight) \subseteq table
    /\ Settle("resolved")
    /\ Restart
    /\ UNCHANGED <<up, draining, table>>

(* flushBatch: the insert failed, or the connection was lost and nobody      *)
(* knows what the database does with it; every promise of the batch rejects. *)
RejectFlush ==
    /\ flight # <<>>
    /\ Settle("rejected")
    /\ Restart
    /\ UNCHANGED <<up, draining, table>>

(* onModuleDestroy calls flushPendingShares, which flushes while there is    *)
(* anything left and waits for each flush ...                                *)
Drain ==
    /\ up
    /\ ~draining
    /\ draining' = TRUE
    /\ UNCHANGED <<up, pending, flight, timer, outcome, executing, table>>

DrainFlush ==
    /\ draining
    /\ flight = <<>>
    /\ pending # <<>>
    /\ StartFlush(pending, flight, timer)
    /\ UNCHANGED <<up, draining, outcome, table>>

(* ... and returns when there is not. *)
DrainReturns ==
    /\ draining
    /\ flight = <<>>
    /\ pending = <<>>
    /\ draining' = FALSE
    /\ UNCHANGED <<up, pending, flight, timer, outcome, executing, table>>

(* process.exit(0) on SIGINT or SIGTERM: no flush, the callers never return, *)
(* the database finishes what it executes.                                   *)
Exit ==
    /\ up
    /\ up' = FALSE
    /\ pending' = <<>>
    /\ flight' = <<>>
    /\ timer' = FALSE
    /\ draining' = FALSE
    /\ outcome' = [s \in CallerShares |->
                      IF outcome[s] \in {"new", "waiting"} THEN "lost"
                                                           ELSE outcome[s]]
    /\ UNCHANGED <<executing, table>>

EndFlush == ResolveFlush \/ RejectFlush

EndInsert == \E batch \in executing : CommitInsert(batch) \/ FailInsert(batch)

DrainStep == DrainFlush \/ DrainReturns

QueueNext ==
    \/ \E s \in CallerShares : Record(s) \/ Refuse(s)
    \/ TimerFires
    \/ EndInsert
    \/ EndFlush
    \/ Drain
    \/ DrainStep
    \/ Exit

(* The timer fires, the database answers, awaits are resumed. *)
QueueFairness ==
    /\ WF_queueVars(TimerFires)
    /\ WF_queueVars(EndFlush)
    /\ WF_queueVars(DrainStep)

QueueSpec == QueueInit /\ [][QueueNext]_queueVars
QueueFairSpec == QueueSpec /\ QueueFairness

-----------------------------------------------------------------------------
Outcomes == {"new", "refused", "waiting", "resolved", "rejected", "lost"}

(* Types of the variables, and the length the queue may have. *)
QueueTypeOK ==
    /\ {up, timer, draining} \subseteq BOOLEAN
    /\ pending \in Seq(CallerShares) /\ Len(pending) <= MaxQueueSize
    /\ flight \in Seq(CallerShares) /\ Len(flight) <= BatchSize
    /\ outcome \in [CallerShares -> Outcomes]
    /\ executing \subseteq Seq(CallerShares)
    /\ table \subseteq CallerShares

(* The queue never stalls and never flushes twice at a time: the timer is    *)
(* armed exactly when shares wait and no flush is active, so scheduleFlush   *)
(* may ignore calls during a flush because .finally() makes up for them.     *)
TimerArmedWhenNeeded == timer <=> (pending # <<>> /\ flight = <<>>)

(* No caller is forgotten and no share is inserted twice: a caller waits iff *)
(* its share is queued or in flight, in one place only.                      *)
WaitingIsQueued ==
    LET line == flight \o pending
    IN  /\ Range(line) = {s \in CallerShares : outcome[s] = "waiting"}
        /\ \A i, j \in DOMAIN line : line[i] = line[j] => i = j

(* Every call of recordAcceptedShare returns, however the flushes end.       *)
EveryCallReturns ==
    \A s \in CallerShares : outcome[s] = "waiting" ~> outcome[s] # "waiting"

(* flushPendingShares ends once callers stop recording.                      *)
DrainEnds == draining ~> ~draining

(* The promise to the callers, see ShareJournal. *)
Journal == INSTANCE ShareJournal WITH
    Shares <- CallerShares,
    line <- flight \o pending,
    durable <- table

(* The queue implements the journal: answers in order, all of a batch alike, *)
(* and success only for shares in the database.                              *)
ImplementsJournal == Journal!Spec

(* The queue in one: its parts have their types, a timer is armed exactly    *)
(* when someone needs it, and whoever waits has one share in line.           *)
QueueInv == QueueTypeOK /\ TimerArmedWhenNeeded /\ WaitingIsQueued

(* Whoever calls the queue gets an answer, a recorder or a drain.            *)
CallsEnd == EveryCallReturns /\ DrainEnds
=============================================================================
