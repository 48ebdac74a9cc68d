------------------------------- MODULE FoundBlocks -------------------------------
(***************************************************************************)
(* The record of found blocks (blocks.service.ts) under the handlers that   *)
(* write to it: mining sessions, declared jobs, distributed templates and   *)
(* DATUM gateways all end a found block with the same steps - submit it,    *)
(* save it, finalize its snapshot - and several of them may report the same *)
(* block, or rival blocks of one height.                                    *)
(*                                                                         *)
(* The blocks here are rivals of one height, each with a payout snapshot of *)
(* its own.  The pool submits its own blocks.  A DATUM gateway submits what *)
(* it found itself and only reports it; it may also claim a block that is   *)
(* none.  Rows are kept in the order of their creation.                     *)
(***************************************************************************)
EXTENDS Integers, Sequences, FiniteSets, SequencesExt

CONSTANTS
    PoolBlocks,     \* blocks the pool submits
    GatewayBlocks,  \* candidates that DATUM gateways report
    Claims,         \* shares that gateways call blocks and that are none
    None,           \* no block, no snapshot
    MaxReports      \* bound: handlers that report

ASSUME FoundBlocksAssumption ==
    /\ PoolBlocks \cap GatewayBlocks = {} /\ PoolBlocks \cap Claims = {}
    /\ GatewayBlocks \cap Claims = {}
    /\ None \notin PoolBlocks \cup GatewayBlocks \cup Claims
    /\ MaxReports \in Nat

Blocks == PoolBlocks \cup GatewayBlocks \cup Claims
Modes == {"solo", "pplns"}

VARIABLES
    taken,     \* the block the node took at this height
    rows,      \* blocks_entity
    tasks,     \* handlers that report, each before its next step
    history,   \* payout_history of the height: block and snapshot
    booked,    \* the blocks written to the balances, in order
    reports,   \* counter for the bound
    trouble    \* an answer, an insert or a handler was lost

blocksVars == <<taken, rows, tasks, history, booked, reports, trouble>>

BlocksInit ==
    /\ taken = None
    /\ rows = <<>>
    /\ tasks = <<>>
    /\ history = [block |-> None, snapshot |-> None]
    /\ booked = <<>>
    /\ reports = 0
    /\ trouble = FALSE

Of(i) == tasks[i]
Done(i) == tasks' = RemoveAt(tasks, i)
GoesOn(i, task) == tasks' = [tasks EXCEPT ![i] = task]

RowsOf(b) == {r \in DOMAIN rows : rows[r].block = b}

(* A null result counts as success, here as in the payout books.             *)
Successful(result) == result \in {"success", "null"}

(* TDP reports in the name of the pool.                                      *)
Internal(by) == by = "tdp"

-----------------------------------------------------------------------------
(* A handler finds a block. *)

Task(at, b, by, mode, result) ==
    [at |-> at, block |-> b, by |-> by, mode |-> mode, result |-> result,
     snapshot |-> IF mode = "pplns" THEN b ELSE None, seen |-> 0,
     seenInternal |-> FALSE]

(* A session, a declared job or a template's client found a block.           *)
Find ==
    /\ reports < MaxReports /\ reports' = reports + 1
    /\ \E b \in PoolBlocks, by \in {"miner", "tdp"}, mode \in Modes :
          tasks' = Append(tasks, Task("submit", b, by, mode, "none"))
    /\ UNCHANGED <<taken, rows, history, booked, trouble>>

(* A gateway reports a block candidate, with a text for its result, or       *)
(* claims a block, with none.                                                *)
GatewayReports ==
    /\ reports < MaxReports /\ reports' = reports + 1
    /\ \E b \in GatewayBlocks \cup Claims, mode \in Modes :
          tasks' = Append(tasks, Task("look", b, "miner", mode,
                                      IF b \in GatewayBlocks THEN "expected" ELSE "null"))
    /\ UNCHANGED <<taken, rows, history, booked, trouble>>

(* The gateway submits its candidate to a node of its own.                   *)
GatewaySubmits ==
    /\ taken = None
    /\ \E b \in GatewayBlocks : taken' = b
    /\ UNCHANGED <<rows, tasks, history, booked, reports, trouble>>

(* SUBMIT_BLOCK: the node takes the first block; a rival or the same block   *)
(* again gets an error text, and so does a lost answer.                      *)
SubmitBlock(i) ==
    /\ Of(i).at = "submit"
    /\ \/ /\ taken = None
          /\ taken' = Of(i).block
          /\ \E lost \in BOOLEAN :
                /\ GoesOn(i, [Of(i) EXCEPT !.at = "look",
                                           !.result = IF lost THEN "rejected" ELSE "success"])
                /\ trouble' = (trouble \/ lost)
       \/ /\ taken # None
          /\ GoesOn(i, [Of(i) EXCEPT !.at = "look", !.result = "rejected"])
          /\ UNCHANGED <<taken, trouble>>
    /\ UNCHANGED <<rows, history, booked, reports>>

-----------------------------------------------------------------------------
(* save *)

(* The row of the block, as findOne sees it.                                 *)
Look(i) ==
    /\ Of(i).at = "look"
    /\ \E r \in IF RowsOf(Of(i).block) = {} THEN {0} ELSE RowsOf(Of(i).block) :
          GoesOn(i, [Of(i) EXCEPT !.at = "write", !.seen = r,
                        !.seenInternal = r # 0 /\ Internal(rows[r].by)])
    /\ UNCHANGED <<taken, rows, history, booked, reports, trouble>>

(* shouldReplaceAttribution, of the row as it was seen.                      *)
Replaces(task) == ~Internal(task.by) /\ task.seenInternal

(* Mutant: whatever reports last is the finder. *)
UpdateAttributed(row, task) ==
    [row EXCEPT !.result = IF Successful(task.result) THEN "success" ELSE @,
                !.snapshot = IF Successful(task.result) THEN task.snapshot ELSE @,
                !.by = task.by,
                !.mode = task.mode]

(* Mutant: the last result counts. *)
UpdateLastResult(row, task) ==
    [row EXCEPT !.result = task.result,
                !.snapshot = IF Successful(task.result) THEN task.snapshot ELSE @,
                !.by = IF Replaces(task) THEN task.by ELSE @,
                !.mode = task.mode]

(* Success raises the result and sets the snapshot, failure leaves both; the *)
(* mode is that of whoever comes last.                                       *)
Updated(row, task) ==
    [row EXCEPT !.result = IF Successful(task.result) THEN "success" ELSE @,
                !.snapshot = IF Successful(task.result) THEN task.snapshot ELSE @,
                !.by = IF Replaces(task) THEN task.by ELSE @,
                !.mode = task.mode]

(* The update or the insert.  The unique index on the hash refuses a second  *)
(* row, which ends the handler: what it should have finalized is not.        *)
Write(i) ==
    /\ Of(i).at = "write"
    /\ LET task == Of(i) IN
       \/ /\ task.seen # 0
          /\ rows' = [rows EXCEPT ![task.seen] = Updated(@, task)]
          /\ GoesOn(i, [task EXCEPT !.at = "finalize"])
          /\ UNCHANGED trouble
       \/ /\ task.seen = 0 /\ RowsOf(task.block) = {}
          /\ rows' = Append(rows, [block |-> task.block, result |-> task.result,
                                   snapshot |-> task.snapshot, by |-> task.by,
                                   mode |-> task.mode])
          /\ GoesOn(i, [task EXCEPT !.at = "finalize"])
          /\ UNCHANGED trouble
       \/ /\ task.seen = 0 /\ RowsOf(task.block) # {}
          /\ trouble' = TRUE
          /\ Done(i)
          /\ UNCHANGED rows
    /\ UNCHANGED <<taken, history, booked, reports>>

-----------------------------------------------------------------------------
(* Mutant: a block that was refused is finalized as well. *)
FinalizesAny(task) == task.mode = "pplns" /\ history.block = None

(* finalizeSnapshotForBlock looks for a history of the height, of a PPLNS    *)
(* block that counts as successful.                                          *)
Finalizes(task) ==
    task.mode = "pplns" /\ Successful(task.result) /\ history.block = None

Check(i) ==
    /\ Of(i).at = "finalize"
    /\ IF Finalizes(Of(i)) THEN GoesOn(i, [Of(i) EXCEPT !.at = "book"]) ELSE Done(i)
    /\ UNCHANGED <<taken, rows, history, booked, reports, trouble>>

(* The balances are written, and added to the totals, whatever the insert of *)
(* the history finds.                                                        *)
Book(i) ==
    /\ Of(i).at = "book"
    /\ booked' = Append(booked, Of(i).block)
    /\ history' = IF history.block # None THEN history
                  ELSE [block |-> Of(i).block, snapshot |-> Of(i).snapshot]
    /\ Done(i)
    /\ UNCHANGED <<taken, rows, reports, trouble>>

(* The database fails, the connection's handler throws, or the process ends. *)
Fails(i) ==
    /\ trouble' = TRUE
    /\ Done(i)
    /\ UNCHANGED <<taken, rows, history, booked, reports>>

BlocksNext ==
    \/ Find
    \/ GatewayReports
    \/ GatewaySubmits
    \/ \E i \in DOMAIN tasks :
          \/ SubmitBlock(i)
          \/ Look(i)
          \/ Write(i)
          \/ Check(i)
          \/ Book(i)
          \/ Fails(i)

BlocksSpec == BlocksInit /\ [][BlocksNext]_blocksVars

-----------------------------------------------------------------------------
(* getFoundBlocks: the rows with a result the public may see, the last       *)
(* created first, one of a height.                                           *)

Public == {r \in DOMAIN rows : Successful(rows[r].result) \/ rows[r].result = "expected"}

Listed == {rows[r].block : r \in {r \in Public : \A q \in Public : q <= r}}

-----------------------------------------------------------------------------
(* Types; no block has two rows.                                             *)
BlocksTypeOK ==
    /\ taken \in PoolBlocks \cup GatewayBlocks \cup {None}
    /\ \A r \in DOMAIN rows :
          /\ rows[r].result \in {"success", "null", "rejected", "expected"}
          /\ rows[r].mode \in Modes
          /\ RowsOf(rows[r].block) = {r}
    /\ history.block \in Blocks \cup {None}
    /\ reports \in 0..MaxReports

(* Once a row says the block was taken it says so for good, whatever answers *)
(* other handlers get for the block, and a miner's name on it never gives    *)
(* way to the pool's, however stale the row a handler decides on.            *)
RowsOnlyGain ==
    [][\A r \in DOMAIN rows :
          /\ Successful(rows[r].result) => Successful(rows'[r].result)
          /\ Internal(rows'[r].by) => Internal(rows[r].by)]_blocksVars

(* The books of the height name a block that has a row the public sees, with *)
(* the snapshot the books hold unless a gateway claimed the block.           *)
FinalizedIsRecorded ==
    history.block # None =>
        \E r \in Public :
            /\ rows[r].block = history.block
            /\ history.block \notin Claims => rows[r].snapshot = history.snapshot

(* Only the block the node took gets to the balances of its height, and      *)
(* once, unless a gateway claimed one that is none: two handlers may both    *)
(* find no history.                                                          *)
BooksOfTaken ==
    LET real == {k \in DOMAIN booked : booked[k] \notin Claims}
    IN  /\ \A k \in real : booked[k] = taken
        /\ Cardinality(real) <= 1

(* The block the pool lists for the height is the one the node took, unless  *)
(* it came from a gateway.                                                   *)
ListedIsTaken == Listed \cap PoolBlocks \subseteq {taken}

(* When every handler is done and nothing was lost, a block of the pool the  *)
(* node took is listed with success, and in the books if a PPLNS connection  *)
(* got the node's word for it and no claim came before.                      *)
TakenIsRecorded ==
    tasks = <<>> /\ ~trouble /\ taken \in PoolBlocks =>
        \E r \in RowsOf(taken) :
            /\ rows[r].result = "success"
            /\ rows[r].snapshot # None => history.block \in {taken} \cup Claims

(* The books hold the block the node took, and it has its row.               *)
BooksInv == BooksOfTaken /\ FinalizedIsRecorded

(* The list shows the block the node took, and shows it in the end.          *)
ListInv == BlocksTypeOK /\ ListedIsTaken /\ TakenIsRecorded
=============================================================================
