# Public-pool in TLA+

Public-pool is a Bitcoin mining pool. Its processes share a node, a Postgres/Timescale
database and a Redis: one *master* (`MASTER=true`: node, block templates, payout snapshots,
share rollup), N *Stratum workers* and N *API* processes (`ecosystem.config.js`). This
directory specifies the parts of it that money and work depend on. Paths below are relative
to the repository unless they start with `src/src/`.

- [1 The system](#1-the-system)
- [2 The modules](#2-the-modules)
- [3 What the runs check](#3-what-the-runs-check)
- [4 What is proved](#4-what-is-proved)
- [5 Known disagreements](#5-known-disagreements)
- [6 What is not modelled](#6-what-is-not-modelled)
- [7 Plan](#7-plan)
- [8 Running it](#8-running-it)

## 1 The system

```
 miners ── Stratum V1 / V2 / DATUM / JDP / TDP sessions (workers)
             │ recordAcceptedShare          │ SUBMIT_BLOCK       ▲ new work
             ▼                              ▼                    │
        share queue ──INSERT──▶ accepted_share_entity         job streams
                                      │ rollup (master)          ▲ Redis: keys, channel
                                      ▼                          │ or rpc_block
                               share_rollup_batch           template broadcast (master)
                                      │ PPLNS window             │ getblocktemplate, ZMQ
                                      ▼                          ▼
                               payout_snapshot ◀──createSnapshotForTemplate
                                      │ finalizeSnapshotForBlock
                                      ▼
                        payout_balance, payout_history
```

The components, what they keep and do, what is hard about them, and what makes them right:

| Component (source) | State | Operations | What is hard | Correct when |
|---|---|---|---|---|
| **Share queue** (`share-accounting.service.ts`) | `pendingShares`, `activeFlush`, `flushTimer`, one promise per call | `recordAcceptedShare`, `scheduleFlush`, `startFlush`, `flushBatch`, `flushPendingShares` | one flush at a time, `.finally()` that must restart it, a full queue, a whole batch failing, an answer lost after the commit, `process.exit` without a flush | every call is answered once, in order; success means the row is in the database; nothing waits for ever |
| **Share rollup** (same file) | `accepted_share_entity` with its sequence, `share_rollup_batch` and summary, advisory lock | `processPendingShareRollupBatch` | rows commit out of index order; three statements under READ COMMITTED; two masters; aborts; a watermark that never looks back | every PPLNS share is in exactly one batch, and a batch's totals are those of its rows |
| **Payout distribution** (`payout-distribution.ts`) | none | `buildPayoutDistribution`, `limitCoinbaseOutputs` | rounding, trimming by weight and count, advances and debts over many blocks, the fee's own output | sats are neither created nor lost; shares are proportional; limits hold |
| **Payout books** (`payout-snapshot.service.ts`) | `payout_snapshot` and entries, `payout_balance`, `payout_history` | `createSnapshotForTemplate`, `finalizeSnapshotForBlock` | balances read when a template is made are written back when its block is found; two refreshes; several finders; lost `submitblock` answers; crashes between submit and finalize | the books hold what the chain's blocks paid and left owed |
| **Template distribution** (`bitcoin-rpc.service.ts`, `redis-messaging.service.ts`, `rpc-block.service.ts`) | `miningInfo`, `rpc_block`, Redis keys, channel `mining-info.updated` | ZMQ loop, 60 s interval, store, publish, load on a message, replay at boot | two refreshes across a block; Redis or a message lost; the database as a second source; a null mining info | workers work on the latest template of the latest block |
| **Stratum V1 jobs** (`stratum-v1-jobs.service.ts`, `MiningJob.ts`) | templates, jobs, `lastBlockHeight` | the job stream; ageing after 5 minutes | height and template come from different moments | the templates offered build on the same block |
| **Stratum V1 session** (`StratumV1Client.ts`, `MiningJob.ts`) | subscription, authorization, difficulty, payout identity, jobs, recent submissions, client rows | subscribe, authorize, configure, suggest_difficulty, set_payout, submit, retarget, job delivery, destroy | overlapping async handlers of one socket; session state read after awaits; the answer sent before the share is recorded; destroy() beside a row's insert | a share is credited once; what was accepted is recorded; work, identity and difficulty are the current ones; no row outlives its connection |
| **Stratum servers** (`stratum-v1.service.ts`, `stratum-v2.service.ts`) | listeners, sockets with their limits, the backpressure monitor, Noise authority and certificate | accept, detect the protocol, time out, clean up, pause, resume, initialize | a socket that closes during any await; ports paused while others start; initializations that overlap at their await | clients are told to go once; ports pause and resume together, and do resume; the certificate is of the key given out |
| **Stratum V2 session** (`StratumV2Client.ts`) | channels with their jobs, targets and remembered submissions; client row | open and close a channel, custom job, update, submit, new template, retarget | loops over the channels with an await per frame overtake each other; future jobs activated by a later message; retired jobs | a share is credited once; every channel ends on the tip at a difficulty it was told; stale work is refused; nothing is left of an ended session |
| **Extranonce manager** (`sv2-extranonce-manager.ts`) | allocated prefixes | allocate, release | exhaustion, wrap-around | open channels never share a prefix, a closed one holds none |
| **Job declaration** (`sv2-job-declaration*.ts`) | tokens and declared jobs with a lifetime; pending declarations; pushed solutions | allocate a token, declare, provide missing transactions, push a solution, custom job | expiry between two messages; a declaration replaced while its transactions are checked | a token is used in time; a block is made of the job the client means and finalized with what it pays |
| **Template distribution protocol** (`sv2-template-distribution.service.ts`) | served templates, submitted solutions | serve, request data, submit solution | a solution for a template that has aged out, or sent twice | a solution is submitted once |
| **Template provider** (`template-provider.service.ts`, `custom-work.service.ts`) | recent templates | validate declared and gateway work | stale template accepted | work is paid only if the node would take it |
| **DATUM gateway** (`datum.service.ts`, `datum-codec.ts`, `datum-crypto.ts`) | session keys and nonces, coinbaser contexts, job caches, client row | hello, fetch the coinbaser, validate a job, submit work | pieces handled by overlapping handlers share the keys' state; ids wrap; a job id is used again while its validation is under way | frames are read in step; an accepted share is recorded; blocks are finalized with what they pay; a verdict is about its own job |
| **Found blocks** (`blocks.service.ts`) | `blocks_entity` | find, then insert or update; list | reports of one block by several handlers, rivals, refusals, lost answers | one row per block, which only gains; list and books name the block the node took |
| **Client presence** (`client*.service.ts`, `app.service.ts`) | client rows, statistics | insert, heartbeat, clean-up | created or revived after it was deleted | no row without a connection |
| **High scores** (`share-high-score.service.ts`) | best-share queue | enqueue, flush, ratchet | lost update | never decreases |
| **Share retention** (two migrations) | chunk and batch ages | drop, prune | a foreign key without cascade; rollup behind retention | nothing unpaid is dropped |
| **Summaries and HTTP API** | cache with a lifetime | read | staleness | read-only |
| **Notifications, wire formats, bootstrap** | – | – | – | see section 6 |

`PROJECT.json` lists the hazards of this code at their lines, with the properties that cover each or
a note that says why none does; where the code itself does not hold what one would want, section 5
says so.

## 2 The modules

| Module | Models | Detail |
|---|---|---|
| `ShareQueue` | the share queue of one process | a step is one callback of the event loop |
| `ShareJournal` | what the queue promises its callers | abstract; `ShareQueue` implements it |
| `ShareRollup` | shares of several workers until they are in a batch | a step is one statement of a transaction |
| `ShareLedger` | what the rollup promises the payout side | abstract; `ShareRollup` implements it |
| `PayoutBooks` | the table of balances | variables of the next three |
| `PayoutDistribution` | the split of one coinbase | operators only |
| `PayoutRounds` | snapshot after snapshot, carrying the balances | sequential; runs `PayoutDistribution` |
| `PayoutLedger` | snapshots, blocks and finalizations interleaved | the split is an input that satisfies the books |
| `FoundBlocks` | the record of found blocks under reports from all protocols | a step is one query |
| `TemplateBroadcast` | templates from the node to the workers | a step is one await of master or worker |
| `StratumServers` | listeners, connections, backpressure, Noise configuration | a step is one callback |
| `StratumV1Session` | the V1 sessions of a worker | a step is one run of a handler between two awaits |
| `StratumV2Session` | the V2 mining sessions with the prefix allocator | same |
| `DatumSession` | a gateway's session, framing included | same |
| `DeclaredWork` | job declaration, template distribution, tokens, recent templates | same |
| `RecordProofs`, `PayoutProofs`, `WorkerProofs`, `DeclaredWorkProofs`, `StratumV1SessionProofs`, `StratumV2SessionProofs`, `StratumV2WorkProofs`, `DatumSessionProofs` | proofs | EXTEND their modules and TLAPS; the first three more than one module each, which is why `ShareQueue`, `FoundBlocks`, `PayoutRounds` and `TemplateBroadcast` have names of their own for `Init`, `Next` and `Spec`; `StratumV2WorkProofs` goes on from `StratumV2SessionProofs` |
| `MC…` | instances for TLC | constants, symmetry |

*How the modules meet.* A module stops where another one begins, at a call or a table, and takes for
any choice what the other side may do there.

- `StratumServers` hands a socket to a client, `StratumV1Session` and `StratumV2Session` begin with
  one and end in `destroy()`.
- `TemplateBroadcast`'s `worker[w].current` is what `EmitTemplate` (V1, V2) and `NewTemplate` (DATUM,
  declared work) emit. As a template of one block may be stored under the height of another (6 of
  section 5), V1 and V2 take the block a template builds on and its `clearJobs`, which follows the
  mining info (`stratum-v1-jobs.service.ts:56`), for any two; DATUM and declared work ask for no
  `clearJobs`, and take a template's height to be the present one or the next. The sessions assume
  nothing of the order that `WorkersInv` does not show.
- A session's `recorded` is `ShareQueue`'s `Record`, its failure `Refuse` or a rejected batch.
  `ShareQueue`'s `table` is the row set `ShareRollup` begins with (there an INSERT is `BeginFlush`,
  `AssignIndex`, `CommitFlush`, for any choice of rows). `ShareRollup`'s batches are `PayoutLedger`'s
  `windowEnd` and the `work` of `PayoutRounds`.
- `submitted`, `finalized` of the sessions are calls that `FoundBlocks` takes one by one (`Find`,
  `SubmitBlock`, `Look`, `Write`, `Check`, `Book`) and `PayoutLedger` for a chain of blocks
  (`SubmitBlock`, `Finalize`). What the sessions show, that a block is finalized with the snapshot of
  the template it was worked on and after the node was asked, is what these two begin with.
- What `PayoutRounds` shows of one split (`BooksBalance`: balance = earned − paid) is what
  `PayoutLedger` takes of `Payments`, which says only what each address earned and was paid.
- `StratumV2Session` takes custom jobs as they come; `DeclaredWork` says which tokens and jobs the
  registry allows them to use.

### ShareQueue, ShareJournal

| TLA+ | `share-accounting.service.ts` |
|---|---|
| `pending`, `flight`, `timer` | `pendingShares`, the batch of `activeFlush`, `flushTimer` |
| `outcome` | the promise each call of `recordAcceptedShare` returned |
| `executing`, `table` | what the database is doing and has done; an INSERT goes on when its client is gone |
| `Record`, `Refuse` | `recordAcceptedShare` with and without room, `scheduleFlush` or `startFlush` included |
| `TimerFires`, `StartFlush` | the timer's callback; `startFlush` |
| `ResolveFlush`, `RejectFlush` with `Restart` | the end of `flushBatch` with the `.finally()` of `startFlush` |
| `Drain`, `DrainFlush`, `DrainReturns` | `onModuleDestroy`, `flushPendingShares` |
| `Exit` | `process.exit` in `main.ts` |

JavaScript runs a callback to its end, so nothing comes between the settling of a batch's promises
and the `.finally()` that is already in the microtask queue ahead of any caller: the two are one
action. `ShareJournal` forgets batches and timers: calls stand in line, the first n are answered
alike, success only for durable shares; `line <- flight \o pending` is the mapping.

### ShareRollup, ShareLedger

| TLA+ | code |
|---|---|
| `phase`, `acceptedAt`, `shareIndex` | a share in the queue, in an INSERT, in the table; its columns |
| `nextIndex` | `accepted_share_index_seq`, drawn row by row *before* the commit |
| `lock`, `tx` | `pg_try_advisory_xact_lock`; each process's transaction |
| `BeginRollup` … `CommitRollup` | the statements of `processPendingShareRollupBatch`, each seeing what has committed by then |
| `StableRows`, `BoundedRows` | the CTEs `first_unstable`, `stable_bound`, `bounded` |
| `Tick`, `born` | time; `born` is the real time of acceptance, unlike the worker's own stamp |

`ShareLedger` says it in two actions: shares are recorded; recorded shares never credited before
are credited once. `recorded <- Rows` and `credits` = the number of batches whose summary counts
the share.

### PayoutBooks, PayoutDistribution, PayoutRounds, PayoutLedger

`PayoutBooks` declares `balance` and `totalPaid`, the `payout_balance` table that both of the
following change.

`PayoutDistribution` translates `allocateIntegerSats`, `allocatePayoutTargets`, the choice of
outputs, `redistributeUnfitMinerPayouts`, `mergeFeeEntry` and `limitCoinbaseOutputs` over a row per
address (work, gross, before, target, paid, after, included). `PayoutRounds` applies them in the
code's order, one action each, and carries `after` to the next block's `before`. Amounts and work
are integers; the code works with floating-point numbers, whose rounding is not modelled.

`PayoutLedger` is the concurrent side. `chain` holds for each block the snapshot its coinbase pays;
the two `refresh`es read balances (`ReadBalances`) and store a snapshot (`StoreSnapshot`) in two
steps, with anything between; `SubmitBlock` and `Finalize` are steps of a `handler`, and a handler
may fail between them. `owed` is auxiliary: what the chain's blocks really left owed.

### TemplateBroadcast

| TLA+ | code |
|---|---|
| `info`, `task` | the master's `miningInfo`; `getAndBroadcastLatestTemplate` in the ZMQ loop and in the interval |
| `saved`, `redis` | `rpc_block`; Redis' mining info, templates by height, latest template |
| `channel` | messages of `mining-info.updated` not delivered yet |
| `worker` | a worker: its mining info, its loads (answered in order by Redis, in any order by the database), `lastBlockHeight`, its templates, the one emitted last |
| `missed` | auxiliary: the last message published did not reach the worker |
| `HearBlock`, `StartRefresh`, `FetchTemplate`, `SaveTemplate`, `StoreInfo`, `StoreTemplate`, `Publish` | one await each |
| `StartWorker`, `Subscribe`, `Deliver`, `RedisAnswers`, `UseAnswer`, `DatabaseAnswers` | one await or callback each |
| `CrashMaster`, `Die` | a null mining info is a TypeError nobody catches; pm2 starts the process again |

A template is known by the height of the block it builds on.

### The sessions

JavaScript hands control to another handler at an `await` only. In the four modules below a step is
what a handler does between two awaits. What is left of the handler is a record in `tasks` (V2:
`writes` and `calls`) that names the place it goes on at and what it carries over; all else is read
again when it goes on, as the code does. An await of a write ends when the socket takes the bytes,
in the order of the writes, or fails when the socket is destroyed; an await of the database or the
node ends at any time, or fails where the code has a path for it.

#### StratumV1Session

| TLA+ | code |
|---|---|
| `sess[c]` | a `StratumV1Client` with what its socket has been sent (`told`, `sent`, `work`) |
| `Registry` | `StratumV1JobsService.jobs`, of all sessions: `getJobById` finds any of them |
| `heights`, `blocks` | templates emitted; `StratumV1JobsService.blocks` |
| `live` | client rows, the connection's own and one per payout identity |
| `Subscribe`, `Authorize`, `Suggest`, `SetPayout`, `Submit`, `BadLine`, … | the cases of `handleMessage`; `AnswerOnly` is what changes nothing more |
| `InitStratum`, `EndInit` | `initStratum`, once subscribed and authorized |
| `EmitTemplate`, `OnTemplate`, `SendJobs`, `MakeJobs` | `newMiningJob$`, with or without `clearJobs`, and `sendNewMiningJob` |
| `waits`, `WakeJobs` | the `sendNewMiningJob`s that await the own row; they go on together, in order, when it is there |
| `Submission`, `EndReply`, `SubmitBlock`, `SaveBlock`, `EndBooks`, `Record` | `handleMiningSubmission`, await by await |
| `EnsureRow`, `InsertRow`, `FailRow` | `ensureClientEntity` and the insert, which ends well or not |
| `Presence`, `beats`, `Heartbeat` | `ensurePayoutPresence`: an insert, or a heartbeat that waits for the insert under way and then runs whatever became of the session |
| `TouchRow` | `persistClientHashRate` after a share |
| `CheckDifficulty` | `checkDifficulty` of the retarget timer, with any difficulty it may compute |
| `LoseSocket`, `OnClose`, `Destroyed`, `EndDestroy` | the socket's events and `destroy()` |

#### StratumV2Session

| TLA+ | code |
|---|---|
| `sess[c].chans` | `channels`: type, target, jobs held (future, active, retired, custom), hashes remembered, what was told |
| `allocated`, `nextPrefix` | `Sv2ExtranonceManager` |
| `infos`, `LastBlock`, `clears`, `OfBlock` | `miningInfo.blocks` at each template, `lastBlockHeight`, and the templates that had `clearJobs`; `OfBlock(t)`: t came with the last of them or since |
| `heights`, `OnTip`, `Misfiled`, `Stale` | the block each template really builds on, any of `Heights`; whether it is the latest template's; whether templates of two blocks came since the last `clearJobs`; whether work on it is stale |
| `Handshake`, `Setup`, `OpenStandard`, `OpenExtended`, `OpenTooLarge`, `OpenExhausted`, `CloseChannel`, `UpdateChannel`, `SetCustomJob`, `Submit`, `Refuse` | the message handlers |
| `EmitTemplate`, `OnTemplate`, `SendFrom`, `SendJob`, `NewBlock`, `Activated` | the template subscriber: a job, then its activation, channel after channel |
| `SetTargets`, `CheckDifficulty` | the difficulty timer |
| `WriteEnds`, `WriteFails`, `Finished` | a frame is written, or its socket is gone; rejections nobody handles set `crashed` |
| `SubmitBlock`, `SaveBlock`, `Record`, `CallFails` | the tail of an accepted share |

What follows a write to a socket that is gone does not wait (`Unwritten`), so `Next` lets it happen
before anything else. `prev` is the template whose previous hash the miner has on a channel, `works`
the one it works on. `sess[c].overtaken` marks the one case in which two loops may pass each other:
a channel that is closed while both go through the channels. `early` and `missed` mark a block that
came between the first channel and the subscription, and its previous hash that was not replayed;
`racing` a session destroyed while something of it was under way.

#### DatumSession

| TLA+ | code |
|---|---|
| `wire` | the header key and the nonces: frames read and frames opened |
| `Hello` | `handleFrame` with `HANDSHAKE_INIT`: `openHandshake`, the response, `sendDatumClientConfigure` |
| `Piece`, `Frame`, `Key` | the `'data'` listener of `handleSocket`: `DatumFrameReader.feed`, then `decryptChannelPayload` and `handleFrame` for each frame; `currentReceiveHeaderKey`. A piece may hold a frame more |
| `contexts`, `nextId`, `FetchCoinbaser`, `NextId` | `coinbaserPayoutContexts`, `handleCoinbaserFetch`, `nextDatumCoinbaserId` |
| `caches`, `jobs`, `CacheFor`, `Continue`, `AnswerValidation` | `datumJobs`: `updateDatumJobCache`, `maybeRequestDatumJobValidation`, `handleJobValidationResponse` |
| `Judge`, `PaidContext` | `validateDatumCoinbasePayoutContext` and the other checks of `handlePowSubmit` |
| `SubmitPow`, `Accept`, `SaveBlock`, `Finalize`, `Record`, `TouchRow` | `handlePowSubmit`, await by await, with `sendShareResponse`, `updateAcceptedSharePresence` and `persistClientHashRate` |
| `InsertRow`, `DeleteRow`, `OnClose`, `LoseSocket` | the client row: `ensureClientEntity`, `destroyClient` |

#### DeclaredWork

| TLA+ | code |
|---|---|
| `storedAt`, `Templates`, `LatestTemplate` | `TemplateProviderService`: the recent templates by age |
| `config`, `Outputs`, `Payable` | the payout mode, the pool's address, and which templates come without payout outputs (`bare`); `buildPoolCoinbaseOutputs` and `getPayoutInformation` then fall back to the address |
| `tokens`, `jobs`, `Alive`, `Declares` | `Sv2JobDeclarationRegistryService` |
| `AllocateToken`, `DeclareMiningJob`, `ProvideTransactions` (`Right`, `Wrong`, `Unasked`), `Provided`, `ProvidedInVain`, `PushSolution` | the JDP handlers, with the check against the mempool between |
| `SubscribeTemplates`, `NewTemplate`, `TellTemplate`, `RequestTransactionData`, `SubmitSolution` | the TDP handlers |
| `SetCustomMiningJob` | the use of a declared job by a mining connection |
| `NodeAnswers`, `SaveBlock`, `Finalize`, `DatabaseFails` | the tail of a solution, JDP and TDP |

### FoundBlocks

`Look` and `Write` are `BlocksService.save`'s find and its insert or update under the unique hash;
the update is decided on the row that was looked at. `Check` and `Book` are the two statements of
`finalizeSnapshotForBlock` (is there a history row; insert it and write the balances), `booked` the
sequence of what was written. `Public` and `Listed` are `getFoundBlocks`. A report is by a miner or
by TDP in the pool's name, in either payout mode, and comes with an answer of the node, a lost
answer, or the text a gateway gave.

### StratumServers

| TLA+ | code |
|---|---|
| `server`, `paused`, `PauseAccepting`, `Resumes` | the listeners of `StratumV1Service`; `pauseAccepting`, `resumeAccepting` |
| `load`, `healthy`, `CheckBackpressure` | what the monitor measures; `checkBackpressure` |
| `tripped`, `streak` | history: overloaded, and not enough healthy checks since |
| `Connect`, `HearsV1`, `HearsV2`, `GetsClient`, `Timeout`, `Error`, `PeerCloses`, `CloseEvent`, `Clean`, `Destroyed` | a connection from accept to the end of its clean-up |
| `authority`, `noise`, `Asks`, `Generated`, `Initialized` | `Sv2NoiseConfigService`'s key and certificate; `ensureInitialized` around its await |

## 3 What the runs check

Several invariants of a module are checked as one, a conjunction of the parts named in the table.

| Run | Result | What it checks | Bounds |
|---|---|---|---|
| `queue_calls` | pass | `QueueInv`: `TimerArmedWhenNeeded`, `WaitingIsQueued`; `CallsEnd`: `EveryCallReturns`, `DrainEnds`; `ImplementsJournal` | 5 shares, batches of 2, queue of 3 |
| `rollup` | pass | `BatchesDisjoint`, `BatchesComplete`, `NoShareSkipped`, `ImplementsLedger`; `EveryShareRolledUp` | 3 PPLNS shares, 2 workers, 2 masters, batches of 2, lag 4, delay 1, skew 1, 1 abort; shares accepted at times 0, 1 and 3; time to 5 |
| `payout_rounds` | pass | `BooksBalance`; `GrossIsFair`; `CoinbaseInv`: `RewardDistributed`, `WithinLimits`, `DebtorsNotPaid` | 3 miners, 3 blocks, 2 values, works 0, 1, 4, a fee whose address also mines |
| `ledger_books` | pass | `HistoryOnChain`, `TotalsMatchHistory`, `BalancesCarried` | 2 miners, 2 finders, 2 blocks, 1 batch |
| `ledger_stale` | violation | are balances carried when snapshots are older than finalizations? | as above |
| `blocks` | pass | `RowsOnlyGain`; `BooksInv`: `BooksOfTaken`, `FinalizedIsRecorded`; `ListInv`: `ListedIsTaken`, `TakenIsRecorded` | 2 blocks of the pool, 1 of a gateway, 1 false claim, 3 reports |
| `broadcast` | pass | `WorkersInv`: `QuietWorkersAgree`; `WorkersCatchUp` | 1 worker, 1 new block, one fault of each kind |
| `servers` | pass | `PauseInv`: `PausedTogether`, `TrippedIsQuiet`; `ClientGoesOnce`; `CertificateVerifies`; `AcceptsAgain` | a port of each kind, 2 connections, one other initialization, 2 healthy checks, 3 changes of load |
| `session_v1` | pass | `CreditedOnce`; `AcceptedIsBooked`: `AcceptedIsRecorded`, `FinalizedAsWorked`; `ServedIsCurrent`: `WorkIsCurrent`, `DifficultyIsKnown`; `RowsInv`: `RowsDieWithConnection` | 1 connection, both modes, 4 messages, 2 templates, the second with `clearJobs` or without, 1 retarget |
| `session_v2` | pass | `CreditedOnce`; `AcceptedIsRecorded`; `StaleIsRefused`; `ChannelsAreCurrent`: `WorksOnTip`, `DifficultyWasTold`; `HoldingsInv`: `PrefixesDiffer`, `NothingIsLeft` | 1 connection, 3 messages after the handshake, 2 templates, each of either of 2 blocks, the second with `clearJobs` or without, 2 prefixes, 1 submission remembered |
| `datum` | pass | `ReadInStep`; `VerdictIsItsOwn`; `PayoutsAgree`: `SnapshotIsPaid`, `IssuedIsTaken`; `SessionInv`: `AcceptedIsRecorded`, `OneRowWhileConnected` | both modes, 2 job ids, 1 coinbaser id, 3 commands with 2 submissions, 2 templates |
| `declared` | pass | `SubmittedOnce`; `JobsInv`: `CustomJobIsYoung`, `ProvidedIsKnown`; `PushedIsBooked`: `PushBuildsLatest`, `FinalizedIsPaid`; `TemplatesReachClient`: `ClientOnLatest`, `ToldIsAvailable` | 1 connection of either protocol, 6 messages, 2 templates with payout outputs or without, time to 3, lifetimes 1 |

The type invariant of each module (`TypeOK`, `QueueTypeOK`, `BroadcastTypeOK`) is part of one
conjunction of its run; all of them are proved as well, see section 4.

*Why the bounds are enough.* A queue of 3 with batches of 2 has the states that matter:
less than a batch, a batch, more than a batch, and full while a flush is active; five
shares fill it and still leave callers to be refused. In the rollup two rows in opposite
commit and index order plus a third suffice for a row below, at and above a watermark,
and two batches are needed for "disjoint" to mean something; an abort and the takeover
by the other master occur. `Lag` is at its smallest admissible value for delay and skew
(`LagAssumption`). One share is accepted at time 0, one at the other worker a tick
later, which may draw a lower index: one tick of lag less and `BatchesComplete` fails. A
row of time 0 is old enough at time 3, 4 or 5, as the worker's clock was slow, right or
fast, and shares may be accepted at time 3 as well: batches are made while the shares of
time 3, at either or both of the workers, are being inserted: they draw indexes, commit
in any order, and fail between the statements that read a batch's range, count and
summary. With all three accepted early a batch of two leaves one for the next. The clock
runs until every row of time 0 is old; of a later row, and of one above it,
`EveryShareRolledUp` says nothing (`Ripens`), but late rows must not hold up the others.
With three miners and two outputs one miner is always trimmed; the first block makes
balances, the second advances against them, the third pays with both; 4 and 9 sats leave
remainders, and 30 % of them is below and above `MinOutput`. Two blocks are what a stale
snapshot needs. One new block gives two heights, so that both refreshes can carry the
old one across; with a queue bound of one, deliveries and loads still overlap both
refreshes.

For the sessions a message more than a hazard needs is enough. A V1 session needs three
messages to be served (subscribe and authorize in any order, then one to disturb it), a
fourth for a second submission of the same share; with the second template a job is of
the old block, of the new one, or both are held. Four messages also name a payout
identity twice before its row is there, which chains a heartbeat on the insert. A V2
connection's three messages open a channel and submit a share twice, or two channels and
close one of them amid the loops of template and timer, or three channels, which exhaust
two prefixes; two submissions overflow a memory of one. The difficulties lie on both
sides of the minimum and of the work a share shows. DATUM's job ids are two and its
submissions two, so that the second overtakes the first at each await. There is one
coinbaser id, which wraps with every fetch: the second takes it from the first, with a
submission before, between, after, or at one of its awaits; that ids wrap only after
several fetches is left to `PayoutsAreAgreed`. In `declared` a token of one tick expires
between any two messages. Sessions share only the registry and, in V2, the allocator; a
second connection adds another's jobs and prefixes to the properties of one, for which
the theorems of section 4 stand in (they hold for any number), so one is enough; what
sessions do to each other's books is `blocks` and `ledger_books`, with up to three
reports: the winner, a rival, and one of them repeated. In `servers` two connections to
three ports fill the limit of one, and three changes of load are overload, recovery, and
the relapse before the second healthy check.

*Symmetry.* `ledger_books`, `ledger_stale` (finders), `blocks` (the pool's rival
blocks), `datum` (job ids) and `session_v2` (the blocks templates build on, which are
only compared) use it; they check safety only. Runs with liveness use none.

*Deadlock.* `servers` checks for deadlock: the monitor never ends. The other cfgs say
`CHECK_DEADLOCK FALSE`: a bounded instance stops when its shares, blocks, messages or clock are used
up, and a process that has ended really does nothing more.

*Auxiliary variables.* `aux`, `racing`, `late`, `overtaken`, `missed`, `forgot`, `trouble` record that
something happened which a property excepts: a failure that drops what it was about (`dropped`,
`trouble`), or a case the code leaves open, which section 5 names. Three exceptions are read off the
state: `Misfiled` (6), `TokenIsOlder` (22), and a verdict about an earlier job of the same id (23).
The property says there is no other.

*Fairness.* All fairness is weak.
`ShareQueue`: the timer fires, the awaited INSERT succeeds or fails (`EndFlush`), the drain loop is
resumed. It says nothing of callers, of `Drain` or `Exit`. A database that never answers is not
covered: the code awaits it without a timeout.
`ShareRollup`: INSERTs and the statements of a transaction end, the rollup timer fires, time passes.
Aborts are bounded: a rollup that fails every time makes no progress, as in the code.
`TemplateBroadcast`: the node, Redis and the database answer, the interval fires, a message sent to
a connected worker arrives, pm2 restarts an ended process. It assumes no block, no notification
and no fault. `WorkersCatchUp` excepts failing RPC calls and lost messages, see section 5.
`StratumServers`: timers fire, key generation ends, close events arrive, the database answers. It
assumes nothing of the load: `AcceptsAgain` is about runs in which it stays healthy.
The sessions state no fairness: their properties are about states in which nothing is under way.

## 4 What is proved

Every theorem holds for all constants that satisfy the module's assumptions.

**RecordProofs** is about both halves of an accepted share's way, and about found blocks. From
`ShareRollupAssumption` (typing of the constants) and `LagAssumption` (`Lag > 2*MaxDelay + MaxSkew`):

- `TypeCorrect`: `Spec => []TypeOK`.
- `BatchesAreComplete`, `NoShareIsSkipped`, `BatchesAreDisjoint`: the three safety properties of
  the run `rollup`, for any number of shares, workers and masters.
- `RollupImplementsLedger`: `Spec => ImplementsLedger`, the refinement the run checks.

`LagAssumption` is the contract between the code and its deployment: a row reaches the table, or
fails to, within `MaxDelay` of its acceptance, and clocks differ by at most `MaxSkew`. The code
enforces neither; `SHARE_ROLLUP_SAFETY_LAG_SECONDS` (10 by default, 30 in `.env.example`) has to be
chosen for it. *Why twice the delay*: a row may draw its index `MaxDelay` after it was accepted, so
rows of smaller index may have been accepted up to `MaxDelay` later, and may commit `MaxDelay` after
that.

The argument goes in two stages. `ShareInv` = `TypeOK /\ IndexInv /\ TimeInv` speaks of the
accepting side alone: indexes are unique and below `nextIndex`; stamps are off by at most `MaxSkew`;
a smaller index was accepted at most `MaxDelay` after a larger one. From it `OldRowsAreSettled`
follows: when a row is older than the lag, no insert still running holds a smaller index, and
`RangeIsSettled` lifts that to the range `StableRows` and `BoundedRows` choose. `RollupInv` adds
`BatchInv` (no row can appear any more at or below a batch's end) and `TxInv` (a transaction with a
range holds the lock, works above the watermark, and below its range's end every row is rolled up
or in the range). The refinement needs no more: the only steps that change what the ledger sees are
commits of a row, which `IndexInv` makes a new share, and the write of a batch, for which `TxInv`
says that the rows credited are all those up to its end and above the last one. None of the three
properties is inductive by itself: that a committed batch stays
complete needs `BatchInv`, and that a new one is complete needs `TxInv` from the moment the range was
read.

From `ShareQueueAssumption` (both sizes are positive):

- `NoCallerForgotten`: `QueueSpec => []QueueInv`, for any number of shares and any sizes of batch
  and queue.
- `QueueImplementsJournal`: `QueueSpec => ImplementsJournal`, the refinement the run `queue_calls`
  checks.

Both rest on one lemma, `StartFlushKeeps`, and its like for `Restart` and `Record`: whatever a method
does, the batch in flight followed by the queue stays the same line of shares, except that `Record`
adds to its end and `EndFlush` takes the batch off its front; and it leaves a timer exactly when one
is needed. `ScheduleFlush` may do nothing during a flush only because `.finally()` is part of the
step that ends it. `ExecutingIsOpen` is added to `QueueInv` for the refinement: what the database
executes belongs to callers who wait, were rejected or are lost, or is stored already. So an INSERT
that commits late, after the connection was lost or the process is gone, is still a `Store` of the
journal or changes nothing.

From `FoundBlocksAssumption` (typing; pool blocks, gateways' blocks and
claims are distinct):

- `BooksHoldTheTaken`: `BlocksSpec => []BooksInv`, for any blocks and any number of reports.
- `TheTakenIsListed`: `BlocksSpec => []ListInv`.
- `RowsGain`: `BlocksSpec => RowsOnlyGain`, the action property of the run `blocks`.

All rests on one fact about the node: it takes one block and says so once. `OneSuccess` has it that
at most one handler holds the answer "success", and none does when a block that is no claim is
booked. `BookedInv`, `TaskInv` and `TakenInv` follow that answer from the handler into the row, the
finalization and the books; a look that is stale when its write comes is harmless because what the
other handlers may write for a pool block is weaker (`Answers`) and a row is only ever improved.

**PayoutProofs** is about both views of the books. From `PayoutDistributionAssumption` and
`PayoutRoundsAssumption` (typing; finitely many addresses; at least one output):

- `BooksAlwaysBalance`: `RoundsSpec => []BooksBalance`.
- `CoinbasesAreRight`: `RoundsSpec => []CoinbaseInv`: types, `RewardDistributed`, `WithinLimits`,
  `DebtorsNotPaid`.
- `GrossAlwaysFair`: `RoundsSpec => []GrossIsFair`.

They hold for any weights, limits, work, coinbase values and fee, a fee above 100 % or heavier than
the coinbase included. `RoundsInv` says of each row what it is owed, gets and keeps (`RowsInv`), of
all rows what their payouts and weights sum up to (`SumsInv`), and that the balances sum up to
nothing negative: no more is ever advanced to some than is kept from others. The last part is what
`DebtorsNotPaid` needs: only if nobody is owed anything is a reward split by work alone, which could
pay a debtor; but the targets sum up to the reward and the balances, so that somebody is owed as
long as there is a reward (`SomebodyIsOwed`).
`MinimalSubset` to `TotalCounts` are about sums over finite sets. The sats left over by rounding
down are fewer than the addresses with a fraction (`SatsLeftOver`), and giving one to each
whose place in the order is below their number gives exactly as many (`PlacesCount`), none to a
whole share. `ChooseOutputs` takes each output that fits after the earlier ones that were taken;
such a set exists, for every order (`FittingExists`), and it fits (`FittingIsWithin`).

The proofs corrected the model in three places. The last arm of `AllocatePayoutTargets` lacked
`total > 0`, which the code's first return ensures, so that two arms overlapped if the fee took
more than the coinbase. `GrossIsFair` asks for a reward that is not negative, and `WithinLimits`
looks at the weight only where there is a miner's output: the code refuses no output of the fee
alone, however heavy.

From `PayoutLedgerAssumption` (typing; who is not listed in a payment earned nothing):

- `LedgerTypeCorrect`: `Spec => []TypeOK`, which includes that every broadcast, mined or finalized
  snapshot is a stored one.
- `OnlyChainBlocksAreFinalized`: `Spec => []HistoryOnChain`.
- `BalancesAreCarried`: `Spec => []BalancesCarried`, for any chain length, finders and splits.
- `TotalsAreHistory`: `Spec => []TotalsMatchHistory`.

`LedgerInv` = `TypeOK /\ HistoryOnChain /\ AnswerInv /\ ReadInv /\ BooksInv`. `AnswerInv`: what the
node said it took is on the chain. `ReadInv`: balances read when the books covered certain blocks
are still the present ones unless a block was finalized since. `BooksInv` is the heart: while every
block was mined on settled books, either all is finalized and `balance = owed`, or exactly the last
block is open and the balances are those its snapshot was made from (`LastIsOpen`), so that adding
its net on finalization gives what is owed. `BalancesCarried` says nothing of an open block and is
not inductive without it. `TotalsMatchHistory` equates a total with a sum over the history, which
the community modules compute by a recursive function on the subsets of a set. `SumsExist` to
`TotalsEqual` are what is needed about such sums: the function exists, any element may be taken off
first, and only the values on the set matter. They are shown by taking a minimal subset for which
they fail (`MinimalSubset`), as an induction rule cannot be instantiated.

**WorkerProofs**. From `StratumServersAssumption` (typing; connections are no starters):

- `PortsPauseTogether`: `Spec => []PauseInv`, for any ports, number of checks and changes of load.
- `CertificatesVerify`: `Spec => []CertificateVerifies`, for any number of initializations.
- `ClientsGoOnce`: `Spec => []ClientGoesOnce`, for any number of connections.

`ServersInv` = `TypeOK /\ PortsInv /\ CertificateVerifies /\ GoneInv`. `PortsInv` adds to the properties
that a watched port is without a server exactly while it is paused or the listeners do not exist
(`Served`, without which a port that was skipped by one pause would stay behind), and that the
monitor's count never exceeds the healthy checks there were in a row (`CountIsStreak`): the count is
frozen while no port is paused, so it has to be 0 then. `CertificateVerifies` is inductive because a
key is drawn only while there is no configuration. `GoneInv` says who may find a client on a
connection that was cleaned up: only one that waited.

From `TemplateBroadcastAssumption` (typing; `None` is no height):

- `WorkersAgree`: `BroadcastSpec => []WorkersInv`, for any workers, chain, queues and faults.

`WorkersInv` speaks of a moment when all is quiet, so `BroadcastInv` follows the last message to a
worker that did not miss it: the worker is up, and unless a template is stored that is not published
yet, or the message is still in its channel, the last of its loads is of its mining info, and the
answer to it, once it has come, is the template Redis has under that height (`LastLoad`). When that
answer is taken the worker works on it. Only the answer of the database may come later and replace
it, which is why the property excepts it; that a template is always published after it is stored is
what makes it safe that the next one overwrites Redis' entry of the same height.

**DeclaredWorkProofs**, from `DeclaredWorkAssumption` (finitely many connections; typing):

- `JobsAreYoung`: `Spec => []JobsInv`, types and ownership of jobs, `CustomJobIsYoung` and
  `ProvidedIsKnown`, for any connections, request ids, lifetimes and number of frames.
- `PushesAreBooked`: `Spec => []PushedIsBooked`.
- `SolutionsGoOnce`: `Spec => []SubmittedOnce`.
- `ClientsHaveTemplates`: `Spec => []TemplatesReachClient`.

`Inv` has a part for each thing a handler goes on with after it waited: `RegistryInv` (a pending
declaration, and what the node checks for it, name a token and a template that were there when it
was looked at), `LatestInv` and `BlocksInv` (a block in the making is of its client's latest job,
and its snapshot is of that job's template), `UsedInv`, `AskedInv` (what waits under a request id),
`ToldInv` (what a client was told of was served to it) and `OrderInv` (of the announcements that
wait for a client the last is of the last template, so that the client ends there whatever order the
sockets drain in). The lemmas `Frames` and `TaskOrigins` say once which handler changes which
variable and where each waiting handler comes from. The proof of `AskedInv` failed at first and for
a good reason: see 19 below.

**StratumV1SessionProofs**, from `StratumV1SessionAssumption` (typing of the constants; at least one
template):

- `SubmissionsAreCreditedOnce`: `Spec => []CreditedOnce`.
- `AcceptedSharesAreBooked`: `Spec => []AcceptedIsBooked`.
- `ServedMinersAreCurrent`: `Spec => []ServedIsCurrent`.
- `RowsLiveAndDie`: `Spec => []RowsInv`.

The properties speak of sessions in which nothing is under way, so the invariant has to say what is
still to come for whatever is not yet so. `SessionsInv` does that for one session: as long as a
subscribed and authorized miner has not been started, a handler of one of its messages waits that
will start it (`Starts`); then the one that subscribes it to the templates (`Subscribes`); then what
it was sent last, or what waits for the own row's insert, is of the last template and pays its
present identity (`ServeOK`); the same for the difficulty it was told (`DiffOK`). `RowsOK` says that
no row comes back after `destroy()` took it unless a write was under way, a heartbeat that has yet
to wait for its row's insert included. `BooksInv` follows an
accepted share: it is remembered, or its template has left the registry so that it cannot be
accepted again; and it waits in one handler, is recorded, or is dropped (`Books`). Most steps change
one session in a way the books do not notice (`Quietly`); `QuietlyKeeps` shows once what that
leaves alone. The jobs that wait for the own row are made in one step, in order; the model keeps them
as the sequence `waits` so that what they do is a set of jobs and a last one, with no fold over them.

**StratumV2SessionProofs**, from `StratumV2SessionAssumption` (typing; difficulties, work and sizes are
positive):

- `HoldingsAreOwned`: `Spec => []HoldingsInv`, for any connections, channels and prefixes.
- `StaleWorkIsRefused`: `Spec => []StaleIsRefused`.
- `SharesAreCreditedOnce`: `Spec => []CreditedOnce`.
- `SharesAreRecorded`: `Spec => []AcceptedIsRecorded`.

The inductive invariant is `HoldsInv /\ LogInv /\ HeightsOK`; by the last every template emitted
keeps the block it builds on, so that a block once submitted stays the one its share is booked for.
That two open channels have different prefixes is `PoolOK`: a prefix in use is allocated, and of one
channel. What is hard about the others is that every loop over the channels stops at each write, and
that a session may be destroyed, or its channels closed, in between. So `HoldsInv` speaks of what is
yet to come back from a write: its channel and the number of its job. A job's number is below the
session's counter and differs from those of the jobs held and of the jobs still to be recorded
(`Counted`, `Apart`); therefore a job that is recorded late does not bring back one whose
submissions were forgotten, and as long as a job is found its accepted submissions are remembered
(`Remembered`). `CurrentOK` says which jobs a submission finds though they are older than the last
`clearJobs`: that is all the code can tell, and without templates of two blocks since then it is the
tip (`Stale`). `LogInv` has for every accepted share the one place where it is (`Books`): a reply
being written, a call, the record, or what was dropped.

**StratumV2WorkProofs**, from the same assumption and `HoldsInv`:

- `ChannelsStayCurrent`: `Spec => []ChannelsAreCurrent`, for any channels, templates and orders in
  which the loops over the channels go on.

`WorksOnTip` speaks of a session at rest, and a session seldom is: the subscriber starts a loop over
the channels with every template, the timer one of targets and then one of jobs, and an opening
handler sends its channel a first job; all of them wait at every frame. That a new template's loop
overtakes none is due to the socket, whose writes end in order, and that is what `SteerInv` follows.
A frame is late if what it carries, or the loop that waits for it, is of a template older than the
last one with `clearJobs`. For every late frame there is a loop of a template that is not, with its
previous hash, that comes to the late one's channel after it: it stands behind in the queue and has
not got further in the channels, or it stands in front and is less far (`Ordered`, with `Place` for
how far). And every channel has such a template already, or is being opened, or such a loop or a
first job has still to get to it (`Well`). A loop that goes on goes to the end of the queue, and the
next channel it takes is the least one above: no late frame slips between (`OrderedOn`). `clearJobs`
makes everything late at once, and the loop it starts is behind everything and at the first channel.
When the socket goes the frames that wait fail, and what follows the writes tried after that runs at
once, in no order; no template comes in between, so none of these is late (`TipsOnly`). The
exceptions `overtaken` and `missed` are those of the property: a loop whose channel was closed
(`LoopsIn` holds only without), and a block between a first job and the subscription. At rest no
frame waits, and what remains of `Well` is the property, for which block a template builds on
matters only in the end: what came since the last `clearJobs` is of the tip unless templates of two
blocks did.

**DatumSessionProofs**, from `DatumSessionAssumption` (the modes; at least one coinbaser id and one
template):

- `SharesAndRowAreKept`: `Spec => []SessionInv`, types, `AcceptedIsRecorded` and
  `OneRowWhileConnected`, for any job ids, coinbaser ids and bounds.
- `StreamIsReadInStep`: `Spec => []ReadInStep`.
- `PayoutsAreAgreed`: `Spec => []PayoutsAgree`.
- `VerdictsAreTheirOwn`: `Spec => []VerdictIsItsOwn`.

`DatumInv` has a part for each. `StreamInv`: at most one piece has frames left to handle, and as long
as the socket is open they are exactly the frames read and not decrypted; so a piece that comes when
nothing is left finds the reader's key in step, and one that does not finds a handler with another
frame to go, which is the exception `ReadInStep` makes. `BooksInv`: every accepted share is carried by
one handler, recorded, or dropped, and only a closed session drops one. `RowInv`: unless two inserts
ran at a time or the session closed with a handler under way, the rows that live are the session's
own, a task that writes to a row names that one, and after the close only its delete is left.
`WorkInv`: whatever was asked is of the cache its job id has or of an earlier one of that id, so an
answer is about that id. `PayInv`: the contexts are those of the last ids handed out, place by place
round the wrap (`SlotOf`), which is what makes `IssuedIsTaken` follow from the search of the contexts
(`IssuedIsPaid`); and a share pays its cache's context unless that was changed meanwhile.
A handler's step takes one task out and puts at most one behind the others; `Puts` and `Moved` say so
by a map of places, and each part is then shown once for each shape of a step (`Quiet`, `Carrying`,
`Asking`, `Shut`), however many actions have it.

**Model-checked only.** All liveness (`CallsEnd`, `EveryShareRolledUp`, `WorkersCatchUp`,
`AcceptsAgain`): fairness and ENABLED are outside the prover. Every other property of a passing run
is a theorem.

## 5 Known disagreements

`ledger_stale` is a run; the others are read off the models and excepted, by name, from properties
that hold otherwise.

*Books and payouts*

1. **Stale balances** (`ledger_stale`; `payout-snapshot.service.ts:105`, `:317`). A snapshot holds
   the balances read when its template was made; finalization stores them, plus its own, as absolute
   values. Two blocks in a row where the second was mined on a snapshot made before the first was
   finalized lose what the first left owed. `BalancesAreCarried` says the books are right in every
   other case.
2. **Coinbase not conserved** (`payout-distribution.ts:318`). When carried balances take every
   output nobody active is left to redistribute to; the rest goes to the first output as a
   "remainder" and is charged to no balance. `RewardDistributed` excepts it.
3. **The fee's address with a row that is not in the coinbase** (`payout-distribution.ts:376`) gets
   a second entry of the snapshot, which the table's unique key refuses.
4. **A null result counts as success** in the books and for `blocks_entity`; DATUM passes null for a
   share a gateway calls a block (`datum.service.ts:335`). `BooksOfTaken` excepts such claims.

*Templates*

5. **A failed `getmininginfo` stops the refreshes** (`bitcoin-rpc.service.ts:115`) until the next
   block; the new block's own template is not fetched either.
6. **Templates of two blocks at once** (`bitcoin-rpc.service.ts:137`). A refresh that spans a block
   stores the old template under the new height. `clearJobs` follows the mining info
   (`stratum-v1-jobs.service.ts:56`), so the old block's template takes it, and the new block's own
   comes without. A V2 miner then gets the new block's jobs without `SetNewPrevHash`
   (`StratumV2Client.ts:1043`) and goes on with the old previous hash, and the old block's jobs are
   not retired, until the next `clearJobs`. `Stale`, and with it `WorksOnTip` and `StaleIsRefused`,
   excepts it (`Misfiled`): all they say then is that nothing older than the last `clearJobs` is
   worked on or accepted.
7. **Nothing is replayed on reconnect** (`redis-messaging.service.ts:65`), although `README.md:134`
   says that workers are.

*Sessions and servers*

8. **The limit of connections per port** (`README.md:62`) is not kept over a pause: resuming makes
   a new set of sockets while the old ones are still connected (`stratum-v1.service.ts:461`). A bind
   that fails as a port resumes is not tried again.
9. **Rows that survive**: a row whose insert or update ends after `destroy()`
   (`StratumV1Client.ts:825`); one that `destroy()` has deleted and a heartbeat brings back, which
   was chained on the insert `destroy()` waited for (`StratumV1Client.ts:672`,
   `client.service.ts:70`). `racing` excepts them. DATUM's two overlapping submissions insert two
   rows (`aux.twice`), and a submission under way as the session closes may leave its own
   (`aux.racing`).
10. **A second `mining.authorize`** changes identity and difficulty without a new job or an
    announcement until the next template (`sess.late`).
11. **V1's job pays the snapshot's last output's address** (`MiningJob.ts:51`); with several PPLNS
    outputs the name on the job is not the miner's. The share is credited to the session's identity
    all the same.
12. **`creditedDifficulty` is read after several awaits** (`StratumV1Client.ts:845`), a share may be
    credited at the difficulty that came after it.
13. **Rejections nobody handles** end the worker: the V2 timer's (`StratumV2Client.ts:1063`), and
    those of the two declared-work protocols (`sv2-template-distribution.service.ts:318`, `:465`).
14. **Custom jobs** are not retired by a new block, and the registry compares the scripts of a
    declared coinbase, not its amounts (`sv2-job-declaration-registry.service.ts:101`).
15. **The Noise certificate** is valid for one day and is not renewed while the process runs
    (`stratum-v2.service.ts:170`). The model has no clock for it.
16. **Data that arrives while a V2 connection waits for the Noise configuration** has no listener
    after the first chunk.
17. **DATUM** handles pieces of data that arrive while a frame waits at once: the header keys and
    nonces may then be used out of order (`ReadInStep` excepts it). It looks for no duplicates: the
    unique index refuses the share, and with it the whole batch of the queue.
18. **A V2 channel forgets its submissions** when there are more than 10000
    (`StratumV2Client.ts:552`); one sent again is then credited again (`sess.forgot`). A channel that
    is closed while two loops go through the channels lets the later one reach a channel first
    (`sess.overtaken`).
19. **A request id used twice** in a job declaration drops the declaration that waited under it, and
    what is provided for it is answered as unknown (`aux.reused`). The same happens when the id is
    used again after its answer: transactions provided twice are checked twice, both answers delete
    what waits under the id (`sv2-job-declaration.service.ts:328,345,351`), and the second deletes
    the new declaration. It takes seven frames, more than the run has; the proof of `AskedInv` found
    it.
20. **A replayed template without its previous hash**: a V2 session subscribes when its first job is
    written; `sendPrevHash` is the replayed template's `clearJobs` (`StratumV2Client.ts:1017-1048`).
    If a template with `clearJobs` came in between and was followed by a refresh, the refresh is
    what is replayed: its job goes out without the new previous hash, and the miner builds it on the
    old one until the next block or retarget. `WorksOnTip` excepts it (`sess.missed`); it takes a
    third template, one more than the run has: with three the exception is reached and `WorksOnTip`
    still holds.
21. `nearestPowerOfTwo` works with 32-bit shifts (`StratumV1ClientStatistics.ts:73`).
22. **A declaration pays a token's outputs and books a template's.** A token says what the coinbase
    has to pay when it is allocated; finalization takes the snapshot of the template that was the
    latest at the declaration (`sv2-job-declaration.service.ts:417`). If a template came in between,
    or there were no outputs yet, the two differ: `FinalizedIsPaid` excepts it (`TokenIsOlder`).
23. **DATUM's jobs are shared by their submissions.** A coinbase that pays another context than the
    job's replaces the snapshot on the job (`datum.service.ts:305`) while an earlier submission of it
    is on its way to be finalized with it: `SnapshotIsPaid` excepts such jobs (`aux.mixed`). And an
    answer is looked up by job id (`datum.service.ts:490`), so one about an earlier job of the same id
    is a verdict on the later: `VerdictIsItsOwn` says that there is no other mistake.

## 6 What is not modelled

- *Reorganizations.* The code has no notion of them; `chain` only grows.
- *Floating point.* Difficulties and work are floats in the code; the models use integers. What
  the retarget timer computes is any of the given difficulties; rounding in sums of work is not
  covered.
- *Wire formats and cryptography.* Frames, Noise, encodings, hashes: beyond nonces, keys and
  buffers, which `DatumSession` has for DATUM, no state of the pool depends on them. That a share
  meets its target is a number its submission shows.
- *Restrictions within modules.* `PayoutLedger.Finalize` reads the history and writes the books in one
  step, so a race of two finalizations of one height (`payout-snapshot.service.ts:259`) is in
  `FoundBlocks` alone, whose `Check` and `Book` are two; and it takes the node's answer for what it is,
  `FoundBlocks` having the null of 4. `TemplateBroadcast` starts an interval refresh when the one
  before has ended, which `subscribe(async …)` (`bitcoin-rpc.service.ts:97`) does not wait for: a
  refresh of 60 s and more would overlap with itself as it does with the block's. A second
  `SETUP_CONNECTION` on a V2 session, which may set or take back `workSelectionEnabled`, a second
  DATUM hello, and DATUM's pings and `TEMPLATE_REFRESH` are left out. Prefixes are those of extended
  channels; standard channels take theirs from the channel counter and two random bytes
  (`stratum-v2.service.ts:127`).
- *Share retention* (two migrations). Dropping raw shares and pruning batches are jobs of the
  database's extension, with ages set in SQL; `SHARE` rows that were not rolled up within the
  retention would be lost, which a model without real time would only assume away.
- *Client statistics, high scores, user agents.* Counters for display; no payout depends on them.
- *Notifications, integrations, HTTP, summaries, bootstrap.* Output or configuration only.
- *The node, Redis and Postgres* are external and behave as the code uses them: READ COMMITTED,
  transaction-scoped advisory locks, sequences that never go back, unique indexes, GETs answered in
  order, at-most-once publish.

## 7 Plan

Every component of section 1 that is in reach is modelled, and every property of a passing run but
the four of liveness is a theorem. A change of the code is to be followed in the module whose `map`
entry in `PROJECT.json` names its lines, then in its run, then in its proof; the parts of section 6
would be next, the frame formats first.

## 8 Running it

`tlc -config <run>.cfg MC<Module>.tla` for a run, `tlapm <Module>Proofs.tla` for the proofs. The
largest runs have up to twelve million states and take up to three minutes. Operators introduced by a
comment `Mutant:` are not used by the specification: each is the wrong version of the definition
below it, and breaks the property `PROJECT.json` names with it.
