--------------------------- MODULE StratumV1Session ---------------------------
(***************************************************************************)
(* The Stratum V1 sessions of one worker process: the handlers, timers and *)
(* callbacks of src/src/models/StratumV1Client.ts with the job registry of *)
(* src/src/services/stratum-v1-jobs.service.ts and the job of              *)
(* src/src/models/MiningJob.ts.                                            *)
(*                                                                         *)
(* handleSocketData is async and not awaited by the socket, so the         *)
(* handlers of messages in different chunks overlap.  A step is one run of *)
(* a handler between two awaits; what is left of it waits in "tasks".  The *)
(* await of a write resolves unless the socket is destroyed.  A write      *)
(* nothing follows, a reply with an error say, leaves no task.             *)
(*                                                                         *)
(* A submission's nonce stands for how much work its hash shows.  A        *)
(* template is known by its number, and carries a payout snapshot of its   *)
(* own.  The share's way into the table is ShareQueue, the books of a      *)
(* block PayoutLedger; best difficulties are left out.                     *)
(***************************************************************************)
EXTENDS Integers, Sequences, SequencesExt, FiniteSets, FiniteSetsExt

CONSTANTS
    Conns,         \* connections
    Identities,    \* <<address, worker>> pairs a miner may ask to be paid as
    NoIdentity,
    Accounts,      \* bound: identities they authorize as
    Difficulties,  \* difficulties asked for and computed
    Work,          \* how much work a submission shows
    StartDifficulty,    \* a new session's difficulty
    MinDifficulty,      \* STRATUM_MIN_DIFFICULTY
    NetworkDifficulty,
    PayoutModes,   \* of the ports: "solo", "pplns"
    LastOutput,    \* pplns: address of the last output of the snapshot
    MaxMessages,   \* bound: messages a connection sends
    MaxTemplates,  \* bound: templates emitted
    MaxRetargets   \* bound: timer ticks that change the difficulty

ASSUME StratumV1SessionAssumption ==
    /\ PayoutModes \subseteq {"solo", "pplns"}
    /\ Accounts \subseteq Identities
    /\ Difficulties \cup Work \subseteq Nat \ {0}
    /\ {StartDifficulty, MinDifficulty, NetworkDifficulty} \subseteq Nat \ {0}
    /\ NoIdentity \notin Identities
    /\ MaxTemplates \in Nat \ {0}

VARIABLES
    sess,       \* the StratumV1Client of each connection
    heights,    \* heights of the templates emitted so far
    blocks,     \* templates the registry holds
    live,       \* client rows of each connection that are not deleted
    recorded,   \* calls of recordAcceptedShare that succeeded
    dropped,    \* auxiliary: accepted shares a failure kept from recording
    submitted,  \* shares given to bitcoind as blocks
    finalized   \* <<template, height>> given to finalizeSnapshotForBlock

vars == <<sess, heights, blocks, live, recorded, dropped, submitted, finalized>>
logs == <<recorded, dropped, submitted, finalized>>

(* Client rows: the connection's own, and one per identity it was paid as. *)
Own == NoIdentity
RowKeys == Identities \cup {Own}

Latest == Len(heights)

(* A new connection on a port of the given payout mode. *)
NewSession(mode) ==
    [mode |-> mode,          \* payoutMode
     socket |-> "open",      \* open, ended by us, or destroyed
     closed |-> FALSE,       \* connectionClosed
     destroy |-> "no",       \* destroyPromise: no, started, done
     subscribed |-> FALSE,   \* clientSubscription, with an extranonce
     auth |-> NoIdentity,    \* clientAuthorization
     pay |-> NoIdentity,     \* currentPayoutAddress, currentPayoutWorker
     diff |-> StartDifficulty,  \* sessionDifficulty
     suggested |-> 0,        \* clientSuggestedDifficulty, 0 if none
     used |-> FALSE,         \* usedSuggestedDifficulty
     inited |-> FALSE,       \* stratumInitialized
     stream |-> FALSE,       \* stratumSubscription and the retarget timer
     hashes |-> {},          \* miningSubmissionHashes
     row |-> [k \in RowKeys |-> "none"],  \* clientEntity, virtualWorkerEntities
     beats |-> [k \in Identities |-> 0],  \* heartbeats under way, or chained on an insert
     jobs |-> {},            \* its jobs in the registry
     made |-> 0,             \* jobs made, stands for the registry's counter
     tasks |-> <<>>,         \* what waits for an await
     waits |-> <<>>,         \* templates whose jobs wait for the own row
     told |-> 0,             \* on the wire: the last difficulty sent
     sent |-> {},            \* on the wire: the jobs sent
     work |-> <<>>,          \* on the wire: the last job sent
     msgs |-> 0, retargets |-> 0,  \* counters for the bounds
     accepted |-> {},        \* auxiliary: shares replied to as accepted
     late |-> FALSE,         \* auxiliary: authorized again after the start
     racing |-> FALSE]       \* auxiliary: destroyed with a row's write under way

Init ==
    /\ \E mode \in [Conns -> PayoutModes] :
          sess = [c \in Conns |-> NewSession(mode[c])]
    /\ heights = <<1>>
    /\ blocks = {1}
    /\ live = [c \in Conns |-> {}]
    /\ recorded = <<>>
    /\ dropped = {}
    /\ submitted = {}
    /\ finalized = {}

-----------------------------------------------------------------------------
(* What the methods do to a session s. *)

Wait(s, task) == [s EXCEPT !.tasks = Append(@, task)]
Done(s, i) == [s EXCEPT !.tasks = RemoveAt(@, i)]

(* The row writes that destroy() does not wait for. *)
RowWrites(s) ==
    \/ s.row[Own] = "inserting"
    \/ \E k \in Identities : s.beats[k] # 0
    \/ \E i \in DOMAIN s.tasks :
          s.tasks[i].at \in {"touch", "node", "save", "books", "record", "payout"}

(* destroy() up to its first await. *)
Destroyed(s) ==
    IF s.destroy # "no" THEN s
    ELSE [s EXCEPT !.destroy = "started", !.closed = TRUE, !.stream = FALSE,
                   !.hashes = {}, !.racing = RowWrites(s)]

(* socket.end(), after an exception say. *)
Ended(s) == IF s.socket = "open" THEN [s EXCEPT !.socket = "ended"] ELSE s

(* closeSocket(). *)
Closed(s) == [s EXCEPT !.closed = TRUE, !.socket = "destroyed"]

(* write(), of which nothing is awaited, or after which task goes on. *)
Written(s) ==
    IF s.socket = "open" THEN s ELSE [Destroyed(s) EXCEPT !.socket = "destroyed"]
WrittenThen(s, task) == IF s.socket = "open" THEN Wait(s, task) ELSE Written(s)

(* getPayoutInformation, and the last output's address as MiningJob takes it. *)
PaysTo(mode, identity) ==
    IF mode = "pplns" THEN <<LastOutput, identity[2]>> ELSE identity

(* sendNewMiningJob of templates in order, once the client row is there.     *)
MakeJobs(c, s, templates) ==
    LET Job(k) == [conn |-> c, n |-> s.made + k, template |-> templates[k],
                   pay |-> PaysTo(s.mode, s.pay)]
        made == {Job(k) : k \in DOMAIN templates}
        t == [s EXCEPT !.jobs = @ \cup made, !.made = @ + Len(templates)]
    IN  IF s.socket = "open"
        THEN [t EXCEPT !.sent = @ \cup made, !.work = <<Job(Len(templates))>>]
        ELSE Written(t)

(* ensureClientEntity: one insert, whose promise everyone awaits. *)
EnsureRow(s, k) ==
    IF s.row[k] = "none" THEN [s EXCEPT !.row[k] = "inserting"] ELSE s

(* sendNewMiningJob of each template. *)
SendJobs(c, s, templates) ==
    CASE s.row[Own] = "have"   -> MakeJobs(c, s, templates)
      [] s.row[Own] = "failed" -> Ended(s)
      [] OTHER -> [EnsureRow(s, Own) EXCEPT !.waits = @ \o templates]

SendJob(c, s, template) == SendJobs(c, s, <<template>>)

(* The subscription to newMiningJob$ emits the latest template at once. *)
Subscribed(c, s) == SendJob(c, [s EXCEPT !.stream = TRUE], Latest)

(* initStratum. *)
InitStratum(c, s) ==
    LET t == [s EXCEPT !.inited = TRUE]
    IN  IF s.suggested # 0 THEN Subscribed(c, t)
        ELSE [WrittenThen(t, [at |-> "init"]) EXCEPT
                 !.told = IF s.socket = "open" THEN s.diff ELSE @]

(* The end of handleMessage. *)
HandledMessage(c, s) ==
    IF s.subscribed /\ s.auth # NoIdentity /\ ~s.inited
    THEN InitStratum(c, s) ELSE s

(* clampDifficulty. *)
Clamp(d) == Max({d, MinDifficulty})

-----------------------------------------------------------------------------
(* Messages from the miner. *)

CanRead(s) == ~s.closed /\ s.socket = "open" /\ s.msgs < MaxMessages

(* A message is read and the session becomes s; the rest is unchanged. *)
Handle(c, s) ==
    /\ CanRead(sess[c])
    /\ sess' = [sess EXCEPT ![c] = [s EXCEPT !.msgs = @ + 1]]
    /\ UNCHANGED <<heights, blocks, live, logs>>

(* mining.subscribe. *)
Subscribe(c) ==
    Handle(c, WrittenThen([sess[c] EXCEPT !.subscribed = TRUE],
                          [at |-> "handled"]))

(* mining.subscribe of a user agent on the list. *)
SubscribeBlocked(c) == Handle(c, Closed(sess[c]))

(* mining.configure, a message that is not valid, or one of no known method. *)
AnswerOnly(c) == Handle(c, WrittenThen(sess[c], [at |-> "handled"]))

(* mining.authorize, with a starting difficulty or 0. *)
Authorize(c, identity, startingDiff) ==
    LET s == sess[c]
        raise == s.suggested = 0 /\ startingDiff > s.diff
    IN  Handle(c, WrittenThen(
            [s EXCEPT !.auth = identity, !.pay = identity,
                      !.diff = IF raise THEN startingDiff ELSE @,
                      !.late = @ \/ s.inited],
            [at |-> "handled"]))

(* mining.suggest_difficulty; the answer is a mining.set_difficulty. *)
Suggest(c, d) ==
    LET s == sess[c]
    IN  \/ s.used /\ Handle(c, s)
        \/ ~s.used /\ Handle(c, WrittenThen(
               [s EXCEPT !.suggested = d, !.diff = Clamp(d), !.told = Clamp(d)],
               [at |-> "suggest"]))

(* mining.set_payout of an address with a worker, its own or the authorized. *)
SetPayout(c, identity) ==
    Handle(c, WrittenThen([sess[c] EXCEPT !.pay = identity], [at |-> "payout"]))

(* A line that is not JSON. *)
BadLine(c) == Handle(c, Ended(sess[c]))

(* mining.submit that is not valid: an error, and the socket is closed. *)
BadSubmit(c) == sess[c].inited /\ Handle(c, Closed(sess[c]))

(* The jobs of the registry, which all sessions share. *)
Registry == UNION {sess[d].jobs : d \in Conns}

(* handleMiningSubmission up to its first await. *)
Submission(c, s, job, work) ==
    IF \/ job \notin Registry
       \/ job.template \notin blocks
       \/ <<job, work>> \in s.hashes
    THEN Written(s)
    ELSE LET t == [s EXCEPT !.hashes = @ \cup {<<job, work>>}]
         IN  IF work < s.diff THEN Written(t)
             ELSE LET share == [conn |-> c, job |-> job, work |-> work]
                  IN  WrittenThen([t EXCEPT !.accepted = @ \cup {share}],
                                  [at |-> "replied", share |-> share])

(* mining.submit, of a job it was sent or any that can be found. *)
Submit(c) ==
    LET s == sess[c]
    IN  \/ ~s.inited /\ Handle(c, Ended(s))
        \/ /\ s.inited
           /\ \E job \in s.sent \cup Registry, work \in Work :
                 Handle(c, Submission(c, s, job, work))

-----------------------------------------------------------------------------
(* What waits goes on.  Task i of connection c is done and its session       *)
(* becomes s.                                                                *)

Task(c, i, at) == i \in DOMAIN sess[c].tasks /\ sess[c].tasks[i].at = at

Go(c, s) == sess' = [sess EXCEPT ![c] = s]

(* A write fails: its socket is gone. *)
WriteFails(c, i) ==
    /\ sess[c].socket = "destroyed"
    /\ \E at \in {"handled", "suggest", "payout", "init", "replied"} :
          Task(c, i, at)
    /\ Go(c, Destroyed(Done(sess[c], i)))
    /\ dropped' = dropped \cup
          {sess[c].tasks[k].share : k \in {k \in {i} : Task(c, k, "replied")}}
    /\ UNCHANGED <<heights, blocks, live, recorded, submitted, finalized>>

Resume(c, i, at) == Task(c, i, at) /\ sess[c].socket # "destroyed"

(* An answer is written. *)
EndHandler(c, i) ==
    /\ Resume(c, i, "handled")
    /\ Go(c, HandledMessage(c, Done(sess[c], i)))
    /\ UNCHANGED <<heights, blocks, live, logs>>

EndSuggest(c, i) ==
    /\ Resume(c, i, "suggest")
    /\ Go(c, HandledMessage(c, [Done(sess[c], i) EXCEPT !.used = TRUE]))
    /\ UNCHANGED <<heights, blocks, live, logs>>

(* ensurePayoutPresence: insert the identity's row, or refresh it, as soon   *)
(* as the insert that is under way has ended.                                *)
Presence(s) ==
    IF s.pay = s.auth THEN s
    ELSE IF s.row[s.pay] = "none" THEN EnsureRow(s, s.pay)
    ELSE [s EXCEPT !.beats[s.pay] = @ + 1]

(* Mutant: the new identity is served with the next template only. *)
EndSetPayoutLazily(c, i) ==
    /\ Resume(c, i, "payout")
    /\ Go(c, HandledMessage(c, Presence(Done(sess[c], i))))
    /\ UNCHANGED <<heights, blocks, live, logs>>

(* The answer to set_payout is written: serve the new identity at once. *)
EndSetPayout(c, i) ==
    /\ Resume(c, i, "payout")
    /\ LET s == Done(sess[c], i)
       IN  Go(c, HandledMessage(c,
                IF s.inited THEN SendJob(c, Presence(s), Latest) ELSE s))
    /\ UNCHANGED <<heights, blocks, live, logs>>

(* initStratum's set_difficulty is written: subscribe, start the timer. *)
EndInit(c, i) ==
    /\ Resume(c, i, "init")
    /\ Go(c, Subscribed(c, Done(sess[c], i)))
    /\ UNCHANGED <<heights, blocks, live, logs>>

(* ensureClientEntity resolves or throws: the jobs that wait for it are made *)
(* in order, or the connection is ended.                                     *)
WakeJobs(c, s) == SendJobs(c, [s EXCEPT !.waits = <<>>], s.waits)

(* A row is inserted ... *)
InsertRow(c, k) ==
    /\ sess[c].row[k] = "inserting"
    /\ Go(c, LET s == [sess[c] EXCEPT !.row[k] = "have"]
             IN  IF k = Own THEN WakeJobs(c, s) ELSE s)
    /\ live' = [live EXCEPT ![c] = @ \cup {k}]
    /\ UNCHANGED <<heights, blocks, logs>>

(* ... or not: the own row is never tried again, another one is, and the     *)
(* heartbeats chained on its insert end with it.                             *)
FailRow(c, k) ==
    /\ sess[c].row[k] = "inserting"
    /\ Go(c, IF k = Own THEN WakeJobs(c, [sess[c] EXCEPT !.row[k] = "failed"])
             ELSE [sess[c] EXCEPT !.row[k] = "none", !.beats[k] = 0])
    /\ UNCHANGED <<heights, blocks, live, logs>>

(* heartbeat of an identity's row: sets updatedAt and clears deletedAt, also *)
(* when destroy() has deleted the row since.                                 *)
Heartbeat(c, k) ==
    /\ sess[c].row[k] = "have"
    /\ sess[c].beats[k] # 0
    /\ Go(c, [sess[c] EXCEPT !.beats[k] = @ - 1])
    /\ live' = [live EXCEPT ![c] = @ \cup {k}]
    /\ UNCHANGED <<heights, blocks, logs>>

(* updateHashRate of the own row does as well.                               *)
TouchRow(c, i) ==
    /\ Task(c, i, "touch")
    /\ live' = [live EXCEPT ![c] = @ \cup {sess[c].tasks[i].row}]
    /\ Go(c, Done(sess[c], i))
    /\ UNCHANGED <<heights, blocks, logs>>

-----------------------------------------------------------------------------
(* The rest of handleMiningSubmission. *)

ShareGoes(c, i, at) == Go(c, [sess[c] EXCEPT !.tasks[i].at = at])
ShareOf(c, i) == sess[c].tasks[i].share
HeightOf(share) == heights[share.job.template]

(* A bookkeeping call throws: the connection is ended, the share dropped. *)
BookkeepingFails(c, i) ==
    /\ Task(c, i, "save") \/ Task(c, i, "books")
    /\ Go(c, Ended(Done(sess[c], i)))
    /\ dropped' = dropped \cup {ShareOf(c, i)}
    /\ UNCHANGED <<heights, blocks, live, recorded, submitted, finalized>>

(* Mutant: only a block goes on to be recorded. *)
EndReplyBlocksOnly(c, i) ==
    /\ Resume(c, i, "replied")
    /\ IF ShareOf(c, i).work >= NetworkDifficulty
       THEN ShareGoes(c, i, "node") ELSE Go(c, Done(sess[c], i))
    /\ UNCHANGED <<heights, blocks, live, logs>>

(* The miner has its reply: is it a block? *)
EndReply(c, i) ==
    /\ Resume(c, i, "replied")
    /\ ShareGoes(c, i, IF ShareOf(c, i).work >= NetworkDifficulty
                       THEN "node" ELSE "record")
    /\ UNCHANGED <<heights, blocks, live, logs>>

(* SUBMIT_BLOCK; it never throws. *)
SubmitBlock(c, i) ==
    /\ Task(c, i, "node")
    /\ submitted' = submitted \cup {ShareOf(c, i)}
    /\ ShareGoes(c, i, "save")
    /\ UNCHANGED <<heights, blocks, live, recorded, dropped, finalized>>

(* Mutant: the latest template's snapshot is finalized. *)
SaveBlockOfLatest(c, i) ==
    /\ Task(c, i, "save")
    /\ finalized' = IF sess[c].mode = "pplns"
          THEN finalized \cup {<<Latest, HeightOf(ShareOf(c, i))>>}
          ELSE finalized
    /\ ShareGoes(c, i, "books")
    /\ UNCHANGED <<heights, blocks, live, recorded, dropped, submitted>>

(* blocksService.save, and the call of finalizeSnapshotForBlock. *)
SaveBlock(c, i) ==
    /\ Task(c, i, "save")
    /\ finalized' = IF sess[c].mode = "pplns"
          THEN finalized \cup {<<ShareOf(c, i).job.template, HeightOf(ShareOf(c, i))>>}
          ELSE finalized
    /\ ShareGoes(c, i, "books")
    /\ UNCHANGED <<heights, blocks, live, recorded, dropped, submitted>>

(* finalizeSnapshotForBlock, the notification and the reset have returned. *)
EndBooks(c, i) ==
    /\ Task(c, i, "books")
    /\ ShareGoes(c, i, "record")
    /\ UNCHANGED <<heights, blocks, live, logs>>

(* recordAcceptedShare, once the rows are there; the credit is the session's *)
(* difficulty now, the identity the job's.  persistClientHashRate follows    *)
(* unless it ran less than a minute ago.                                     *)
Record(c, i) ==
    LET s == sess[c]
    IN  /\ Task(c, i, "record")
        /\ s.row[Own] = "have"
        /\ ShareOf(c, i).job.pay \in Identities =>
              s.row[ShareOf(c, i).job.pay] # "inserting"
        /\ recorded' = Append(recorded, [share |-> ShareOf(c, i),
                                         to |-> ShareOf(c, i).job.pay,
                                         credited |-> s.diff])
        /\ \/ Go(c, Done(s, i))
           \/ Go(c, Wait(Done(s, i), [at |-> "touch", row |-> Own]))
        /\ UNCHANGED <<heights, blocks, live, dropped, submitted, finalized>>

(* The queue is full or the insert fails: logged.  The own row failed: the   *)
(* connection is ended.                                                      *)
RecordFails(c, i) ==
    /\ Task(c, i, "record")
    /\ sess[c].row[Own] \in {"have", "failed"}
    /\ Go(c, IF sess[c].row[Own] = "have" THEN Done(sess[c], i)
             ELSE Ended(Done(sess[c], i)))
    /\ dropped' = dropped \cup {ShareOf(c, i)}
    /\ UNCHANGED <<heights, blocks, live, recorded, submitted, finalized>>

-----------------------------------------------------------------------------
(* Templates, the timer, and the end of a connection. *)

(* Mutant: every template clears the duplicates. *)
OnTemplateClears(c, s, template, clear) ==
    IF ~s.stream THEN s
    ELSE SendJob(c, [s EXCEPT !.hashes = {}], template)

(* The subscriber of newMiningJob$; a new block clears the duplicates.       *)
OnTemplate(c, s, template, clear) ==
    IF ~s.stream THEN s
    ELSE SendJob(c, [s EXCEPT !.hashes = IF clear THEN {} ELSE @], template)

(* newMiningJob$ emits.  clear is clearJobs, which says whether the mining   *)
(* info is of another block than last time, whatever the template itself     *)
(* builds on.  It empties the registry; else templates and jobs older than   *)
(* five minutes go, here those up to some template, with the jobs made no    *)
(* later than the next one.                                                  *)
EmitTemplate(height, clear, old) ==
    LET template == Latest + 1
        Keep(s) == {j \in s.jobs : ~clear /\ j.template > old}
    IN  /\ Latest < MaxTemplates
        /\ clear => old = 0
        /\ heights' = Append(heights, height)
        /\ blocks' = {t \in blocks : ~clear /\ t > old} \cup {template}
        /\ sess' = [c \in Conns |->
              OnTemplate(c, [sess[c] EXCEPT !.jobs = Keep(sess[c])],
                         template, clear)]
        /\ UNCHANGED <<live, logs>>

(* What the statistics ask for, not below the miner's own suggestion. *)
Retarget(c, d) == Max({Clamp(d), sess[c].suggested})

(* checkDifficulty, when it finds another difficulty. *)
CheckDifficulty(c) ==
    LET s == sess[c]
    IN  /\ s.stream
        /\ s.retargets < MaxRetargets
        /\ \E d \in Difficulties :
              /\ Retarget(c, d) # s.diff
              /\ Go(c, SendJob(c, [s EXCEPT !.diff = Retarget(c, d),
                                            !.told = Retarget(c, d),
                                            !.retargets = @ + 1], Latest))
        /\ UNCHANGED <<heights, blocks, live, logs>>

(* The peer closes, an error occurs, or the ended socket is torn down. *)
LoseSocket(c) ==
    /\ sess[c].socket # "destroyed"
    /\ Go(c, [sess[c] EXCEPT !.socket = "destroyed"])
    /\ UNCHANGED <<heights, blocks, live, logs>>

(* The close event reaches the client. *)
OnClose(c) ==
    /\ sess[c].socket = "destroyed"
    /\ sess[c].destroy = "no"
    /\ Go(c, Destroyed(sess[c]))
    /\ UNCHANGED <<heights, blocks, live, logs>>

(* Mutant: the rows of the other identities are not waited for. *)
NothingInserting(s) == TRUE

(* Promise.all of the virtual rows' inserts. *)
PresencesSettled(s) == \A k \in Identities : s.row[k] # "inserting"

(* The rest of destroy(): soft-delete the rows the session knows, some of    *)
(* which may fail.                                                           *)
EndDestroy(c) ==
    LET s == sess[c]
        ids == {k \in RowKeys : s.row[k] = "have"}
    IN  /\ s.destroy = "started"
        /\ PresencesSettled(s)
        /\ \E gone \in {ids, {}} :
              /\ live' = [live EXCEPT ![c] = @ \ gone]
              /\ Go(c, [s EXCEPT !.destroy = "done",
                                 !.racing = @ \/ gone # ids])
        /\ UNCHANGED <<heights, blocks, logs>>

-----------------------------------------------------------------------------
Receive(c) ==
    \/ Subscribe(c)
    \/ SubscribeBlocked(c)
    \/ AnswerOnly(c)
    \/ \E identity \in Accounts, d \in Difficulties \cup {0} :
          Authorize(c, identity, d)
    \/ \E d \in Difficulties : Suggest(c, d)
    \/ \E identity \in Identities : SetPayout(c, identity)
    \/ BadLine(c)
    \/ BadSubmit(c)
    \/ Submit(c)

(* One step of task i; the database and bitcoind answer in any order. *)
Continue(c, i) ==
    \/ WriteFails(c, i)
    \/ EndHandler(c, i)
    \/ EndSuggest(c, i)
    \/ EndSetPayout(c, i)
    \/ EndInit(c, i)
    \/ TouchRow(c, i)
    \/ EndReply(c, i)
    \/ SubmitBlock(c, i)
    \/ SaveBlock(c, i)
    \/ EndBooks(c, i)
    \/ BookkeepingFails(c, i)
    \/ Record(c, i)
    \/ RecordFails(c, i)

AnyTask(c) == \E i \in DOMAIN sess[c].tasks : Continue(c, i)
AnyRow(c) ==
    \/ \E k \in RowKeys : InsertRow(c, k) \/ FailRow(c, k)
    \/ \E k \in Identities : Heartbeat(c, k)

Next ==
    \/ \E c \in Conns :
          \/ Receive(c)
          \/ AnyTask(c)
          \/ AnyRow(c)
          \/ CheckDifficulty(c)
          \/ LoseSocket(c)
          \/ OnClose(c)
          \/ EndDestroy(c)
    \/ \E height \in {heights[Latest], heights[Latest] + 1}, clear \in BOOLEAN,
          old \in 0..Latest : EmitTemplate(height, clear, old)

Spec == Init /\ [][Next]_vars

-----------------------------------------------------------------------------
JobType == [conn : Conns, n : Nat, template : 1..MaxTemplates,
            pay : {PaysTo(mode, identity) :
                       mode \in PayoutModes, identity \in Identities}]

ShareType == [conn : Conns, job : JobType, work : Work]

TaskOK(task) ==
    \/ task.at \in {"handled", "suggest", "payout", "init"}
    \/ task.at = "touch" /\ task.row \in RowKeys
    \/ /\ task.at \in {"replied", "node", "save", "books", "record"}
       /\ task.share \in ShareType

(* Types of the variables; what a task carries fits the place it waits at,   *)
(* and a job in the registry belongs to the session that made it.            *)
TypeOK ==
    /\ \A c \in Conns :
          LET s == sess[c]
          IN  /\ s.socket \in {"open", "ended", "destroyed"}
              /\ s.destroy \in {"no", "started", "done"}
              /\ {s.auth, s.pay} \subseteq RowKeys
              /\ {s.diff, s.suggested, s.told, s.made} \subseteq Nat
              /\ s.row \in [RowKeys -> {"none", "inserting", "have", "failed"}]
              /\ s.beats \in [Identities -> Nat]
              /\ s.jobs \subseteq {j \in JobType : j.conn = c /\ j.n <= s.made}
              /\ \A i \in DOMAIN s.tasks : TaskOK(s.tasks[i])
              /\ \A i \in DOMAIN s.waits : s.waits[i] \in 1..Latest
              /\ live[c] \subseteq RowKeys
    /\ blocks \subseteq 1..Latest
    /\ submitted \cup dropped \subseteq ShareType

(* Nothing of connection c is under way. *)
Quiet(c) ==
    /\ sess[c].tasks = <<>>
    /\ \A k \in RowKeys : sess[c].row[k] # "inserting"
    /\ \A k \in Identities : sess[c].beats[k] = 0

(* The handshake is over, and nothing has gone wrong. *)
Serving(c) ==
    /\ Quiet(c)
    /\ sess[c].subscribed
    /\ sess[c].auth # NoIdentity
    /\ sess[c].socket = "open"

(* No submission is credited twice, although the duplicates are forgotten    *)
(* with every new block and jobs outlive the templates they were made from   *)
(* (miningSubmissionHashes against the registry).                            *)
CreditedOnce ==
    \A a, b \in DOMAIN recorded : a # b => recorded[a].share # recorded[b].share

(* However subscribe, authorize, set_payout, templates and the row's insert  *)
(* overlap, a miner that is served works for the identity it asked for last, *)
(* on the last template; only a second authorize waits for the next job.     *)
WorkIsCurrent ==
    \A c \in Conns : Serving(c) =>
        /\ sess[c].work # <<>>
        /\ Last(sess[c].work).template = Latest
        /\ sess[c].late \/ Last(sess[c].work).pay = PaysTo(sess[c].mode, sess[c].pay)

(* A miner that is served knows the difficulty its shares are judged by, and *)
(* that is never below what it suggested; a second authorize may raise it    *)
(* unannounced.                                                              *)
DifficultyIsKnown ==
    \A c \in Conns : Serving(c) =>
        /\ sess[c].late \/ sess[c].told = sess[c].diff
        /\ sess[c].diff >= sess[c].suggested

(* The rows live and die with the connection: once destroy() has ended none  *)
(* is left, unless a write of the own row, a heartbeat or a submission was   *)
(* under way, a heartbeat chained on an insert that destroy() waits for      *)
(* included, or a delete failed.                                             *)
RowsDieWithConnection ==
    \A c \in Conns :
        sess[c].destroy = "done" /\ ~sess[c].racing => live[c] = {}

(* A block is finalized with the snapshot and height of the template it was  *)
(* worked on, and only after bitcoind has it, whatever template is current.  *)
FinalizedAsWorked ==
    \A f \in finalized :
        \E share \in submitted :
            /\ share.work >= NetworkDifficulty
            /\ f = <<share.job.template, HeightOf(share)>>

(* Every share the miner was told is accepted is recorded once nothing of    *)
(* its session is under way, unless a failure dropped it: a lost socket, a   *)
(* bookkeeping call of its block that threw, a full queue.                   *)
AcceptedIsRecorded ==
    \A c \in Conns : Quiet(c) =>
        \A share \in sess[c].accepted \ dropped :
            \E k \in DOMAIN recorded : recorded[k].share = share

(* A miner that is served has work, an identity and a difficulty that are    *)
(* current.                                                                  *)
ServedIsCurrent == WorkIsCurrent /\ DifficultyIsKnown

(* What a miner is told of its share or its block is what the pool books.    *)
AcceptedIsBooked == AcceptedIsRecorded /\ FinalizedAsWorked

(* The rows of a session, in one with the types of its variables.            *)
RowsInv == TypeOK /\ RowsDieWithConnection
=============================================================================
