--------------------------- MODULE StratumV2Session ---------------------------
(***************************************************************************)
(* The Stratum V2 mining sessions of one worker process: the handlers,     *)
(* timers and callbacks of src/src/models/StratumV2Client.ts, the extranonce *)
(* prefixes of src/src/models/sv2/sv2-extranonce-manager.ts, and the job   *)
(* registry of src/src/services/stratum-v1-jobs.service.ts.                *)
(*                                                                         *)
(* Handlers of different chunks overlap, as do the subscriber of templates *)
(* and the difficulty timer, which go through the channels with an await   *)
(* per frame.  A step is one run of a handler between two awaits.  Writes  *)
(* of a socket end in the order they were made ("writes"), calls of the    *)
(* database and the node in any order ("calls").  A write nothing follows, *)
(* an error reply say, leaves nothing behind.                              *)
(*                                                                         *)
(* A submission's nonce stands for how much work its hash shows, and the   *)
(* difficulty a hash rate and a maximum target come to is any of those     *)
(* given.  Best difficulties are left out, declared jobs are DeclaredWork.  *)
(***************************************************************************)
EXTENDS Integers, Sequences, SequencesExt, FiniteSets, FiniteSetsExt, Functions

CONSTANTS
    Conns,         \* connections
    OpeningDifficulties, \* difficulties channels are opened with, 0 if by none
    Difficulties,  \* difficulties asked for later, and computed
    Work,          \* how much work a submission shows
    StartDifficulty, MinDifficulty, NetworkDifficulty,
    PayoutModes,   \* of the ports: "solo", "pplns"
    MaxPrefix,     \* the allocator's last prefix
    HashLimit,     \* submissions a channel remembers, 10000
    MaxMessages,   \* bound: messages, and ticks that change the difficulty,
                   \* of a connection once set up
    MaxTemplates,  \* bound: templates emitted
    Heights        \* bound: heights of templates, which are only compared

ASSUME StratumV2SessionAssumption ==
    /\ PayoutModes \subseteq {"solo", "pplns"}
    /\ Difficulties \cup (OpeningDifficulties \ {0}) \cup Work \subseteq Nat \ {0}
    /\ {StartDifficulty, MinDifficulty, NetworkDifficulty} \subseteq Nat \ {0}
    /\ {MaxPrefix, HashLimit, MaxTemplates} \subseteq Nat \ {0}

VARIABLES
    sess,        \* the StratumV2Client of each connection
    infos,       \* miningInfo.blocks at each template emitted, lastBlockHeight last
    heights,     \* the block each of them builds on, which may be another one
    clears,      \* those with clearJobs
    blocks,      \* templates the registry holds
    allocated,   \* allocatedPrefixes: <<channel id, prefix>>
    nextPrefix,
    nextChannel, \* channelIdCounter
    live,        \* connections with a client row that is not deleted
    recorded,    \* shares given to recordAcceptedShare
    dropped,     \* auxiliary: accepted shares a failure kept from recording
    submitted,   \* shares given to bitcoind as blocks
    finalized,   \* <<template, height>> given to finalizeSnapshotForBlock
    crashed      \* the process has ended for a rejection nobody handles

pool == <<allocated, nextPrefix, nextChannel>>
chain == <<infos, heights, clears, blocks>>
logs == <<recorded, dropped, submitted, finalized>>
vars == <<sess, chain, pool, live, logs, crashed>>

Latest == Len(infos)
LastBlock == infos[Latest]

(* A template, if it is one, came since the last one with clearJobs.         *)
OfBlock(template) == template # 0 /\ infos[template] = LastBlock

(* Its previous hash is the tip, as the latest template has it.              *)
OnTip(template) == template # 0 /\ heights[template] = heights[Latest]

(* Templates of two blocks were stored under the height of one.              *)
Misfiled == \E t \in 1..Latest : OfBlock(t) /\ ~OnTip(t)

(* Work on a template does not extend the tip.  While templates of two       *)
(* blocks are mixed the pool only knows which came since the last clearJobs. *)
Stale(template) == ~OfBlock(template) \/ (~OnTip(template) /\ ~Misfiled)

NewSession(mode) ==
    [mode |-> mode,          \* payoutMode
     handshake |-> "act1",   \* act1, answering, done
     socket |-> "open",      \* open, destroyed
     destroyed |-> FALSE,
     workSelection |-> FALSE,   \* workSelectionEnabled
     diff |-> StartDifficulty,  \* sessionDifficulty
     row |-> "none",         \* clientEntity: none, inserting, have, failed
     stream |-> FALSE,       \* stratumSubscription and the difficulty timer
     chans |-> <<>>,         \* channels: a function of the channel ids
     jobs |-> {},            \* its jobs in the registry
     made |-> 0,             \* jobs made, stands for the registry's counter
     openings |-> <<>>,      \* handlers that wait for the client row
     writes |-> <<>>,        \* handlers that wait for a write
     calls |-> <<>>,         \* handlers that wait for a call
     more |-> FALSE,         \* destroyed while a chunk's frames are handled
     msgs |-> 0,             \* counter for the bound
     accepted |-> {},        \* auxiliary: shares replied to as accepted
     stale |-> {},           \* auxiliary: those that did not extend the tip
     forgot |-> FALSE,       \* auxiliary: remembered submissions overflowed
     overtaken |-> FALSE,    \* auxiliary: a channel closed amid writes
     early |-> FALSE,        \* auxiliary: a block came before the subscription
     missed |-> FALSE,       \* auxiliary: its previous hash was not sent
     racing |-> FALSE]       \* auxiliary: destroyed with a handler under way

Init ==
    /\ \E mode \in [Conns -> PayoutModes] :
          sess = [c \in Conns |-> NewSession(mode[c])]
    /\ infos = <<1>>
    /\ \E height \in Heights : heights = <<height>>
    /\ clears = {1}
    /\ blocks = {1}
    /\ allocated = {}
    /\ nextPrefix = 1
    /\ nextChannel = 1
    /\ live = {}
    /\ recorded = <<>>
    /\ dropped = {}
    /\ submitted = {}
    /\ finalized = {}
    /\ crashed = FALSE

-----------------------------------------------------------------------------
(* What the methods do to a session s. *)

Open(s) == DOMAIN s.chans
Extended(s, ch) == s.chans[ch].type = "extended"
With(s, ch, chan) == [s EXCEPT !.chans[ch] = chan]

(* sendFrame(), after which task goes on; fails becomes true if the socket   *)
(* goes first, and nothing is written to a socket that is gone.              *)
Write(s, task) == [s EXCEPT !.writes = Append(@, [task |-> task, fails |-> FALSE])]

Call(s, at, share) == [s EXCEPT !.calls = Append(@, [at |-> at, share |-> share])]

(* Mutant: destroy() leaves the subscription to templates. *)
DestroyedSubscribed(s) ==
    IF s.destroyed THEN s
    ELSE LET t == [s EXCEPT !.destroyed = TRUE, !.chans = <<>>]
         IN  IF s.row = "have" THEN Call(t, "delete", 0) ELSE t

(* destroy(), up to the delete of the row the session knows.                 *)
Destroyed(s) ==
    IF s.destroyed THEN s
    ELSE LET t == [s EXCEPT !.destroyed = TRUE, !.stream = FALSE, !.chans = <<>>,
                            !.more = s.openings # <<>> \/ s.calls # <<>>,
                            !.racing = s.row = "inserting" \/ s.calls # <<>>]
         IN  IF s.row = "have" THEN Call(t, "delete", 0) ELSE t

(* The socket is gone: the writes under way fail. *)
Torn(s) ==
    [s EXCEPT !.socket = "destroyed",
              !.writes = [i \in DOMAIN @ |-> [@[i] EXCEPT !.fails = TRUE]]]

(* closeSocket(). *)
Closed(s) == Destroyed(IF s.socket = "open" THEN Torn(s) ELSE s)

(* The prefixes that stay allocated when session s becomes t: destroy() and  *)
(* handleCloseChannel give back those of the channels they remove.           *)
Released(s, t) == {a \in allocated : a[1] \notin Open(s) \ Open(t)}

(* Mutant: submissions are forgotten, but the jobs stay. *)
NewBlockKeepsJobs(chan) == [chan EXCEPT !.hashes = {}]

(* The channel's jobs and submissions when a new block arrives: jobs of an   *)
(* extended channel are retired, those retired before may go.                *)
NewBlock(chan) ==
    [chan EXCEPT !.held = IF chan.type = "extended"
                          THEN {[j EXCEPT !.retired = TRUE] : j \in @} ELSE {},
                 !.hashes = {}]

(* sendNewMiningJob and sendNewExtendedMiningJob of a template, with or      *)
(* without the previous hash; an extended channel learns of the job only     *)
(* when it is written.                                                       *)
SendJob(s, ch, template, prev, then) ==
    LET n == s.made + 1
        job == [n |-> n, template |-> template, diff |-> s.chans[ch].diff,
                on |-> template, current |-> template > Latest \/ infos[template] = LastBlock,
                retired |-> FALSE, custom |-> FALSE]
        chan == [s.chans[ch] EXCEPT !.sent = @ \cup {n},
                                    !.held = IF Extended(s, ch) THEN @ ELSE @ \cup {job},
                                    !.works = IF prev THEN @ ELSE template]
        t == [s EXCEPT !.made = n, !.jobs = @ \cup {[n |-> n, template |-> template]}]
        u == IF ch \in Open(s) THEN With(t, ch, chan) ELSE t
    IN  Write(u, [at |-> "job", ch |-> ch, n |-> n, template |-> template,
                  prev |-> prev, then |-> then])

(* The next channel of a loop over the map, after channel ch.                *)
Following(s, ch) == {d \in Open(s) : d > ch}

(* for (const channel of channels) await send...: from the one after ch.     *)
SendFrom(s, ch, template, prev, kind) ==
    IF Following(s, ch) = {} THEN s
    ELSE LET next == Min(Following(s, ch))
         IN  SendJob(s, next, template, prev, [kind |-> kind, after |-> next])

(* Mutant: every template forgets the submissions. *)
OnTemplateForgets(s, template, clear) ==
    SendFrom([s EXCEPT !.chans = [ch \in Open(s) |-> [s.chans[ch] EXCEPT !.hashes = {}]]],
             0, template, clear, "fan")

(* The subscriber of newMiningJob$. *)
OnTemplate(s, template, clear) ==
    LET t == IF clear
             THEN [s EXCEPT !.chans = [ch \in Open(s) |-> NewBlock(s.chans[ch])],
                            !.missed = FALSE]
             ELSE s
    IN  SendFrom(t, 0, template, clear, "fan")

(* Mutant: the latest template is not replayed. *)
SubscribedLater(s) == [s EXCEPT !.stream = TRUE]

(* subscribeToJobs, which replays the latest template, and the timer.        *)
Subscribed(s) ==
    IF s.stream THEN s
    ELSE OnTemplate([s EXCEPT !.stream = TRUE, !.missed = s.early], Latest, Latest \in clears)

(* clampDifficulty. *)
Clamp(d) == Max({d, MinDifficulty})

(* checkDifficulty: the channels after ch get their target, then new jobs.   *)
SetTargets(s, ch) ==
    IF Following(s, ch) = {} THEN SendFrom(s, 0, Latest, TRUE, "retarget")
    ELSE LET next == Min(Following(s, ch))
             chan == [s.chans[next] EXCEPT !.diff = s.diff, !.told = @ \cup {s.diff}]
         IN  Write(With(s, next, chan), [at |-> "target", ch |-> next])

(* A handler goes on after a job was sent. *)
Then(s, template, prev, then) ==
    CASE then.kind = "open"     -> IF then.first /\ ~s.workSelection
                                   THEN Subscribed(s) ELSE s
      [] then.kind = "fan"      -> SendFrom(s, then.after, template, prev, "fan")
      [] then.kind = "retarget" -> SendFrom(s, then.after, template, TRUE, "retarget")

-----------------------------------------------------------------------------
(* Session c becomes s; the channels it loses give back their prefixes.      *)
Go(c, s) ==
    /\ sess' = [sess EXCEPT ![c] = s]
    /\ allocated' = Released(sess[c], s)

SameLogs == UNCHANGED <<live, logs, crashed>>
Same == UNCHANGED <<chain, nextPrefix, nextChannel>> /\ SameLogs
SamePool == UNCHANGED <<chain, nextPrefix, nextChannel, crashed>>

(* A frame is handled.  The loop over the frames of a chunk does not look at *)
(* destroyed.                                                                *)
CanRead(c) ==
    /\ sess[c].handshake = "done"
    /\ sess[c].msgs < MaxMessages
    /\ sess[c].destroyed => sess[c].more

Read(s) == [s EXCEPT !.msgs = @ + 1, !.racing = @ \/ s.destroyed]

(* The session as it is while a frame of connection c is handled.            *)
Reading(c) == Read(sess[c])

Handle(c, s) == CanRead(c) /\ Go(c, s) /\ Same

(* handleHandshakeData: the first act is answered ... *)
Handshake(c) ==
    /\ sess[c].handshake = "act1"
    /\ ~sess[c].destroyed
    /\ Go(c, Write([sess[c] EXCEPT !.handshake = "answering"], [at |-> "act2"]))
    /\ Same

(* ... or it is none. *)
BadHandshake(c) ==
    /\ sess[c].handshake = "act1"
    /\ Go(c, Closed(sess[c]))
    /\ Same

(* SetupConnection, before there is a channel. *)
Setup(c) ==
    /\ sess[c].handshake = "done"
    /\ sess[c].msgs = 0 /\ ~sess[c].destroyed /\ ~sess[c].workSelection
    /\ Go(c, [sess[c] EXCEPT !.workSelection = TRUE])
    /\ Same

(* A frame that is not valid, a wrong version, an unknown user: closeSocket. *)
(* What is answered by an error or an empty list alone is no step.           *)
Refuse(c) == Handle(c, [Closed(Reading(c)) EXCEPT !.more = TRUE])

(* A channel is opened: its target and prefix are sent. *)
OpenSuccess(s, ch, first) ==
    LET chan == [s.chans[ch] EXCEPT !.told = @ \cup {s.chans[ch].diff}]
        t == IF ch \in Open(s) THEN With(s, ch, chan) ELSE s
    IN  Write(t, [at |-> "opened", ch |-> ch, first |-> first])

(* ensureClientEntity: one insert, whose promise every handler awaits.       *)
EnsureRow(s, ch, first) ==
    CASE s.row = "have"   -> OpenSuccess(s, ch, first)
      [] s.row = "failed" -> Closed(s)
      [] OTHER -> [s EXCEPT !.row = "inserting",
                            !.openings = Append(@, [ch |-> ch, first |-> first])]

NewChannel(type, d) ==
    [type |-> type,     \* channelType
     diff |-> d,        \* sessionDifficulty
     held |-> {},       \* jobIdToDifficulty, jobIdToMerkleRoot, extendedJobs
     on |-> 0,          \* latestExtendedPrevHash, as the template it is of
     hashes |-> {},     \* miningSubmissionHashes
     told |-> {},       \* on the wire: difficulties told
     sent |-> {},       \* on the wire: jobs sent
     works |-> 0,       \* on the wire: the template worked on
     prev |-> 0]        \* on the wire: the template the previous hash is of

(* Both handlers of Open...MiningChannel, once the channel is there.         *)
WithChannel(s, type, d) ==
    LET diff == Clamp(IF d = 0 THEN s.diff ELSE d)
        t == [s EXCEPT !.diff = diff,
                       !.chans = [ch \in Open(s) \cup {nextChannel} |->
                           IF ch = nextChannel THEN NewChannel(type, diff) ELSE @[ch]]]
    IN  EnsureRow(t, nextChannel, Open(s) = {})

OpenStandard(c, d) ==
    /\ CanRead(c)
    /\ Go(c, WithChannel(Reading(c), "standard", d))
    /\ nextChannel' = nextChannel + 1
    /\ UNCHANGED <<chain, nextPrefix>> /\ SameLogs

Used(prefix) == \E a \in allocated : a[2] = prefix

(* allocate(): the first free prefix from nextPrefix on, past the last one 1. *)
NextFree ==
    LET Distance(p) == (p - nextPrefix) % MaxPrefix
        free == {p \in 1..MaxPrefix : ~Used(p)}
    IN  CHOOSE p \in free : \A q \in free : Distance(p) <= Distance(q)

OpenExtended(c, d) ==
    /\ CanRead(c)
    /\ \E p \in 1..MaxPrefix : ~Used(p)
    /\ LET s == WithChannel(Reading(c), "extended", d)
       IN  /\ sess' = [sess EXCEPT ![c] = s]
           /\ allocated' = Released(sess[c], s) \cup {<<nextChannel, NextFree>>}
    /\ nextPrefix' = (NextFree % MaxPrefix) + 1
    /\ nextChannel' = nextChannel + 1
    /\ UNCHANGED chain /\ SameLogs

(* min-extranonce-size-too-large: the prefix is given back at once.          *)
OpenTooLarge(c) ==
    /\ CanRead(c)
    /\ \E p \in 1..MaxPrefix : ~Used(p)
    /\ Go(c, Reading(c))
    /\ nextPrefix' = (NextFree % MaxPrefix) + 1
    /\ nextChannel' = nextChannel + 1
    /\ UNCHANGED chain /\ SameLogs

(* No prefix is left: an exception. *)
OpenExhausted(c) ==
    /\ CanRead(c)
    /\ \A p \in 1..MaxPrefix : Used(p)
    /\ Go(c, Closed(Reading(c)))
    /\ nextChannel' = nextChannel + 1
    /\ UNCHANGED <<chain, nextPrefix>> /\ SameLogs

(* UpdateChannel with a hash rate. *)
UpdateChannel(c, ch, d) ==
    LET s == Reading(c)
    IN  Handle(c, With(s, ch, [s.chans[ch] EXCEPT !.diff = Clamp(d),
                                                  !.told = @ \cup {Clamp(d)}]))

(* CloseChannel; with the last channel the socket is closed. *)
CloseChannel(c, ch) ==
    LET s == [Reading(c) EXCEPT !.chans = Restrict(@, Open(sess[c]) \ {ch}),
                                !.overtaken = @ \/ sess[c].writes # <<>>]
    IN  Handle(c, IF Open(s) = {} THEN [Closed(s) EXCEPT !.more = TRUE] ELSE s)

(* SetCustomMiningJob of a job that was declared and pays the outputs.       *)
SetCustomJob(c, ch) ==
    LET s == Reading(c)
        n == s.made + 1
        job == [n |-> n, template |-> Latest, diff |-> s.chans[ch].diff,
                on |-> Latest, current |-> TRUE,
                retired |-> FALSE, custom |-> TRUE]
        chan == [s.chans[ch] EXCEPT !.held = @ \cup {job}, !.sent = @ \cup {n}]
    IN  /\ s.workSelection /\ Extended(s, ch)
        /\ Handle(c, [With(s, ch, chan) EXCEPT
                         !.made = n, !.jobs = @ \cup {[n |-> n, template |-> Latest]}])

(* A submission is remembered; too many, and all are forgotten. *)
Remember(s, ch, key) ==
    LET hashes == s.chans[ch].hashes \cup {key}
        full == Cardinality(hashes) > HashLimit
        chan == [s.chans[ch] EXCEPT !.hashes = IF full THEN {} ELSE hashes]
    IN  [With(s, ch, chan) EXCEPT !.forgot = @ \/ full]

(* The job of number n, if the channel and, for a standard one, the registry *)
(* still hold it.                                                            *)
Found(s, ch, n) ==
    {j \in s.chans[ch].held :
        /\ j.n = n
        /\ IF Extended(s, ch) THEN ~j.retired
           ELSE [n |-> n, template |-> j.template] \in s.jobs /\ j.template \in blocks}

(* SubmitSharesStandard and SubmitSharesExtended. *)
Submit(c, ch) ==
    \E n \in sess[c].chans[ch].sent, work \in Work :
        LET s == Reading(c)
            t == Remember(s, ch, <<n, work>>)
        IN  IF <<n, work>> \in s.chans[ch].hashes THEN Handle(c, s)
            ELSE IF \A j \in Found(s, ch, n) : work < j.diff THEN Handle(c, t)
            ELSE \E j \in Found(s, ch, n) :
                    LET share == [conn |-> c, job |-> j, work |-> work]
                    IN  Handle(c, Write(
                          [t EXCEPT !.accepted = @ \cup {share},
                                    !.stale = @ \cup {x \in {share} : Stale(j.on)}],
                          [at |-> "replied", share |-> share]))

-----------------------------------------------------------------------------
(* A write of session c ends, the first if the socket is there.              *)

Done(s, i) == [s EXCEPT !.writes = RemoveAt(@, i)]

(* The frames checkDifficulty sends. *)
OfTimer(task) ==
    task.at = "target" \/ (task.at \in {"job", "active"} /\ task.then.kind = "retarget")

(* It fails: an exception closes the socket, but nobody handles the timer's. *)
WriteFails(c, i) ==
    LET task == sess[c].writes[i].task
    IN  /\ sess[c].writes[i].fails
        /\ Go(c, Closed(Done(sess[c], i)))
        /\ crashed' = OfTimer(task)
        /\ dropped' = IF task.at = "replied" THEN dropped \cup {task.share} ELSE dropped
        /\ UNCHANGED <<chain, nextPrefix, nextChannel, live, recorded, submitted, finalized>>

(* Once written, an extended channel's job is one the pool knows.  Without a *)
(* previous hash of its own it builds on the one the channel has.            *)
Recorded(s, task) ==
    IF task.ch \notin Open(s) \/ ~Extended(s, task.ch) THEN s
    ELSE LET on == IF task.prev THEN task.template ELSE s.chans[task.ch].on
             job == [n |-> task.n, template |-> task.template, on |-> on,
                     diff |-> s.chans[task.ch].diff, current |-> s.stream /\ OfBlock(on),
                     retired |-> FALSE, custom |-> FALSE]
         IN  With(s, task.ch, [s.chans[task.ch] EXCEPT !.held = @ \cup {job}, !.on = on])

(* SetNewPrevHash makes the job the one worked on. *)
Activated(s, task) ==
    LET chan == [s.chans[task.ch] EXCEPT !.works = task.template, !.prev = task.template]
    IN  Write(IF task.ch \in Open(s) THEN With(s, task.ch, chan) ELSE s,
              [task EXCEPT !.at = "active"])

(* What follows the write of task. *)
After(s, task) ==
    CASE task.at = "act2"   -> [s EXCEPT !.handshake = "done"]
      [] task.at = "opened" ->
            IF s.workSelection THEN s
            ELSE SendJob(s, task.ch, Latest, TRUE,
                         [kind |-> "open", first |-> task.first])
      [] task.at = "job"    ->
            LET t == Recorded(s, task)
            IN  IF task.prev THEN Activated(t, task)
                ELSE Then(t, task.template, task.prev, task.then)
      [] task.at = "active" -> Then(s, task.template, task.prev, task.then)
      [] task.at = "target" -> SetTargets(s, task.ch)
      [] task.at = "replied" ->
            Call(s, IF task.share.work >= NetworkDifficulty /\ ~task.share.job.custom
                    THEN "node" ELSE "record", task.share)

WriteEnds(c, i) ==
    /\ ~sess[c].writes[i].fails
    /\ i = 1 \/ sess[c].socket = "destroyed"
    /\ Go(c, After(Done(sess[c], i), sess[c].writes[i].task))
    /\ Same

-----------------------------------------------------------------------------
(* A call of session c ends.                                                 *)

Called(c, i, at) == i \in DOMAIN sess[c].calls /\ sess[c].calls[i].at = at
ShareOf(c, i) == sess[c].calls[i].share
Finished(s, i) == [s EXCEPT !.calls = RemoveAt(@, i)]
CallGoes(s, i, at) == [s EXCEPT !.calls[i].at = at]
HeightOf(share) == heights[share.job.template]

(* The openings go on, in order. *)
OpenAll(s) ==
    LET Told(ch) == IF \E o \in Range(s.openings) : o.ch = ch
                    THEN s.chans[ch].told \cup {s.chans[ch].diff} ELSE s.chans[ch].told
        opened == [k \in DOMAIN s.openings |->
                      [task |-> [at |-> "opened", ch |-> s.openings[k].ch,
                                 first |-> s.openings[k].first],
                       fails |-> FALSE]]
    IN  [s EXCEPT !.chans = [ch \in Open(s) |-> [@[ch] EXCEPT !.told = Told(ch)]],
                  !.writes = @ \o opened,
                  !.openings = <<>>]

(* The client row is inserted ... *)
InsertRow(c) ==
    /\ sess[c].row = "inserting"
    /\ Go(c, OpenAll([sess[c] EXCEPT !.row = "have"]))
    /\ live' = live \cup {c}
    /\ SamePool /\ UNCHANGED logs

(* ... or it is not, now and for ever. *)
FailRow(c) ==
    /\ sess[c].row = "inserting"
    /\ Go(c, Closed([sess[c] EXCEPT !.row = "failed", !.openings = <<>>]))
    /\ Same

(* SUBMIT_BLOCK; it never throws. *)
SubmitBlock(c, i) ==
    /\ Called(c, i, "node")
    /\ Go(c, CallGoes(sess[c], i, "save"))
    /\ submitted' = submitted \cup {ShareOf(c, i)}
    /\ SamePool /\ UNCHANGED <<live, recorded, dropped, finalized>>

(* Mutant: a share that makes a block is not recorded as a share. *)
SaveBlockOnly(c, i) ==
    /\ Called(c, i, "save")
    /\ Go(c, Finished(sess[c], i))
    /\ finalized' = IF sess[c].mode = "pplns"
          THEN finalized \cup {<<ShareOf(c, i).job.template, HeightOf(ShareOf(c, i))>>}
          ELSE finalized
    /\ SamePool /\ UNCHANGED <<live, recorded, dropped, submitted>>

(* blocksService.save, and the call of finalizeSnapshotForBlock. *)
SaveBlock(c, i) ==
    /\ Called(c, i, "save")
    /\ Go(c, CallGoes(sess[c], i, "record"))
    /\ finalized' = IF sess[c].mode = "pplns"
          THEN finalized \cup {<<ShareOf(c, i).job.template, HeightOf(ShareOf(c, i))>>}
          ELSE finalized
    /\ SamePool /\ UNCHANGED <<live, recorded, dropped, submitted>>

(* The bookkeeping of a block or recordAcceptedShare throws. *)
CallFails(c, i) ==
    /\ Called(c, i, "save") \/ Called(c, i, "record")
    /\ Go(c, Closed(Finished(sess[c], i)))
    /\ dropped' = dropped \cup {ShareOf(c, i)}
    /\ SamePool /\ UNCHANGED <<live, recorded, submitted, finalized>>

(* recordAcceptedShare; persistClientHashRate follows unless it ran less     *)
(* than a minute ago.                                                        *)
Record(c, i) ==
    /\ Called(c, i, "record")
    /\ \/ Go(c, Finished(sess[c], i))
       \/ Go(c, CallGoes(sess[c], i, "touch"))
    /\ recorded' = Append(recorded, ShareOf(c, i))
    /\ SamePool /\ UNCHANGED <<live, dropped, submitted, finalized>>

(* updateHashRate, which clears deletedAt. *)
TouchRow(c, i) ==
    /\ Called(c, i, "touch")
    /\ Go(c, Finished(sess[c], i))
    /\ live' = live \cup {c}
    /\ SamePool /\ UNCHANGED logs

(* The delete of destroy(). *)
DeleteRow(c, i) ==
    /\ Called(c, i, "delete")
    /\ Go(c, Finished(sess[c], i))
    /\ live' = live \ {c}
    /\ SamePool /\ UNCHANGED logs

-----------------------------------------------------------------------------
(* newMiningJob$ emits.  clearJobs says that the mining info is of another   *)
(* block than last time, whatever the template itself builds on, and empties *)
(* the registry; else templates and jobs older than five minutes go, here    *)
(* those up to some template.                                                *)
EmitTemplate(info, height, old) ==
    LET template == Latest + 1
        clear == info # LastBlock
        Keep(s) == {j \in s.jobs : ~clear /\ j.template > old}
        New(s) == [s EXCEPT !.jobs = Keep(s),
                            !.early = @ \/ (clear /\ ~s.stream /\ Open(s) # {})]
    IN  /\ Latest < MaxTemplates
        /\ \E c \in Conns : ~sess[c].destroyed  \* bound
        /\ clear => old = 0
        /\ infos' = Append(infos, info)
        /\ heights' = Append(heights, height)
        /\ clears' = IF clear THEN clears \cup {template} ELSE clears
        /\ blocks' = {t \in blocks : ~clear /\ t > old} \cup {template}
        /\ sess' = [c \in Conns |->
              IF sess[c].stream THEN OnTemplate(New(sess[c]), template, clear)
              ELSE New(sess[c])]
        /\ UNCHANGED <<pool, live, logs, crashed>>

(* checkDifficulty, when it finds another difficulty. *)
CheckDifficulty(c, d) ==
    LET s == sess[c]
    IN  /\ s.stream
        /\ s.msgs < MaxMessages
        /\ Clamp(d) # s.diff
        /\ Go(c, SetTargets([s EXCEPT !.diff = Clamp(d), !.msgs = @ + 1], 0))
        /\ Same

(* The peer closes, an error occurs, or the idle timer fires. *)
LoseSocket(c) ==
    /\ sess[c].socket = "open"
    /\ Go(c, Torn(sess[c]))
    /\ Same

(* The close event reaches the client. *)
OnClose(c) ==
    /\ sess[c].socket = "destroyed"
    /\ ~sess[c].destroyed
    /\ Go(c, Destroyed(sess[c]))
    /\ Same

-----------------------------------------------------------------------------
Receive(c) ==
    \/ Handshake(c)
    \/ BadHandshake(c)
    \/ Setup(c)
    \/ Refuse(c)
    \/ \E d \in OpeningDifficulties : OpenStandard(c, d) \/ OpenExtended(c, d)
    \/ OpenTooLarge(c)
    \/ OpenExhausted(c)
    \/ \E ch \in {ch \in Open(sess[c]) : sess[c].chans[ch].told # {}} :
          \/ \E d \in Difficulties : UpdateChannel(c, ch, d)
          \/ CloseChannel(c, ch)
          \/ SetCustomJob(c, ch)
          \/ Submit(c, ch)

Continue(c, i) ==
    \/ SubmitBlock(c, i)
    \/ SaveBlock(c, i)
    \/ CallFails(c, i)
    \/ Record(c, i)
    \/ TouchRow(c, i)
    \/ DeleteRow(c, i)

(* What follows a write to a socket that is gone does not wait. *)
Unwritten(c) ==
    {i \in DOMAIN sess[c].writes : sess[c].socket = "destroyed" /\ ~sess[c].writes[i].fails}

AnyWrite(c) == \E i \in DOMAIN sess[c].writes : WriteEnds(c, i) \/ WriteFails(c, i)
AnyCall(c) == \E i \in DOMAIN sess[c].calls : Continue(c, i)

Session(c) ==
    \/ Receive(c)
    \/ AnyWrite(c)
    \/ AnyCall(c)
    \/ InsertRow(c)
    \/ FailRow(c)
    \/ \E d \in Difficulties : CheckDifficulty(c, d)
    \/ LoseSocket(c)
    \/ OnClose(c)

Next ==
    /\ ~crashed
    /\ \/ \E c \in Conns : \E i \in Unwritten(c) : WriteEnds(c, i)
       \/ /\ \A c \in Conns : Unwritten(c) = {}
          /\ \/ \E c \in Conns : Session(c)
             \/ \E info \in {LastBlock, LastBlock + 1}, height \in Heights, old \in 0..Latest :
                   EmitTemplate(info, height, old)

Spec == Init /\ [][Next]_vars

-----------------------------------------------------------------------------
JobType == [n : Nat \ {0}, template : 1..MaxTemplates, on : 0..MaxTemplates, diff : Nat,
            current : BOOLEAN, retired : BOOLEAN, custom : BOOLEAN]
ShareType == [conn : Conns, job : JobType, work : Work]

(* Types of the variables; what waits for a write or a call carries what it  *)
(* needs, and only an extended channel has jobs that are retired or custom.  *)
TypeOK ==
    /\ \A c \in Conns :
          LET s == sess[c]
          IN  /\ s.handshake \in {"act1", "answering", "done"}
              /\ s.socket \in {"open", "destroyed"}
              /\ s.row \in {"none", "inserting", "have", "failed"}
              /\ Open(s) \subseteq 1..(nextChannel - 1)
              /\ \A ch \in Open(s) :
                    /\ s.chans[ch].held \subseteq JobType
                    /\ \A j \in s.chans[ch].held : j.retired \/ j.custom => Extended(s, ch)
              /\ \A i \in DOMAIN s.writes :
                    LET task == s.writes[i].task
                    IN  /\ task.at \in {"act2", "opened", "job", "active", "target", "replied"}
                        /\ task.at = "replied" => task.share \in ShareType
                        /\ task.at \in {"job", "active"} => task.template \in 1..Latest
              /\ \A i \in DOMAIN s.calls :
                    s.calls[i].at = "delete" \/ s.calls[i].share \in ShareType
    /\ allocated \subseteq (1..(nextChannel - 1)) \X (1..MaxPrefix)
    /\ submitted \cup dropped \subseteq ShareType

Quiet(c) ==
    sess[c].openings = <<>> /\ sess[c].writes = <<>> /\ sess[c].calls = <<>>

(* No submission is credited twice, although those remembered are forgotten  *)
(* with every block while jobs may be recorded late; only a channel that had *)
(* more submissions than it remembers is not safe (miningSubmissionHashes).  *)
CreditedOnce ==
    \A a, b \in DOMAIN recorded :
        a # b /\ recorded[a] = recorded[b] => sess[recorded[a].conn].forgot

(* Whatever the order in which the subscriber, the timer and the opening of  *)
(* a channel go through the channels, a miner at rest works on the tip on    *)
(* every channel, as the writes of a socket keep their order; or, while      *)
(* templates of two blocks are mixed, on one that came since the last        *)
(* clearJobs, with the previous hash of such a one: the new block's own need *)
(* not be sent.  Unless a channel was closed while its loops were at it:     *)
(* those that come after it are then reached by a later loop before an       *)
(* earlier one; or a block came after a channel's first job and before the   *)
(* subscription, which replays a later template without its previous hash.   *)
WorksOnTip ==
    \A c \in Conns : Quiet(c) /\ sess[c].stream /\ ~sess[c].overtaken /\ ~sess[c].missed =>
        \A ch \in Open(sess[c]) :
            ~Stale(sess[c].chans[ch].works) /\ ~Stale(sess[c].chans[ch].prev)

(* Work that does not extend the tip is accepted only from a job that was    *)
(* still being sent when the block arrived, from one sent before the session *)
(* subscribed to templates, or from a custom job, which nothing retires.     *)
(* Where templates of two blocks are mixed, stale means older than the last  *)
(* clearJobs: the code retires nothing else.                                 *)
StaleIsRefused ==
    \A c \in Conns : \A share \in sess[c].stale :
        share.job.custom \/ ~share.job.current

(* A job's difficulty is one the miner had been told.                        *)
DifficultyWasTold ==
    \A c \in Conns : \A ch \in Open(sess[c]) :
        \A j \in sess[c].chans[ch].held : j.diff \in sess[c].chans[ch].told

(* No two channels search the same extranonces; each open extended channel   *)
(* holds a prefix, and a prefix is held for an open channel only, unless the *)
(* connection was destroyed with handlers under way.                         *)
PrefixesDiffer ==
    /\ \A a, b \in allocated : a # b => a[1] # b[1] /\ a[2] # b[2]
    /\ LET extended == UNION {{ch \in Open(sess[c]) : Extended(sess[c], ch)} : c \in Conns}
           held == {a[1] : a \in allocated}
       IN  /\ extended \subseteq held
           /\ held # extended => \E c \in Conns : sess[c].racing

(* Nothing of a session is left when it has ended, a row, a subscription or  *)
(* a prefix, unless handlers were under way when it was destroyed.           *)
NothingIsLeft ==
    \A c \in Conns : sess[c].destroyed /\ Quiet(c) /\ ~sess[c].racing =>
        /\ c \notin live
        /\ ~sess[c].stream
        /\ Open(sess[c]) = {}

(* Every share the miner was told is accepted is recorded once nothing of    *)
(* its session is under way, unless a failure dropped it; if it makes a      *)
(* block of the pool's, the node and the books got it first.                 *)
AcceptedIsRecorded ==
    /\ \A c \in Conns : Quiet(c) => sess[c].accepted \ dropped \subseteq Range(recorded)
    /\ \A k \in DOMAIN recorded :
          LET share == recorded[k]
          IN  share.work >= NetworkDifficulty /\ ~share.job.custom =>
                  /\ share \in submitted
                  /\ sess[share.conn].mode = "pplns" =>
                        <<share.job.template, HeightOf(share)>> \in finalized

(* What a channel works on is the tip, at a difficulty it was told.          *)
ChannelsAreCurrent == WorksOnTip /\ DifficultyWasTold

(* What a session holds is its own while it lives and gone when it ended.    *)
HoldingsInv == TypeOK /\ PrefixesDiffer /\ NothingIsLeft
=============================================================================
