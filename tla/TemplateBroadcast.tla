--------------------------- MODULE TemplateBroadcast ---------------------------
(***************************************************************************)
(* How a block template reaches the stratum workers.  The master asks the  *)
(* node for templates in two concurrent loops, one driven by ZMQ's block   *)
(* notifications and one by a 60 s interval, stores each in Postgres and   *)
(* Redis and publishes its mining info (bitcoin-rpc.service.ts, redis-     *)
(* messaging.service.ts).  Every worker reacts to a published message by   *)
(* loading the template of that height and registering it as work          *)
(* (stratum-v1-jobs.service.ts).  Each await is a step of its own.         *)
(*                                                                         *)
(* A template is known by the height of the block it builds on; the chain  *)
(* does not reorganize.                                                    *)
(***************************************************************************)
EXTENDS Integers, Sequences, FiniteSets

CONSTANTS
    Workers,
    None,      \* no mining info, no template
    Budget,    \* how many faults of each kind happen
    MaxTip,    \* bound on the chain
    MaxQueue   \* bound on messages, and on loads, a worker has waiting

Faults == {"rpc", "zmq", "link", "redis", "restart"}

ASSUME TemplateBroadcastAssumption ==
    /\ Budget \in [Faults -> Nat]
    /\ MaxTip \in Nat /\ MaxQueue \in Nat \ {0}
    /\ None \notin Nat

VARIABLES
    tip,      \* the node's chain height
    notices,  \* ZMQ notifications the master has not taken yet
    info,     \* miningInfo.blocks of the master
    task,     \* getAndBroadcastLatestTemplate in each loop
    saved,    \* rpc_block: height -> template
    redis,    \* Redis' keys
    channel,  \* messages of mining-info.updated on their way to each worker
    worker,   \* the workers' processes
    missed,   \* auxiliary: the last message published did not reach the worker
    faults    \* how many faults of each kind have happened

broadcastVars == <<tip, notices, info, task, saved, redis, channel, worker, missed, faults>>

Refreshers == {"zmq", "interval"}

IdleTask == [step |-> "idle", height |-> None, base |-> None]

NoRedis == [info |-> None, templates |-> <<>>, latest |-> None]

(* lastBlockHeight, the templates of blocks, and the one emitted last, with  *)
(* where it came from. *)
FreshWorker == [step |-> "up", info |-> None, loads |-> <<>>, db |-> {},
                last |-> None, blocks |-> {}, current |-> None, source |-> None]

(* Another entry of a map. *)
With(map, key, value) ==
    [k \in DOMAIN map \cup {key} |-> IF k = key THEN value ELSE map[k]]

BroadcastInit ==
    /\ tip = 0
    /\ notices = 0
    /\ info = 0
    /\ task = [r \in Refreshers |-> IdleTask]
    /\ saved = <<>>
    /\ redis = NoRedis
    /\ channel = [w \in Workers |-> <<>>]
    /\ worker = [w \in Workers |-> FreshWorker]
    /\ missed = [w \in Workers |-> FALSE]
    /\ faults = [f \in Faults |-> 0]

Fault(f) ==
    /\ faults[f] < Budget[f]
    /\ faults' = [faults EXCEPT ![f] = @ + 1]

-----------------------------------------------------------------------------
FindBlock ==
    /\ tip < MaxTip
    /\ tip' = tip + 1
    /\ notices' = notices + 1
    /\ UNCHANGED <<info, task, saved, redis, channel, worker, missed, faults>>

LoseNotice ==
    /\ Fault("zmq")
    /\ notices > 0
    /\ notices' = notices - 1
    /\ UNCHANGED <<tip, info, task, saved, redis, channel, worker, missed>>

-----------------------------------------------------------------------------
Advance(r, step) == task' = [task EXCEPT ![r].step = step]

Ask(r, height) ==
    task' = [task EXCEPT ![r] = [step |-> "asked", height |-> height, base |-> None]]

(* The ZMQ loop takes a notification and asks for the mining info first. *)
HearBlock ==
    /\ notices > 0
    /\ task["zmq"].step = "idle"
    /\ notices' = notices - 1
    /\ info' = tip
    /\ Ask("zmq", tip)
    /\ UNCHANGED <<tip, saved, redis, channel, worker, missed, faults>>

(* getMiningInfo answers null to any error: nothing is broadcast. *)
MiningInfoFails ==
    /\ Fault("rpc")
    /\ notices > 0
    /\ task["zmq"].step = "idle"
    /\ notices' = notices - 1
    /\ info' = None
    /\ UNCHANGED <<tip, task, saved, redis, channel, worker, missed>>

(* The interval fires; without mining info it does nothing. *)
StartRefresh ==
    /\ task["interval"].step = "idle"
    /\ info # None
    /\ Ask("interval", info)
    /\ UNCHANGED <<tip, notices, info, saved, redis, channel, worker, missed, faults>>

FetchTemplate(r) ==
    /\ task[r].step = "asked"
    /\ task' = [task EXCEPT ![r].step = "fetched", ![r].base = tip]
    /\ UNCHANGED <<tip, notices, info, saved, redis, channel, worker, missed, faults>>

(* saveBlock under the height the refresh began with; a failure is logged. *)
SaveTemplate(r) ==
    /\ task[r].step = "fetched"
    /\ Advance(r, "saved")
    /\ saved' \in {saved, With(saved, task[r].height, task[r].base)}
    /\ UNCHANGED <<tip, notices, info, redis, channel, worker, missed, faults>>

StoreInfo(r) ==
    /\ task[r].step = "saved"
    /\ Advance(r, "told")
    /\ redis' = [redis EXCEPT !.info = info]
    /\ UNCHANGED <<tip, notices, info, saved, channel, worker, missed, faults>>

(* The template goes under the height miningInfo has by now. *)
StoreTemplate(r) ==
    /\ task[r].step = "told"
    /\ info # None
    /\ Advance(r, "stored")
    /\ redis' = [redis EXCEPT !.templates = With(@, info, task[r].base),
                              !.latest = task[r].base]
    /\ UNCHANGED <<tip, notices, info, saved, channel, worker, missed, faults>>

Publish(r) ==
    /\ task[r].step = "stored"
    /\ \A w \in Workers : Len(channel[w]) < MaxQueue
    /\ task' = [task EXCEPT ![r] = IdleTask]
    /\ channel' = [w \in Workers |-> IF worker[w].step = "up"
                                     THEN Append(channel[w], info) ELSE channel[w]]
    /\ missed' = [w \in Workers |-> worker[w].step # "up"]
    /\ UNCHANGED <<tip, notices, info, saved, redis, worker, faults>>

(* The master's process starts again: its refreshes are gone, and so are the *)
(* notifications it had not taken. *)
EmptyMaster ==
    /\ task' = [r \in Refreshers |-> IdleTask]
    /\ notices' = 0
    /\ info' = tip

Reboot ==
    /\ EmptyMaster
    /\ missed' = [w \in Workers |->
                     missed[w] \/ \E r \in Refreshers : task[r].step = "stored"]

RestartMaster ==
    /\ Fault("restart")
    /\ Reboot
    /\ UNCHANGED <<tip, saved, redis, channel, worker>>

(* Mining info that turned null during a refresh is a TypeError nobody       *)
(* catches: in the job stream that takes the template before Redis is told   *)
(* of it, or where the template is stored.  The process ends. *)
CrashMaster(r) ==
    /\ task[r].step \in {"saved", "told"}
    /\ info = None
    /\ Reboot
    /\ UNCHANGED <<tip, saved, redis, channel, worker, faults>>

DeleteOldBlocks ==
    /\ \E k \in DOMAIN saved :
          /\ \A j \in DOMAIN saved : j <= k
          /\ saved' = [j \in {k} |-> saved[j]]
    /\ UNCHANGED <<tip, notices, info, task, redis, channel, worker, missed, faults>>

-----------------------------------------------------------------------------
Change(w, new) == worker' = [worker EXCEPT ![w] = new]

(* A worker that ends loses its memory and its subscription. *)
Down == [FreshWorker EXCEPT !.step = "down"]

Die(w) ==
    /\ Change(w, Down)
    /\ channel' = [channel EXCEPT ![w] = <<>>]
    /\ missed' = [missed EXCEPT ![w] = TRUE]

RestartWorker(w) ==
    /\ Fault("restart")
    /\ worker[w].step # "down"
    /\ Die(w)
    /\ UNCHANGED <<tip, notices, info, task, saved, redis>>

Asked(height) == [height |-> height, answered |-> FALSE, base |-> None]

(* A starting worker loads what Redis has for its latest mining info.  With  *)
(* a template but without mining info it fails, as Emit does. *)
StartWorker(w) ==
    /\ worker[w].step = "down"
    /\ redis.info = None => redis.latest = None
    /\ Change(w, [FreshWorker EXCEPT
                     !.step = "loading", !.info = redis.info,
                     !.loads = IF redis.info = None THEN <<>> ELSE <<Asked(redis.info)>>])
    /\ UNCHANGED <<tip, notices, info, task, saved, redis, channel, missed, faults>>

(* It subscribes once that is done. *)
Subscribe(w) ==
    /\ worker[w].step = "loading"
    /\ worker[w].loads = <<>> /\ worker[w].db = {}
    /\ Change(w, [worker[w] EXCEPT !.step = "up"])
    /\ UNCHANGED <<tip, notices, info, task, saved, redis, channel, missed, faults>>

(* Mutant: only a message of another height makes the worker load a template. *)
LoadsOnNewHeight(w, height) ==
    IF height \in {None, worker[w].info} THEN <<>> ELSE <<Asked(height)>>

LoadsFor(w, height) == IF height = None THEN <<>> ELSE <<Asked(height)>>

Deliver(w) ==
    LET height == Head(channel[w]) IN
    /\ worker[w].step = "up"
    /\ channel[w] # <<>>
    /\ Len(worker[w].loads) < MaxQueue
    /\ channel' = [channel EXCEPT ![w] = Tail(@)]
    /\ Change(w, [worker[w] EXCEPT !.info = height, !.loads = @ \o LoadsFor(w, height)])
    /\ UNCHANGED <<tip, notices, info, task, saved, redis, missed, faults>>

Found(map, height) == IF height \in DOMAIN map THEN map[height] ELSE None

(* Redis answers its GETs in order. *)
RedisAnswers(w) ==
    \E i \in DOMAIN worker[w].loads :
        LET height == worker[w].loads[i].height IN
        /\ ~worker[w].loads[i].answered
        /\ \A j \in 1..(i - 1) : worker[w].loads[j].answered
        /\ Change(w, [worker[w] EXCEPT
                         !.loads[i] = [height |-> height, answered |-> TRUE,
                                       base |-> Found(redis.templates, height)]])
        /\ UNCHANGED <<tip, notices, info, task, saved, redis, channel, missed, faults>>

(* Templates older than five minutes are dropped, all of them when the       *)
(* mining info is not of the height the last template came with. *)
ClearJobs(w) == worker[w].last # worker[w].info

Kept(w) == IF ClearJobs(w) THEN {{}} ELSE SUBSET worker[w].blocks

Registered(w, base) == {kept \cup {base} : kept \in Kept(w)}

(* newMiningJob$ takes a template together with the worker's mining info.    *)
(* Without mining info it throws and nobody catches: the process ends.       *)
Emit(w, base, source, pending) ==
    IF worker[w].info = None
    THEN Die(w)
    ELSE /\ \E blocks \in Registered(w, base) :
               Change(w, [pending EXCEPT !.last = worker[w].info, !.blocks = blocks,
                                         !.current = base, !.source = source])
         /\ UNCHANGED <<channel, missed>>

(* What Redis does not have is looked up in the database. *)
UseAnswer(w) ==
    LET load == Head(worker[w].loads)
        pending == [worker[w] EXCEPT !.loads = Tail(@)]
    IN
    /\ worker[w].loads # <<>>
    /\ load.answered
    /\ IF load.base # None
       THEN Emit(w, load.base, "redis", pending)
       ELSE /\ Change(w, [pending EXCEPT !.db = @ \cup {load.height}])
            /\ UNCHANGED <<channel, missed>>
    /\ UNCHANGED <<tip, notices, info, task, saved, redis, faults>>

DatabaseAnswers(w) ==
    \E height \in worker[w].db :
        LET pending == [worker[w] EXCEPT !.db = @ \ {height}]
            base == Found(saved, height)
        IN
        /\ IF base # None
           THEN Emit(w, base, "database", pending)
           ELSE Change(w, pending) /\ UNCHANGED <<channel, missed>>
        /\ UNCHANGED <<tip, notices, info, task, saved, redis, faults>>

(* A worker's connection to Redis breaks: it subscribes again when it is     *)
(* back, and loads nothing. *)
LoseMessages(w) ==
    /\ Fault("link")
    /\ channel[w] # <<>>
    /\ channel' = [channel EXCEPT ![w] = <<>>]
    /\ missed' = [missed EXCEPT ![w] = TRUE]
    /\ UNCHANGED <<tip, notices, info, task, saved, redis, worker>>

(* The loads that have their answer: they come in order, these are the first. *)
Answered(loads) ==
    SubSeq(loads, 1, Cardinality({i \in DOMAIN loads : loads[i].answered}))

(* Redis comes back without its data.  Messages are lost and calls in flight *)
(* fail: a worker's load, the start of a worker, a refresh of the master.    *)
RestartRedis ==
    /\ Fault("redis")
    /\ redis' = NoRedis
    /\ channel' = [w \in Workers |-> <<>>]
    /\ worker' = [w \in Workers |->
                     IF worker[w].step = "loading" THEN Down
                     ELSE [worker[w] EXCEPT !.loads = Answered(@)]]
    /\ missed' = [w \in Workers |-> TRUE]
    /\ \/ UNCHANGED <<notices, info, task>>
       \/ /\ \E r \in Refreshers : task[r].step \in {"saved", "told", "stored"}
          /\ EmptyMaster
    /\ UNCHANGED <<tip, saved>>

-----------------------------------------------------------------------------
MasterStep(r) ==
    \/ FetchTemplate(r)
    \/ SaveTemplate(r)
    \/ StoreInfo(r)
    \/ StoreTemplate(r)
    \/ Publish(r)
    \/ CrashMaster(r)

WorkerStep(w) ==
    \/ StartWorker(w)
    \/ Subscribe(w)
    \/ Deliver(w)
    \/ RedisAnswers(w)
    \/ UseAnswer(w)
    \/ DatabaseAnswers(w)

BroadcastNext ==
    \/ FindBlock
    \/ LoseNotice
    \/ HearBlock
    \/ MiningInfoFails
    \/ StartRefresh
    \/ \E r \in Refreshers : MasterStep(r)
    \/ RestartMaster
    \/ DeleteOldBlocks
    \/ \E w \in Workers : WorkerStep(w) \/ LoseMessages(w) \/ RestartWorker(w)
    \/ RestartRedis

BroadcastSpec == BroadcastInit /\ [][BroadcastNext]_broadcastVars

(* The node and the services answer, the 60 s timer fires, messages arrive.  *)
FairSpec ==
    /\ BroadcastSpec
    /\ WF_broadcastVars(HearBlock)
    /\ WF_broadcastVars(StartRefresh)
    /\ \A r \in Refreshers : WF_broadcastVars(MasterStep(r))
    /\ \A w \in Workers :
          /\ WF_broadcastVars(StartWorker(w))
          /\ WF_broadcastVars(Subscribe(w))
          /\ WF_broadcastVars(Deliver(w))
          /\ WF_broadcastVars(RedisAnswers(w))
          /\ WF_broadcastVars(UseAnswer(w))
          /\ WF_broadcastVars(DatabaseAnswers(w))

-----------------------------------------------------------------------------
Heights == 0..MaxTip

LoadType == [height : Heights, answered : BOOLEAN, base : Heights \cup {None}]

WorkerType ==
    [step : {"down", "loading", "up"}, info : Heights \cup {None}, loads : Seq(LoadType),
     db : SUBSET Heights, last : Heights \cup {None}, blocks : SUBSET Heights,
     current : Heights \cup {None}, source : {"redis", "database", None}]

(* Types of the variables: nothing builds on a block the node does not have, *)
(* and the work a worker hands out is registered.                            *)
BroadcastTypeOK ==
    /\ tip \in Heights /\ notices \in 0..tip
    /\ info \in 0..tip \cup {None}
    /\ task \in [Refreshers -> [step : {"idle", "asked", "fetched", "saved", "told", "stored"},
                                height : 0..tip \cup {None}, base : 0..tip \cup {None}]]
    /\ \A map \in {saved, redis.templates} :
          DOMAIN map \subseteq 0..tip /\ \A k \in DOMAIN map : map[k] \in 0..tip
    /\ {redis.info, redis.latest} \subseteq 0..tip \cup {None}
    /\ channel \in [Workers -> Seq(0..tip \cup {None})]
    /\ worker \in [Workers -> WorkerType]
    /\ \A w \in Workers : worker[w].current # None => worker[w].current \in worker[w].blocks
    /\ missed \in [Workers -> BOOLEAN]
    /\ \A f \in Faults : faults[f] \in 0..Budget[f]

(* Nothing is on its way to a running worker. *)
Quiet(w) ==
    /\ \A r \in Refreshers : task[r].step = "idle"
    /\ channel[w] = <<>>
    /\ worker[w].step = "up" /\ worker[w].loads = <<>> /\ worker[w].db = {}

Agrees(w) ==
    worker[w].info \in DOMAIN redis.templates =>
        worker[w].current = redis.templates[worker[w].info]

(* However the two refreshes and the worker's loads interleave, once all is  *)
(* quiet a worker that got the last message works on the template Redis has. *)
(* A late answer of the database, which the worker asks when Redis has no    *)
(* template of the height, may replace a newer template: it is left out.     *)
QuietWorkersAgree ==
    \A w \in Workers :
        Quiet(w) /\ ~missed[w] /\ worker[w].source # "database" => Agrees(w)

(* Once the chain rests every worker gets to work on its last block and      *)
(* stays there, whatever notifications and restarts there were before, if the *)
(* links hold and getmininginfo answers.                                     *)
WorkersCatchUp ==
    [](\A f \in Faults \ {"zmq", "redis", "restart"} : faults[f] = 0)
        => \A w \in Workers : <>[](worker[w].current = tip)

(* The workers in one: types, and agreement with Redis where all is quiet.   *)
WorkersInv == BroadcastTypeOK /\ QuietWorkersAgree
=============================================================================
