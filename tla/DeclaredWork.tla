------------------------------ MODULE DeclaredWork ------------------------------
(***************************************************************************)
(* Work that clients declare or build themselves: the connections of the   *)
(* Job Declaration Protocol (sv2-job-declaration.service.ts) and of the     *)
(* Template Distribution Protocol (sv2-template-distribution.service.ts),   *)
(* the registry of tokens they share with the mining connections            *)
(* (sv2-job-declaration-registry.service.ts) and the templates they are     *)
(* checked against (template-provider.service.ts).                          *)
(*                                                                         *)
(* Each piece of data holds one frame, whose handler goes on after a write, *)
(* a call of the node or of the database while other handlers run.  Replies *)
(* nothing waits for, and refusals that change nothing, are left out.       *)
(*                                                                         *)
(* A template is known by its number, which also stands for its payout      *)
(* snapshot and the outputs that one asks for; 0 stands for the output to   *)
(* the pool alone.  A solution names what it was mined on.                  *)
(***************************************************************************)
EXTENDS Integers, Sequences, FiniteSets, SequencesExt

CONSTANTS
    Conns,         \* connections
    ReqIds,        \* request ids a client uses
    Ttl,           \* tokenTtlMs
    Retention,     \* retentionMs
    MaxTime,       \* bound
    MaxTemplates,  \* bound
    MaxMessages,   \* bound: frames
    MaxSolutions   \* bound: solutions

ASSUME DeclaredWorkAssumption ==
    /\ IsFiniteSet(Conns)
    /\ Ttl \in Nat /\ Retention \in Nat
    /\ MaxTime \in Nat /\ MaxTemplates \in Nat \ {0}

VARIABLES
    now,
    config,        \* payoutMode, whether a pool payout address is set, and the
                   \* templates that come without payout outputs
    kind,          \* protocol of each connection
    open,          \* connections that are not destroyed
    storedAt,      \* provider: createdAt of each template, newest last
    tokens,        \* allocatedTokens: outputs and createdAt
    jobs,          \* declaredJobs
    txData,        \* JDP: connections that negotiated DECLARE_TX_DATA
    pending,       \* JDP: pendingDeclarations of each connection
    latestJob,     \* JDP: latestDeclaredJob, 0 if none
    subscribed,    \* TDP: connections that get templates
    served,        \* TDP: servedTemplates
    active,        \* TDP: the template of the last SetNewPrevHash, 0 if none
    submitted,     \* submittedSolutions
    tasks,         \* handlers that wait
    finalized,     \* finalizations: solution, snapshot and the outputs paid
    crashed,       \* an exception nobody handles has ended the process
    msgs,          \* counter for the bound
    aux            \* history the properties refer to

provider == <<storedAt>>
registry == <<tokens, jobs>>
jdp == <<txData, pending, latestJob>>
tdp == <<subscribed, served, active>>
found == <<submitted, finalized>>
vars == <<now, config, kind, open, provider, registry, jdp, tdp, found, tasks, crashed, msgs, aux>>

NoPending == [token |-> 0, template |-> 0, checked |-> 0, latest |-> 0, serial |-> 0]

Init ==
    /\ now = 0
    /\ config \in [mode : {"solo"}, address : BOOLEAN, bare : {{}}] \cup
                  [mode : {"pplns"}, address : BOOLEAN, bare : SUBSET (1..MaxTemplates)]
    /\ kind \in [Conns -> {"jdp", "tdp"}]
    /\ open = Conns
    /\ storedAt = <<0>>
    /\ tokens = <<>> /\ jobs = <<>>
    /\ txData = {} /\ subscribed = {}
    /\ pending = [c \in Conns |-> [r \in ReqIds |-> NoPending]]
    /\ latestJob = [c \in Conns |-> 0]
    /\ served = [c \in Conns |-> {}] /\ active = [c \in Conns |-> 0]
    /\ submitted = [c \in Conns |-> {}]
    /\ tasks = <<>>
    /\ finalized = {}
    /\ crashed = FALSE
    /\ msgs = 0
    /\ aux = [used |-> {},       \* custom jobs taken, and when
              built |-> {},      \* connection, solution and job of each block
              twice |-> FALSE,   \* one connection had a solution submitted twice
              asked |-> {},      \* requests for transactions without an answer
              reused |-> FALSE,  \* a request id came again before its last answer
              unknown |-> FALSE, \* a request was answered as unknown
              denied |-> FALSE]  \* an announced template was not found

-----------------------------------------------------------------------------
(* The template provider.  It forgets what is too old whenever it is asked.  *)

Emitted == Len(storedAt)
Fresh(t) == storedAt[t] >= now - Retention
Templates == {t \in 1..Emitted : Fresh(t)}

(* getLatestTemplate: the last one stored, or none. *)
LatestTemplate == Templates \cap {Emitted}

(* The outputs a template's work has to pay, and the snapshot that has them; *)
(* 0 if that is the pool's address, or the client's.                         *)
Outputs(t) == IF config.mode = "pplns" /\ t \notin config.bare THEN t ELSE 0

(* Without outputs or the address of the pool there is nothing to pay to.    *)
Payable(t) == Outputs(t) # 0 \/ config.address

-----------------------------------------------------------------------------
(* The registry of tokens, cleaned up like the templates.                    *)

Alive(entry) == entry.created >= now - Ttl

(* Mutant: only the other accesses clean up. *)
AllocatedEver(k) == TRUE

Allocated(k) == Alive(tokens[k])

(* declareJob for connection c, if the token is known and the coinbase has   *)
(* its outputs.                                                              *)
Declares(c, k, template, at) ==
    /\ Allocated(k)
    /\ jobs' = Append(jobs, [conn |-> c, token |-> k, template |-> template,
                             checked |-> at.checked, latest |-> at.latest, created |-> now])
    /\ latestJob' = [latestJob EXCEPT ![c] = Len(jobs) + 1]
    /\ UNCHANGED tokens

-----------------------------------------------------------------------------
(* Frames of the Job Declaration Protocol. *)

Receives(c, k) ==
    /\ kind[c] = k /\ c \in open
    /\ msgs < MaxMessages /\ msgs' = msgs + 1

Elsewhere == UNCHANGED <<now, config, kind, provider, crashed>>

(* handleSetupConnection: the flag, which another one may take back. *)
Negotiate(c) ==
    /\ Receives(c, "jdp")
    /\ txData' \in {txData \cup {c}, txData \ {c}}
    /\ UNCHANGED <<open, registry, pending, latestJob, tdp, found, tasks, aux>> /\ Elsewhere

(* handleAllocateMiningJobToken. *)
AllocateToken(c) ==
    /\ Receives(c, "jdp")
    /\ \E demanded \in IF LatestTemplate = {} THEN {0} ELSE {Outputs(t) : t \in LatestTemplate} :
          tokens' = Append(tokens, [outputs |-> demanded, from |-> Emitted, created |-> now])
    /\ UNCHANGED <<open, jobs, jdp, tdp, found, tasks, aux>> /\ Elsewhere

(* When, and when the last template was which, a job is checked.             *)
Checked == [checked |-> now, latest |-> Emitted]

(* handleDeclareMiningJob of a job the latest template has the transactions  *)
(* of; its coinbase includes the outputs its token demands.                  *)
DeclareMiningJob(c) ==
    /\ Receives(c, "jdp") /\ c \in txData
    /\ \E t \in LatestTemplate, k \in DOMAIN tokens : Declares(c, k, t, Checked)
    /\ UNCHANGED <<open, txData, pending, tdp, found, tasks, aux>> /\ Elsewhere

Asked(c, r) == {a \in aux.asked : a[1] = c /\ a[2] = r}

(* What was provided under the request is being checked by the node.         *)
Checking(c, r) ==
    \E i \in DOMAIN tasks : tasks[i].at = "mempool" /\ tasks[i].conn = c /\ tasks[i].req = r

(* handleDeclareMiningJob of one that has others: they are asked for.  The   *)
(* token is not looked at yet.                                               *)
AskTransactions(c) ==
    /\ Receives(c, "jdp") /\ c \in txData
    /\ \E t \in LatestTemplate, k \in DOMAIN tokens, r \in ReqIds :
          /\ pending' = [pending EXCEPT ![c][r] =
                            [token |-> k, template |-> t, checked |-> now, latest |-> Emitted, serial |-> msgs']]
          /\ aux' = [aux EXCEPT !.asked = @ \cup {<<c, r, msgs'>>},
                                !.reused = @ \/ Asked(c, r) # {} \/ Checking(c, r)]
    /\ UNCHANGED <<open, registry, txData, latestJob, tdp, found, tasks>> /\ Elsewhere

(* handleProvideMissingTransactionsSuccess up to testmempoolaccept: of no    *)
(* pending declaration, of wrong transactions, or of the right ones.         *)
ProvideUnasked(c, r) ==
    /\ pending[c][r] = NoPending
    /\ Asked(c, r) # {}
    /\ aux' = [aux EXCEPT !.unknown = TRUE]
    /\ UNCHANGED <<pending, tasks>>

ProvideWrong(c, r) ==
    /\ pending[c][r] # NoPending
    /\ pending' = [pending EXCEPT ![c][r] = NoPending]
    /\ aux' = [aux EXCEPT !.asked = @ \ {<<c, r, pending[c][r].serial>>}]
    /\ UNCHANGED tasks

ProvideRight(c, r) ==
    /\ pending[c][r] # NoPending
    /\ tasks' = Append(tasks, [at |-> "mempool", conn |-> c, req |-> r,
                               was |-> pending[c][r]])
    /\ UNCHANGED <<pending, aux>>

ProvideTransactions(c) ==
    /\ Receives(c, "jdp")
    /\ \E r \in ReqIds : ProvideUnasked(c, r) \/ ProvideWrong(c, r) \/ ProvideRight(c, r)
    /\ UNCHANGED <<open, registry, txData, latestJob, tdp, found>> /\ Elsewhere

-----------------------------------------------------------------------------
(* Solutions.  The handler adds the solution to its set, and waits for       *)
(* submitblock, for blocksService.save and for finalization.                 *)

(* Mutant: the solution is not added before submitblock answers. *)
SubmitsFirst(c, solution, snapshot, job) ==
    /\ tasks' = Append(tasks, [at |-> "submit", conn |-> c, solution |-> solution,
                               snapshot |-> snapshot])
    /\ aux' = [aux EXCEPT
                 !.built = @ \cup {[conn |-> c, solution |-> solution, job |-> job]},
                 !.twice = @ \/ \E b \in aux.built : b.conn = c /\ b.solution = solution]
    /\ UNCHANGED <<submitted, finalized>>

Submits(c, solution, snapshot, job) ==
    /\ submitted' = [submitted EXCEPT ![c] = @ \cup {solution}]
    /\ tasks' = Append(tasks, [at |-> "submit", conn |-> c, solution |-> solution,
                               snapshot |-> snapshot])
    /\ aux' = [aux EXCEPT
                 !.built = @ \cup {[conn |-> c, solution |-> solution, job |-> job]},
                 !.twice = @ \/ \E b \in aux.built : b.conn = c /\ b.solution = solution]
    /\ UNCHANGED finalized

Solutions == 1..MaxSolutions

(* The block of a pushed solution is built from the latest job, whatever job *)
(* it was mined on.                                                          *)
BuiltFrom(c) == latestJob[c]

(* handlePushSolution. *)
PushSolution(c) ==
    /\ Receives(c, "jdp") /\ latestJob[c] # 0
    /\ \E j \in DOMAIN jobs, n \in Solutions :
          LET solution == [on |-> j, n |-> n]
          IN  /\ solution \notin submitted[c]
              /\ Submits(c, solution, Outputs(jobs[BuiltFrom(c)].template), BuiltFrom(c))
    /\ UNCHANGED <<open, registry, jdp, tdp>> /\ Elsewhere

(* SetCustomMiningJob on a mining connection, of a declared job's token.     *)
SetCustomMiningJob ==
    /\ msgs < MaxMessages /\ msgs' = msgs + 1
    /\ \E j \in DOMAIN jobs :
          /\ Alive(jobs[j])
          /\ aux' = [aux EXCEPT !.used = @ \cup {<<j, now>>}]
    /\ UNCHANGED <<open, registry, jdp, tdp, found, tasks>> /\ Elsewhere

-----------------------------------------------------------------------------
(* Frames of the Template Distribution Protocol, and new templates.          *)

(* sendTemplate to each of conns up to its first write; without an output to *)
(* pay to it throws, and nobody handles that.                                *)
SendTemplate(conns, t) ==
    /\ served' = [c \in Conns |-> served[c] \cup IF c \in conns THEN {t} ELSE {}]
    /\ IF conns = {} \/ Payable(t)
       THEN /\ tasks' = tasks \o SetToSeq({[at |-> "announce", conn |-> c, template |-> t] : c \in conns})
            /\ UNCHANGED crashed
       ELSE /\ crashed' = TRUE
            /\ UNCHANGED tasks

(* CoinbaseOutputConstraints: subscribeTemplates replays the last template,  *)
(* which is stored anew.                                                     *)
SubscribeTemplates(c) ==
    /\ Receives(c, "tdp") /\ c \notin subscribed
    /\ subscribed' = subscribed \cup {c}
    /\ storedAt' = [storedAt EXCEPT ![Emitted] = now]
    /\ SendTemplate({c}, Emitted)
    /\ UNCHANGED <<now, config, kind, open, registry, jdp, active, found, aux>>

(* newMiningJob$ emits a template. *)
NewTemplate ==
    /\ Emitted < MaxTemplates
    /\ storedAt' = Append(storedAt, now)
    /\ SendTemplate(subscribed, Emitted + 1)
    /\ UNCHANGED <<now, config, kind, open, registry, jdp, subscribed, active, found, msgs, aux>>

Announced(c) ==
    {t \in 1..Emitted : t = active[c] \/ \E i \in DOMAIN tasks :
        tasks[i].at \in {"announce", "told"} /\ tasks[i].conn = c /\ tasks[i].template = t}

(* getServedOrProviderTemplate. *)
AvailableTemplates(c) == served[c] \cup Templates

(* RequestTransactionData of a template, available or not; likewise for a    *)
(* solution.                                                                 *)
RequestTransactionData(c) ==
    /\ Receives(c, "tdp")
    /\ \/ /\ \E t \in AvailableTemplates(c) : served' = [served EXCEPT ![c] = @ \cup {t}]
          /\ UNCHANGED aux
       \/ /\ ~Announced(c) \subseteq AvailableTemplates(c)
          /\ aux' = [aux EXCEPT !.denied = TRUE]
          /\ UNCHANGED served
    /\ UNCHANGED <<open, registry, jdp, subscribed, active, found, tasks>> /\ Elsewhere

(* A solution of template t: its coinbase pays what the template asks for.   *)
Paying(t, n) == [on |-> t, n |-> n]

(* handleSubmitSolution. *)
SubmitSolution(c) ==
    /\ Receives(c, "tdp")
    /\ \E t \in AvailableTemplates(c), n \in Solutions :
          /\ Payable(t) /\ Paying(t, n) \notin submitted[c]
          /\ Submits(c, Paying(t, n), Outputs(t), 0)
    /\ UNCHANGED <<open, registry, jdp, tdp>> /\ Elsewhere

-----------------------------------------------------------------------------
(* What waits goes on. *)

Of(i) == tasks[i]
Done(i) == tasks' = RemoveAt(tasks, i)
GoesOn(i, at) == tasks' = [tasks EXCEPT ![i].at = at]

(* Mutant: the job is declared on the latest template. *)
ProvidedOnLatest(i) ==
    /\ Of(i).at = "mempool"
    /\ LET c == Of(i).conn
           was == Of(i).was
       IN  /\ Declares(c, was.token, Emitted, was)
           /\ pending' = [pending EXCEPT ![c][Of(i).req] = NoPending]
           /\ aux' = [aux EXCEPT !.asked = @ \ {<<c, Of(i).req, was.serial>>}]
    /\ Done(i)
    /\ UNCHANGED <<open, txData, tdp, found, msgs>> /\ Elsewhere

(* testmempoolaccept allows the transactions: the job is declared on the     *)
(* template it was checked against, and the entry of its request deleted.    *)
Provided(i) ==
    /\ Of(i).at = "mempool"
    /\ LET c == Of(i).conn
           was == Of(i).was
       IN  /\ Declares(c, was.token, was.template, was)
           /\ pending' = [pending EXCEPT ![c][Of(i).req] = NoPending]
           /\ aux' = [aux EXCEPT !.asked = @ \ {<<c, Of(i).req, was.serial>>}]
    /\ Done(i)
    /\ UNCHANGED <<open, txData, tdp, found, msgs>> /\ Elsewhere

(* It does not, or cannot be asked, or the registry refuses the job.         *)
ProvidedInVain(i) ==
    /\ Of(i).at = "mempool"
    /\ pending' = [pending EXCEPT ![Of(i).conn][Of(i).req] = NoPending]
    /\ aux' = [aux EXCEPT !.asked = @ \ {<<Of(i).conn, Of(i).req, Of(i).was.serial>>}]
    /\ Done(i)
    /\ UNCHANGED <<open, registry, txData, latestJob, tdp, found, msgs>> /\ Elsewhere

(* The node answers; the block is saved; a taken block is finalized.         *)
NodeAnswers(i) ==
    /\ Of(i).at = "submit"
    /\ GoesOn(i, "save")
    /\ UNCHANGED <<open, registry, jdp, tdp, found, msgs, aux>> /\ Elsewhere

SaveBlock(i) ==
    /\ Of(i).at = "save"
    /\ \/ /\ config.mode = "pplns"
          /\ GoesOn(i, "finalize")
       \/ Done(i)
    /\ UNCHANGED <<open, registry, jdp, tdp, found, msgs, aux>> /\ Elsewhere

(* finalizeSnapshotForBlock does nothing without a snapshot.                 *)
Finalize(i) ==
    /\ Of(i).at = "finalize"
    /\ finalized' = finalized \cup
          {[conn |-> Of(i).conn, solution |-> Of(i).solution, snapshot |-> snapshot] :
              snapshot \in {Of(i).snapshot} \ {0}}
    /\ Done(i)
    /\ UNCHANGED <<open, registry, jdp, tdp, submitted, msgs, aux>> /\ Elsewhere

(* The destroyed connection gets no more templates. *)
Closes(c) ==
    /\ open' = open \ {c}
    /\ subscribed' = subscribed \ {c}

(* The database refuses: a template connection closes, the other goes on.    *)
DatabaseFails(i) ==
    /\ Of(i).at \in {"save", "finalize"}
    /\ Done(i)
    /\ IF kind[Of(i).conn] = "tdp" THEN Closes(Of(i).conn) ELSE UNCHANGED <<open, subscribed>>
    /\ UNCHANGED <<registry, jdp, served, active, found, msgs, aux>> /\ Elsewhere

(* Writes of a connection end in order. *)
FirstWrite(i) ==
    /\ Of(i).at \in {"announce", "told"}
    /\ \A k \in 1..(i - 1) : tasks[k].at \in {"announce", "told"} => tasks[k].conn # Of(i).conn

(* Mutant: a template is not told while another is. *)
TellUnlessBusy(i) ==
    /\ FirstWrite(i) /\ Of(i).conn \in open
    /\ IF Of(i).at = "announce" /\ \A k \in DOMAIN tasks :
             tasks[k].at = "told" => tasks[k].conn # Of(i).conn
       THEN /\ active' = [active EXCEPT ![Of(i).conn] = Of(i).template]
            /\ tasks' = Append(RemoveAt(tasks, i), [Of(i) EXCEPT !.at = "told"])
       ELSE /\ Done(i)
            /\ UNCHANGED active
    /\ UNCHANGED <<open, registry, jdp, subscribed, served, found, msgs, aux>> /\ Elsewhere

(* NewTemplate is written; SetNewPrevHash follows, and is written.           *)
TellTemplate(i) ==
    /\ FirstWrite(i) /\ Of(i).conn \in open
    /\ IF Of(i).at = "announce"
       THEN /\ active' = [active EXCEPT ![Of(i).conn] = Of(i).template]
            /\ tasks' = Append(RemoveAt(tasks, i), [Of(i) EXCEPT !.at = "told"])
       ELSE /\ Done(i)
            /\ UNCHANGED active
    /\ UNCHANGED <<open, registry, jdp, subscribed, served, found, msgs, aux>> /\ Elsewhere

(* The connection went first: the write fails, and nobody handles that.      *)
TellFails(i) ==
    /\ Of(i).at \in {"announce", "told"} /\ Of(i).conn \notin open
    /\ crashed' = TRUE
    /\ UNCHANGED <<now, config, kind, open, provider, registry, jdp, tdp, found, tasks, msgs, aux>>

(* The client closes, a frame cannot be parsed or is of another protocol.    *)
Close(c) ==
    /\ c \in open
    /\ Closes(c)
    /\ UNCHANGED <<registry, jdp, served, active, found, tasks, msgs, aux>> /\ Elsewhere

Tick ==
    /\ now < MaxTime
    /\ now' = now + 1
    /\ UNCHANGED <<config, kind, open, provider, registry, jdp, tdp, found, tasks, crashed, msgs, aux>>

Wakes(i) ==
    \/ Provided(i)
    \/ ProvidedInVain(i)
    \/ NodeAnswers(i)
    \/ SaveBlock(i)
    \/ Finalize(i)
    \/ DatabaseFails(i)
    \/ TellTemplate(i)
    \/ TellFails(i)

Handles(c) ==
    \/ Negotiate(c)
    \/ AllocateToken(c)
    \/ DeclareMiningJob(c)
    \/ AskTransactions(c)
    \/ ProvideTransactions(c)
    \/ PushSolution(c)
    \/ SubscribeTemplates(c)
    \/ RequestTransactionData(c)
    \/ SubmitSolution(c)
    \/ Close(c)

Next ==
    /\ ~crashed
    /\ \/ \E c \in Conns : Handles(c)
       \/ SetCustomMiningJob
       \/ NewTemplate
       \/ \E i \in DOMAIN tasks : Wakes(i)
       \/ Tick

Spec == Init /\ [][Next]_vars

-----------------------------------------------------------------------------
JobType == [conn : Conns, token : Nat \ {0}, template : Nat \ {0},
            checked : Nat, latest : Nat \ {0}, created : Nat]

(* Types; a job has a token of its own, and a connection's latest job is one *)
(* of its jobs.                                                              *)
TypeOK ==
    /\ now \in 0..MaxTime
    /\ jobs \in Seq(JobType)
    /\ \A j \in DOMAIN jobs : jobs[j].token \in DOMAIN tokens /\ jobs[j].template \in 1..Emitted
    /\ subscribed \subseteq open
    /\ \A c \in Conns :
          /\ latestJob[c] # 0 => jobs[latestJob[c]].conn = c
          /\ served[c] \cup {active[c]} \subseteq 0..Emitted
          /\ \A r \in ReqIds : pending[c][r].token \in 0..Len(tokens)
    /\ \A i \in DOMAIN tasks :
          tasks[i].at \in {"mempool", "submit", "save", "finalize", "announce", "told"}

(* A custom job is taken only while the template it was checked against was  *)
(* the latest at most two lifetimes of a token ago, however long its missing *)
(* transactions took.                                                        *)
CustomJobIsYoung ==
    \A u \in aux.used : u[2] - jobs[u[1]].checked <= 2 * Ttl

(* A pushed solution becomes a block of the job it was mined on, or of one   *)
(* the same connection declared later.                                       *)
PushBuildsLatest ==
    \A b \in aux.built : kind[b.conn] = "jdp" =>
        /\ jobs[b.job].conn = b.conn
        /\ jobs[b.solution.on].conn = b.conn => b.solution.on <= b.job

(* The template checked was emitted after the token was allocated, or there  *)
(* was none with outputs in store then.                                      *)
TokenIsOlder(job) ==
    \/ tokens[job.token].from < job.latest
    \/ tokens[job.token].outputs = 0

(* The snapshot finalized for a block is the one whose outputs its coinbase  *)
(* had to have, unless a template came between the allocation of the token   *)
(* and the declaration; a block of a distributed template always pays its    *)
(* snapshot.                                                                 *)
FinalizedIsPaid ==
    \A f \in finalized :
        \/ kind[f.conn] = "tdp" /\ f.snapshot = f.solution.on
        \/ kind[f.conn] = "jdp" /\
             \E b \in aux.built :
                /\ b.conn = f.conn /\ b.solution = f.solution
                /\ LET token == tokens[jobs[b.job].token]
                   IN  f.snapshot = token.outputs \/ TokenIsOlder(jobs[b.job])

(* A connection has a solution submitted to the node at most once.           *)
SubmittedOnce == ~aux.twice

(* Once all is written a subscribed client works on the last template, which *)
(* it was told of before, as long as the process runs.                       *)
ClientOnLatest == ~crashed =>
    \A c \in subscribed \cap open :
        (\A i \in DOMAIN tasks : tasks[i].at = "announce" => tasks[i].conn # c) =>
            active[c] = Emitted

(* A template a client was told of stays available to it.                    *)
ToldIsAvailable == ~aux.denied

(* Provided transactions are not answered as unknown while their declaration *)
(* awaits an answer, unless the client used its request id again while an    *)
(* answer under it was to come: what is provided twice is answered twice, and *)
(* each answer deletes what waits under the id.                              *)
ProvidedIsKnown == aux.unknown => aux.reused

(* The block a pushed solution makes, and the books it gets.                 *)
PushedIsBooked == PushBuildsLatest /\ FinalizedIsPaid

(* A declaration is answered from what the pool knows now.                   *)
JobsInv == TypeOK /\ CustomJobIsYoung /\ ProvidedIsKnown

(* A client works on the last template, and has what it was told of.         *)
TemplatesReachClient == ClientOnLatest /\ ToldIsAvailable
=============================================================================
