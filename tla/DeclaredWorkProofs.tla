------------------------- MODULE DeclaredWorkProofs -------------------------
(***************************************************************************)
(* Proofs about DeclaredWork, for any finite set of connections, any request *)
(* ids, any lifetimes of tokens and templates and any number of frames.     *)
(*                                                                         *)
(* The invariant Inv has a part for each thing a handler relies on that it  *)
(* looked at before it waited:                                              *)
(*   RegistryInv  jobs and what waits for the node name tokens and templates *)
(*                that were there, no later than they were looked at,       *)
(*   LatestInv    a connection's latest job is its own last one,            *)
(*   UsedInv      a custom job was taken while its entry was alive,          *)
(*   BlocksInv    a block of a pushed solution was built of the job that was *)
(*                the latest, and its snapshot is of that job's template,    *)
(*   AskedInv     as long as no request id was used again, what is asked for *)
(*                under it is what waits under it,                           *)
(*   ToldInv      what a client was told of was served to it,                *)
(*   OrderInv     the last template a subscribed client will be told of is   *)
(*                the last one.                                              *)
(* Each is kept by every step (the lemmas Step...Inv); what the handlers do   *)
(* to the sequence of those that wait is said once, in the lemmas ...Origins *)
(* and After....                                                             *)
(***************************************************************************)
EXTENDS DeclaredWork, SequenceTheorems, FiniteSetTheorems, TLAPS

SolutionType == [on : Nat, n : Solutions]

TokenType == [outputs : Nat, from : Nat \ {0}, created : Nat]

EntryType == [token : Nat \ {0}, template : Nat \ {0}, checked : Nat,
              latest : Nat \ {0}, serial : Nat \ {0}]

MempoolTask == [at : {"mempool"}, conn : Conns, req : ReqIds, was : EntryType]
SolutionTask == [at : {"submit", "save", "finalize"}, conn : Conns,
                 solution : SolutionType, snapshot : Nat]
WriteTask == [at : {"announce", "told"}, conn : Conns, template : Nat \ {0}]
TaskType == MempoolTask \cup SolutionTask \cup WriteTask

AuxType == [used : SUBSET (Nat \X Nat),
            built : SUBSET [conn : Conns, solution : SolutionType, job : Nat],
            twice : BOOLEAN, asked : SUBSET (Conns \X ReqIds \X Nat),
            reused : BOOLEAN, unknown : BOOLEAN, denied : BOOLEAN]

TypeInv ==
    /\ now \in 0..MaxTime
    /\ config \in [mode : {"solo", "pplns"}, address : BOOLEAN, bare : SUBSET (1..MaxTemplates)]
    /\ kind \in [Conns -> {"jdp", "tdp"}]
    /\ open \subseteq Conns /\ subscribed \subseteq open
    /\ storedAt \in Seq(Nat) /\ Len(storedAt) > 0
    /\ tokens \in Seq(TokenType)
    /\ jobs \in Seq(JobType)
    /\ txData \subseteq Conns
    /\ pending \in [Conns -> [ReqIds -> EntryType \cup {NoPending}]]
    /\ latestJob \in [Conns -> 0..Len(jobs)]
    /\ served \in [Conns -> SUBSET Nat] /\ active \in [Conns -> Nat]
    /\ submitted \in [Conns -> SUBSET SolutionType]
    /\ tasks \in Seq(TaskType)
    /\ finalized \subseteq [conn : Conns, solution : SolutionType, snapshot : Nat \ {0}]
    /\ crashed \in BOOLEAN
    /\ msgs \in Nat
    /\ aux \in AuxType

-----------------------------------------------------------------------------
(* Sequences. *)

(* What is left when the i-th element of a sequence is gone.               *)
LEMMA RemoveAtProperties ==
    ASSUME NEW S, NEW seq \in Seq(S), NEW i \in DOMAIN seq
    PROVE  /\ RemoveAt(seq, i) \in Seq(S)
           /\ Len(RemoveAt(seq, i)) = Len(seq) - 1
           /\ \A j \in 1 .. Len(seq) - 1 :
                 RemoveAt(seq, i)[j] = IF j < i THEN seq[j] ELSE seq[j + 1]
<1> DEFINE n == Len(seq)
           front == SubSeq(seq, 1, i - 1)
           rest == SubSeq(seq, i + 1, n)
<1>1. /\ n \in Nat /\ i \in 1..n
      /\ \A j \in 1..n : seq[j] \in S
  BY LenProperties, ElementOfSeq
<1>2. /\ front \in Seq(S) /\ Len(front) = i - 1
      /\ \A j \in 1 .. i - 1 : front[j] = seq[j]
  <2>1. \A j \in 1 .. i - 1 : seq[j] \in S
    BY <1>1
  <2>2. /\ front \in Seq(S)
        /\ Len(front) = IF 1 <= i - 1 THEN i - 1 - 1 + 1 ELSE 0
        /\ \A j \in 1 .. i - 1 - 1 + 1 : front[j] = seq[1 + j - 1]
    BY <1>1, <2>1, SubSeqProperties
  <2> QED
    BY <1>1, <2>2
<1>3. /\ rest \in Seq(S) /\ Len(rest) = n - i
      /\ \A j \in 1 .. n - i : rest[j] = seq[i + j]
  <2>1. \A j \in i + 1 .. n : seq[j] \in S
    BY <1>1
  <2>2. /\ rest \in Seq(S)
        /\ Len(rest) = IF i + 1 <= n THEN n - (i + 1) + 1 ELSE 0
        /\ \A j \in 1 .. n - (i + 1) + 1 : rest[j] = seq[i + 1 + j - 1]
    BY <1>1, <2>1, SubSeqProperties
  <2> QED
    BY <1>1, <2>2
<1> HIDE DEF n, front, rest
<1>4. /\ front \o rest \in Seq(S) /\ Len(front \o rest) = n - 1
      /\ \A j \in 1 .. n - 1 : (front \o rest)[j] =
            IF j <= i - 1 THEN front[j] ELSE rest[j - (i - 1)]
  <2>1. /\ front \o rest \in Seq(S)
        /\ Len(front \o rest) = Len(front) + Len(rest)
        /\ \A j \in 1 .. Len(front) + Len(rest) : (front \o rest)[j] =
              IF j <= Len(front) THEN front[j] ELSE rest[j - Len(front)]
    BY <1>2, <1>3, ConcatProperties
  <2>2. Len(front) + Len(rest) = n - 1
    BY <1>1, <1>2, <1>3
  <2> QED
    BY <1>2, <2>1, <2>2
<1>5. ASSUME NEW j \in 1 .. n - 1
      PROVE  (front \o rest)[j] = IF j < i THEN seq[j] ELSE seq[j + 1]
  <2>1. CASE j < i
    BY <1>1, <1>2, <1>4, <2>1
  <2>2. CASE ~(j < i)
    <3>1. ~(j <= i - 1) /\ j - (i - 1) \in 1 .. n - i
      BY <1>1, <2>2
    <3>2. (front \o rest)[j] = seq[i + (j - (i - 1))]
      BY <1>3, <1>4, <3>1
    <3>3. i + (j - (i - 1)) = j + 1
      BY <1>1
    <3> QED
      BY <2>2, <3>2, <3>3
  <2> QED
    BY <2>1, <2>2
<1> QED
  BY <1>4, <1>5 DEF RemoveAt, front, rest, n

(* The elements that are left are those of the other places, in order.     *)
LEMMA AfterRemove ==
    ASSUME NEW S, NEW seq \in Seq(S), NEW i \in DOMAIN seq
    PROVE  /\ RemoveAt(seq, i) \in Seq(S)
           /\ \A j \in DOMAIN RemoveAt(seq, i) :
                 \E k \in DOMAIN seq : /\ k # i /\ RemoveAt(seq, i)[j] = seq[k]
                                       /\ k = IF j < i THEN j ELSE j + 1
           /\ \A k \in DOMAIN seq : k # i =>
                 \E j \in DOMAIN RemoveAt(seq, i) :
                    /\ RemoveAt(seq, i)[j] = seq[k]
                    /\ k = IF j < i THEN j ELSE j + 1
<1> DEFINE rest == RemoveAt(seq, i)
<1>1. Len(seq) \in Nat /\ DOMAIN seq = 1..Len(seq)
  BY LenProperties
<1>2. /\ rest \in Seq(S) /\ Len(rest) = Len(seq) - 1
      /\ \A j \in 1 .. Len(seq) - 1 :
            rest[j] = IF j < i THEN seq[j] ELSE seq[j + 1]
  BY RemoveAtProperties
<1>3. DOMAIN rest = 1 .. Len(seq) - 1
  BY <1>2, LenProperties
<1> HIDE DEF rest
<1>4. ASSUME NEW j \in DOMAIN rest
      PROVE  \E k \in DOMAIN seq : /\ k # i /\ rest[j] = seq[k]
                                   /\ k = IF j < i THEN j ELSE j + 1
  BY <1>1, <1>2, <1>3
<1>5. ASSUME NEW k \in DOMAIN seq, k # i
      PROVE  \E j \in DOMAIN rest : /\ rest[j] = seq[k]
                                    /\ k = IF j < i THEN j ELSE j + 1
  <2>1. CASE k < i
    BY <1>1, <1>2, <1>3, <2>1
  <2>2. CASE k > i
    <3>1. k - 1 \in DOMAIN rest /\ rest[k - 1] = seq[k - 1 + 1]
      BY <1>1, <1>2, <1>3, <2>2
    <3> QED
      BY <1>1, <2>2, <3>1
  <2> QED
    BY <1>1, <1>5, <2>1, <2>2
<1> QED
  BY <1>2, <1>4, <1>5 DEF rest

LEMMA AfterAppend ==
    ASSUME NEW S, NEW seq \in Seq(S), NEW e \in S
    PROVE  /\ Append(seq, e) \in Seq(S)
           /\ DOMAIN seq = 1..Len(seq) /\ Len(seq) \in Nat
           /\ Len(Append(seq, e)) = Len(seq) + 1
           /\ DOMAIN Append(seq, e) = 1 .. Len(seq) + 1
           /\ \A j \in DOMAIN seq : Append(seq, e)[j] = seq[j]
           /\ Append(seq, e)[Len(seq) + 1] = e
BY AppendProperties, LenProperties

(* A finite set as a sequence has its elements and no others.              *)
LEMMA SetToSeqProperties ==
    ASSUME NEW S, IsFiniteSet(S)
    PROVE  /\ SetToSeq(S) \in Seq(S)
           /\ \A s \in S : \E i \in DOMAIN SetToSeq(S) : SetToSeq(S)[i] = s
<1> DEFINE n == Cardinality(S)
<1>1. n \in Nat /\ Bijection(1..n, S) # {}
  BY FS_CardinalityType DEF ExistsBijection
<1>2. PICK g : g \in [1..n -> S] /\ IsInjective(g)
  BY <1>1 DEF Bijection, Injection
<1>3. SetToSeq(S) \in [1..n -> S] /\ IsInjective(SetToSeq(S))
  BY <1>2 DEF SetToSeq
<1>4. IsFiniteSet(1..n) /\ Cardinality(1..n) = n
  BY <1>1, FS_Interval
<1> DEFINE f == SetToSeq(S)
<1> HIDE DEF f
<1>5. f \in Injection(1..n, S)
  BY <1>3 DEF Injection, f
<1>6. Cardinality(1..n) = Cardinality(S) <=> f \in Surjection(1..n, S)
  BY <1>5, FS_Injection
<1>7. f \in Surjection(1..n, S)
  BY <1>4, <1>6
<1>8. \A s \in S : \E i \in 1..n : f[i] = s
  BY <1>7 DEF Surjection
<1>9. f \in Seq(S) /\ DOMAIN f = 1..n
  <2>1. f \in [1..n -> S]
    BY <1>3 DEF f
  <2> QED
    BY <1>1, <2>1, SeqDef
<1> QED
  BY <1>8, <1>9 DEF f

(* The elements of a set are added behind a sequence.                      *)
LEMMA AfterConcat ==
    ASSUME NEW T, NEW seq \in Seq(T), NEW S \in SUBSET T, IsFiniteSet(S)
    PROVE  /\ seq \o SetToSeq(S) \in Seq(T)
           /\ DOMAIN seq = 1..Len(seq) /\ Len(seq) \in Nat
           /\ \A j \in DOMAIN seq : /\ j \in DOMAIN (seq \o SetToSeq(S))
                                    /\ (seq \o SetToSeq(S))[j] = seq[j]
           /\ \A j \in DOMAIN (seq \o SetToSeq(S)) \ DOMAIN seq :
                 j > Len(seq) /\ (seq \o SetToSeq(S))[j] \in S
           /\ \A s \in S : \E j \in DOMAIN (seq \o SetToSeq(S)) :
                 j > Len(seq) /\ (seq \o SetToSeq(S))[j] = s
<1> DEFINE more == SetToSeq(S)
<1>1. more \in Seq(S) /\ \A s \in S : \E i \in DOMAIN more : more[i] = s
  BY SetToSeqProperties
<1> HIDE DEF more
<1>2. DOMAIN more = 1..Len(more) /\ Len(more) \in Nat /\ \A i \in 1..Len(more) : more[i] \in S
  BY <1>1, LenProperties, ElementOfSeq
<1>3. more \in Seq(T)
  <2>1. more \in [1..Len(more) -> T]
    BY <1>1, <1>2, LenProperties
  <2> QED
    BY <1>2, <2>1, SeqDef
<1>4. /\ seq \o more \in Seq(T)
      /\ Len(seq \o more) = Len(seq) + Len(more)
      /\ \A i \in 1 .. Len(seq) + Len(more) : (seq \o more)[i] =
            IF i <= Len(seq) THEN seq[i] ELSE more[i - Len(seq)]
  BY <1>3, ConcatProperties
<1>5. DOMAIN seq = 1..Len(seq) /\ Len(seq) \in Nat
  BY LenProperties
<1>6. DOMAIN (seq \o more) = 1 .. Len(seq) + Len(more)
  BY <1>4, LenProperties
<1>7. ASSUME NEW j \in DOMAIN seq
      PROVE  j \in DOMAIN (seq \o more) /\ (seq \o more)[j] = seq[j]
  BY <1>2, <1>4, <1>5, <1>6
<1>8. ASSUME NEW j \in DOMAIN (seq \o more) \ DOMAIN seq
      PROVE  j > Len(seq) /\ (seq \o more)[j] \in S
  <2>1. j > Len(seq) /\ j - Len(seq) \in 1..Len(more)
    BY <1>2, <1>5, <1>6
  <2>2. (seq \o more)[j] = more[j - Len(seq)]
    BY <1>2, <1>4, <1>5, <1>6, <2>1
  <2> QED
    BY <1>2, <2>1, <2>2
<1>9. ASSUME NEW s \in S
      PROVE  \E j \in DOMAIN (seq \o more) : j > Len(seq) /\ (seq \o more)[j] = s
  <2>1. PICK i \in 1..Len(more) : more[i] = s
    BY <1>1, <1>2
  <2>2. Len(seq) + i \in DOMAIN (seq \o more) /\ Len(seq) + i > Len(seq)
    BY <1>2, <1>5, <1>6
  <2>3. (seq \o more)[Len(seq) + i] = more[(Len(seq) + i) - Len(seq)]
    BY <1>2, <1>4, <1>5, <1>6, <2>2
  <2>4. (Len(seq) + i) - Len(seq) = i
    BY <1>2, <1>5
  <2> QED
    BY <2>1, <2>2, <2>3, <2>4
<1> QED
  BY <1>4, <1>5, <1>7, <1>8, <1>9 DEF more

-----------------------------------------------------------------------------
(* Types. *)

LEMMA TaskTyped ==
    ASSUME TypeInv, NEW i \in DOMAIN tasks
    PROVE  /\ tasks[i] \in TaskType
           /\ Of(i).at = "mempool" => Of(i) \in MempoolTask
           /\ Of(i).at \in {"submit", "save", "finalize"} => Of(i) \in SolutionTask
           /\ Of(i).at \in {"announce", "told"} => Of(i) \in WriteTask
<1>1. tasks[i] \in TaskType
  BY ElementOfSeq, LenProperties DEF TypeInv
<1> QED
  BY <1>1 DEF TaskType, MempoolTask, SolutionTask, WriteTask, Of

Announcements(conns, t) == {[at |-> "announce", conn |-> c, template |-> t] : c \in conns}

(* A template is sent: each client has it, and hears of it if the process   *)
(* goes on.                                                                *)
LEMMA AfterSend ==
    ASSUME TypeInv, NEW conns \in SUBSET Conns, NEW t \in Nat \ {0},
           SendTemplate(conns, t)
    PROVE  /\ served' \in [Conns -> SUBSET Nat]
           /\ \A c \in Conns : served'[c] = served[c] \cup IF c \in conns THEN {t} ELSE {}
           /\ tasks' \in Seq(TaskType) /\ crashed' \in BOOLEAN
           /\ DOMAIN tasks = 1..Len(tasks) /\ Len(tasks) \in Nat
           /\ \A j \in DOMAIN tasks : j \in DOMAIN tasks' /\ tasks'[j] = tasks[j]
           /\ \A j \in DOMAIN tasks' \ DOMAIN tasks :
                 j > Len(tasks) /\ tasks'[j] \in Announcements(conns, t)
           /\ ~crashed' => \A s \in Announcements(conns, t) :
                 \E j \in DOMAIN tasks' : j > Len(tasks) /\ tasks'[j] = s
<1>1. /\ served' \in [Conns -> SUBSET Nat]
      /\ \A c \in Conns : served'[c] = served[c] \cup IF c \in conns THEN {t} ELSE {}
  BY DEF SendTemplate, TypeInv
<1>2. DOMAIN tasks = 1..Len(tasks) /\ Len(tasks) \in Nat
  BY LenProperties DEF TypeInv
<1>3. CASE conns = {} \/ Payable(t)
  <2>1. /\ tasks' = tasks \o SetToSeq(Announcements(conns, t))
        /\ crashed' = crashed
    BY <1>3 DEF SendTemplate, Announcements
  <2>2. IsFiniteSet(Announcements(conns, t))
    <3> DEFINE f == [c \in conns |-> [at |-> "announce", conn |-> c, template |-> t]]
    <3>1. f \in Surjection(conns, Announcements(conns, t))
      BY DEF Surjection, Announcements
    <3>2. IsFiniteSet(conns)
      BY DeclaredWorkAssumption, FS_Subset
    <3> QED
      BY <3>1, <3>2, FS_Surjection
  <2>3. Announcements(conns, t) \in SUBSET TaskType
    BY DEF Announcements, TaskType, WriteTask
  <2>4. tasks \in Seq(TaskType) /\ crashed \in BOOLEAN
    BY DEF TypeInv
  <2> QED
    BY <1>1, <1>2, <2>1, <2>2, <2>3, <2>4, AfterConcat
<1>4. CASE ~(conns = {} \/ Payable(t))
  <2>1. tasks' = tasks /\ crashed' = TRUE
    BY <1>4 DEF SendTemplate
  <2> QED
    BY <1>1, <1>2, <2>1 DEF TypeInv
<1> QED
  BY <1>3, <1>4

LEMMA AfterSubmits ==
    ASSUME TypeInv, NEW c \in Conns, NEW solution \in SolutionType,
           NEW snapshot \in Nat, NEW job \in Nat, Submits(c, solution, snapshot, job)
    PROVE  /\ submitted' \in [Conns -> SUBSET SolutionType]
           /\ tasks' \in Seq(TaskType)
           /\ aux' \in AuxType
           /\ \A d \in Conns : submitted'[d] = submitted[d] \cup IF d = c THEN {solution} ELSE {}
           /\ DOMAIN tasks = 1..Len(tasks) /\ Len(tasks) \in Nat
           /\ DOMAIN tasks' = 1 .. Len(tasks) + 1
           /\ \A j \in DOMAIN tasks : tasks'[j] = tasks[j]
           /\ tasks'[Len(tasks) + 1] = [at |-> "submit", conn |-> c, solution |-> solution,
                                        snapshot |-> snapshot]
<1> DEFINE task == [at |-> "submit", conn |-> c, solution |-> solution, snapshot |-> snapshot]
<1>1. task \in TaskType
  BY DEF TaskType, SolutionTask
<1>2. tasks' = Append(tasks, task) /\ tasks \in Seq(TaskType)
  BY DEF Submits, TypeInv
<1> HIDE DEF task
<1>3. /\ submitted' \in [Conns -> SUBSET SolutionType]
      /\ \A d \in Conns : submitted'[d] = submitted[d] \cup IF d = c THEN {solution} ELSE {}
  BY DEF Submits, TypeInv
<1>4. aux' \in AuxType
  <2>1. aux' = [aux EXCEPT
                 !.built = @ \cup {[conn |-> c, solution |-> solution, job |-> job]},
                 !.twice = @ \/ \E b \in aux.built : b.conn = c /\ b.solution = solution]
    BY DEF Submits
  <2> DEFINE more == [conn |-> c, solution |-> solution, job |-> job]
             again == \E b \in aux.built : b.conn = c /\ b.solution = solution
  <2>2. more \in [conn : Conns, solution : SolutionType, job : Nat] /\ again \in BOOLEAN
    OBVIOUS
  <2>3. aux' = [aux EXCEPT !.built = @ \cup {more}, !.twice = @ \/ again]
    BY <2>1
  <2> HIDE DEF more, again
  <2> QED
    BY <2>2, <2>3 DEF TypeInv, AuxType
<1> QED
  BY <1>1, <1>2, <1>3, <1>4, AfterAppend DEF task

-----------------------------------------------------------------------------
(* Which steps touch what. *)

(* What a step may do to the history is a change of one part of it.        *)
LEMMA HistoryFrames ==
    ASSUME TypeInv, Next
    PROVE  /\ aux'.used = aux.used \/ SetCustomMiningJob
           /\ \/ aux'.built = aux.built /\ aux'.twice = aux.twice
              \/ \E c \in Conns : PushSolution(c) \/ SubmitSolution(c)
           /\ \/ /\ aux'.asked = aux.asked /\ aux'.reused = aux.reused
                 /\ aux'.unknown = aux.unknown
              \/ \E c \in Conns : AskTransactions(c) \/ ProvideTransactions(c)
              \/ \E i \in DOMAIN tasks : Provided(i) \/ ProvidedInVain(i)
           /\ \/ aux'.denied = aux.denied
              \/ \E c \in Conns : RequestTransactionData(c)
<1>1. aux \in AuxType
  BY DEF TypeInv
<1>2. \/ UNCHANGED aux
      \/ SetCustomMiningJob
      \/ \E c \in Conns : \/ PushSolution(c) \/ SubmitSolution(c) \/ RequestTransactionData(c)
                          \/ AskTransactions(c) \/ ProvideTransactions(c)
      \/ \E i \in DOMAIN tasks : Provided(i) \/ ProvidedInVain(i)
  BY DEF Next, Handles, Wakes, Negotiate, AllocateToken, DeclareMiningJob, SubscribeTemplates,
         Close, NewTemplate, Tick, NodeAnswers, SaveBlock, Finalize, DatabaseFails,
         TellTemplate, TellFails
<1>3. SetCustomMiningJob =>
        /\ aux'.built = aux.built /\ aux'.twice = aux.twice /\ aux'.asked = aux.asked
        /\ aux'.reused = aux.reused /\ aux'.unknown = aux.unknown /\ aux'.denied = aux.denied
  BY <1>1 DEF SetCustomMiningJob, AuxType
<1>4. ASSUME NEW c \in Conns, PushSolution(c) \/ SubmitSolution(c)
      PROVE  /\ aux'.used = aux.used /\ aux'.asked = aux.asked
             /\ aux'.reused = aux.reused /\ aux'.unknown = aux.unknown /\ aux'.denied = aux.denied
  <2>1. ASSUME NEW solution, NEW snapshot, NEW job, Submits(c, solution, snapshot, job)
        PROVE  /\ aux'.used = aux.used /\ aux'.asked = aux.asked
               /\ aux'.reused = aux.reused /\ aux'.unknown = aux.unknown /\ aux'.denied = aux.denied
    BY <1>1, <2>1 DEF Submits, AuxType
  <2> QED
    BY <1>4, <2>1 DEF PushSolution, SubmitSolution
<1>5. ASSUME NEW c \in Conns, RequestTransactionData(c)
      PROVE  /\ aux'.used = aux.used /\ aux'.built = aux.built /\ aux'.twice = aux.twice
             /\ aux'.asked = aux.asked /\ aux'.reused = aux.reused /\ aux'.unknown = aux.unknown
  BY <1>1, <1>5 DEF RequestTransactionData, AuxType
<1>6. ASSUME \/ \E c \in Conns : AskTransactions(c) \/ ProvideTransactions(c)
             \/ \E i \in DOMAIN tasks : Provided(i) \/ ProvidedInVain(i)
      PROVE  /\ aux'.used = aux.used /\ aux'.built = aux.built /\ aux'.twice = aux.twice
             /\ aux'.denied = aux.denied
  <2>1. ASSUME NEW c \in Conns, AskTransactions(c)
        PROVE  /\ aux'.used = aux.used /\ aux'.built = aux.built /\ aux'.twice = aux.twice
               /\ aux'.denied = aux.denied
    BY <1>1, <2>1 DEF AskTransactions, AuxType
  <2>2. ASSUME NEW c \in Conns, ProvideTransactions(c)
        PROVE  /\ aux'.used = aux.used /\ aux'.built = aux.built /\ aux'.twice = aux.twice
               /\ aux'.denied = aux.denied
    BY <1>1, <2>2 DEF ProvideTransactions, ProvideUnasked, ProvideWrong, ProvideRight, AuxType
  <2>3. ASSUME NEW i \in DOMAIN tasks, Provided(i) \/ ProvidedInVain(i)
        PROVE  /\ aux'.used = aux.used /\ aux'.built = aux.built /\ aux'.twice = aux.twice
               /\ aux'.denied = aux.denied
    BY <1>1, <2>3 DEF Provided, ProvidedInVain, AuxType
  <2> QED
    BY <1>6, <2>1, <2>2, <2>3
<1> QED
  BY <1>2, <1>3, <1>4, <1>5, <1>6

LEMMA Frames ==
    ASSUME Next
    PROVE  /\ UNCHANGED <<config, kind>> /\ ~crashed
           /\ UNCHANGED now \/ Tick
           /\ UNCHANGED storedAt \/ NewTemplate \/ \E c \in Conns : SubscribeTemplates(c)
           /\ UNCHANGED tokens \/ \E c \in Conns : AllocateToken(c)
           /\ \/ UNCHANGED <<jobs, latestJob>>
              \/ \E c \in Conns : DeclareMiningJob(c)
              \/ \E i \in DOMAIN tasks : Provided(i)
           /\ \/ UNCHANGED pending
              \/ \E c \in Conns : AskTransactions(c) \/ ProvideTransactions(c)
              \/ \E i \in DOMAIN tasks : Provided(i) \/ ProvidedInVain(i)
           /\ \/ UNCHANGED served
              \/ \E c \in Conns : SubscribeTemplates(c) \/ RequestTransactionData(c)
              \/ NewTemplate
           /\ UNCHANGED active \/ \E i \in DOMAIN tasks : TellTemplate(i)
           /\ UNCHANGED submitted \/ \E c \in Conns : PushSolution(c) \/ SubmitSolution(c)
           /\ UNCHANGED finalized \/ \E i \in DOMAIN tasks : Finalize(i)
           /\ msgs' \in {msgs, msgs + 1}
<1> USE DEF Next, Handles, Wakes, Elsewhere, provider, registry, jdp, tdp, found, Receives,
      Negotiate, AllocateToken, DeclareMiningJob, AskTransactions, ProvideTransactions,
      PushSolution, SubscribeTemplates, RequestTransactionData, SubmitSolution, Close,
      SetCustomMiningJob, NewTemplate, Tick, Provided, ProvidedInVain, NodeAnswers, SaveBlock,
      Finalize, DatabaseFails, TellTemplate, TellFails
<1>1. UNCHANGED <<config, kind>> /\ ~crashed
  OBVIOUS
<1>2. UNCHANGED now \/ Tick
  OBVIOUS
<1>3. UNCHANGED storedAt \/ NewTemplate \/ \E c \in Conns : SubscribeTemplates(c)
  <2>1. ASSUME NEW c \in Conns, Handles(c), ~SubscribeTemplates(c) PROVE UNCHANGED storedAt
    BY ONLY <2>1 DEF Handles, Elsewhere, provider, Negotiate, AllocateToken, DeclareMiningJob,
                     AskTransactions, ProvideTransactions, PushSolution,
                     RequestTransactionData, SubmitSolution, Close
  <2>2. ASSUME NEW i \in DOMAIN tasks, Wakes(i) PROVE UNCHANGED storedAt
    BY ONLY <2>2 DEF Wakes, Elsewhere, provider, Provided, ProvidedInVain, NodeAnswers, SaveBlock,
                     Finalize, DatabaseFails, TellTemplate, TellFails
  <2>3. ASSUME SetCustomMiningJob \/ Tick PROVE UNCHANGED storedAt
    BY ONLY <2>3 DEF SetCustomMiningJob, Tick, Elsewhere, provider
  <2> HIDE DEF Handles, Wakes, NewTemplate, Tick, SetCustomMiningJob, SubscribeTemplates
  <2> QED
    BY ONLY Next, <2>1, <2>2, <2>3 DEF Next
<1>4. UNCHANGED tokens \/ \E c \in Conns : AllocateToken(c)
  <2>1. ASSUME NEW c \in Conns, Handles(c), ~AllocateToken(c) PROVE UNCHANGED tokens
    BY ONLY <2>1 DEF Handles, Declares, registry, Negotiate, DeclareMiningJob, AskTransactions,
                     ProvideTransactions, PushSolution, SubscribeTemplates,
                     RequestTransactionData, SubmitSolution, Close
  <2>2. ASSUME NEW i \in DOMAIN tasks, Wakes(i) PROVE UNCHANGED tokens
    BY ONLY <2>2 DEF Wakes, Declares, registry, Provided, ProvidedInVain, NodeAnswers, SaveBlock,
                     Finalize, DatabaseFails, TellTemplate, TellFails
  <2>3. ASSUME SetCustomMiningJob \/ NewTemplate \/ Tick PROVE UNCHANGED tokens
    BY ONLY <2>3 DEF SetCustomMiningJob, NewTemplate, Tick, registry
  <2> HIDE DEF Handles, Wakes, NewTemplate, Tick, SetCustomMiningJob, AllocateToken
  <2> QED
    BY ONLY Next, <2>1, <2>2, <2>3 DEF Next
<1>5. \/ UNCHANGED <<jobs, latestJob>>
      \/ \E c \in Conns : DeclareMiningJob(c)
      \/ \E i \in DOMAIN tasks : Provided(i)
  <2>1. ASSUME NEW c \in Conns, Handles(c), ~DeclareMiningJob(c) PROVE UNCHANGED <<jobs, latestJob>>
    BY ONLY <2>1 DEF Handles, registry, jdp, Negotiate, AllocateToken, AskTransactions,
                     ProvideTransactions, PushSolution, SubscribeTemplates,
                     RequestTransactionData, SubmitSolution, Close
  <2>2. ASSUME NEW i \in DOMAIN tasks, Wakes(i), ~Provided(i) PROVE UNCHANGED <<jobs, latestJob>>
    BY ONLY <2>2 DEF Wakes, registry, jdp, ProvidedInVain, NodeAnswers, SaveBlock, Finalize,
                     DatabaseFails, TellTemplate, TellFails
  <2>3. ASSUME SetCustomMiningJob \/ NewTemplate \/ Tick PROVE UNCHANGED <<jobs, latestJob>>
    BY <2>3
  <2> HIDE DEF Handles, Wakes, NewTemplate, Tick, SetCustomMiningJob, DeclareMiningJob, Provided
  <2> QED
    BY ONLY Next, <2>1, <2>2, <2>3 DEF Next
<1>6. \/ UNCHANGED pending
      \/ \E c \in Conns : AskTransactions(c) \/ ProvideTransactions(c)
      \/ \E i \in DOMAIN tasks : Provided(i) \/ ProvidedInVain(i)
  OBVIOUS
<1>7. \/ UNCHANGED served
      \/ \E c \in Conns : SubscribeTemplates(c) \/ RequestTransactionData(c)
      \/ NewTemplate
  OBVIOUS
<1>8. UNCHANGED active \/ \E i \in DOMAIN tasks : TellTemplate(i)
  OBVIOUS
<1>9. UNCHANGED submitted \/ \E c \in Conns : PushSolution(c) \/ SubmitSolution(c)
  OBVIOUS
<1>10. UNCHANGED finalized \/ \E i \in DOMAIN tasks : Finalize(i)
  <2>1. ASSUME NEW c \in Conns, Handles(c) PROVE UNCHANGED finalized
    BY <2>1 DEF Submits
  <2>2. ASSUME NEW i \in DOMAIN tasks, Wakes(i), ~Finalize(i) PROVE UNCHANGED finalized
    BY <2>2
  <2>3. ASSUME SetCustomMiningJob \/ NewTemplate \/ Tick PROVE UNCHANGED finalized
    BY <2>3
  <2> HIDE DEF Handles, Wakes, NewTemplate, Tick, SetCustomMiningJob, Finalize
  <2> QED
    BY ONLY Next, <2>1, <2>2, <2>3 DEF Next
<1>11. msgs' \in {msgs, msgs + 1}
  OBVIOUS
<1> QED
  BY ONLY <1>1, <1>2, <1>3, <1>4, <1>5, <1>6, <1>7, <1>8, <1>9, <1>10, <1>11

(* Where a handler that waits after a step comes from: it waited before, or *)
(* goes on, or has begun.                                                   *)
Waited(task) == \E i \in DOMAIN tasks : task = tasks[i]

GoneOn(task) ==
    \E i \in DOMAIN tasks :
        /\ tasks[i] \in SolutionTask
        /\ task \in SolutionTask
        /\ task.conn = tasks[i].conn /\ task.solution = tasks[i].solution
        /\ task.snapshot = tasks[i].snapshot

Told(task) ==
    \E i \in DOMAIN tasks :
        /\ tasks[i] \in WriteTask
        /\ task \in WriteTask
        /\ task.conn = tasks[i].conn /\ task.template = tasks[i].template

BeginsCheck(task) ==
    /\ task \in MempoolTask
    /\ task.was = pending[task.conn][task.req]

BeginsSolution(task) ==
    \E c \in Conns, solution \in SolutionType, snapshot \in Nat, job \in Nat :
        /\ Submits(c, solution, snapshot, job)
        /\ PushSolution(c) \/ SubmitSolution(c)
        /\ task = [at |-> "submit", conn |-> c, solution |-> solution, snapshot |-> snapshot]

BeginsWrite(task) ==
    \E conns \in SUBSET Conns, t \in Nat \ {0} :
        SendTemplate(conns, t) /\ task \in Announcements(conns, t)

Origin(task) ==
    \/ Waited(task)
    \/ GoneOn(task)
    \/ Told(task)
    \/ BeginsCheck(task)
    \/ BeginsSolution(task)
    \/ BeginsWrite(task)

(* Origins are typed, so it is enough to say where each element is from.    *)
LEMMA DoneOrigins ==
    ASSUME TypeInv, NEW i \in DOMAIN tasks, Done(i)
    PROVE  tasks' \in Seq(TaskType) /\ \A j \in DOMAIN tasks' : Origin(tasks'[j])
<1>1. tasks' = RemoveAt(tasks, i) /\ tasks \in Seq(TaskType)
  BY DEF Done, TypeInv
<1>2. tasks' \in Seq(TaskType)
      /\ \A j \in DOMAIN tasks' : \E k \in DOMAIN tasks : tasks'[j] = tasks[k]
  BY <1>1, AfterRemove
<1> QED
  BY <1>2 DEF Origin, Waited

LEMMA GoesOnOrigins ==
    ASSUME TypeInv, NEW i \in DOMAIN tasks, NEW at \in {"save", "finalize"},
           Of(i).at \in {"submit", "save"}, GoesOn(i, at)
    PROVE  tasks' \in Seq(TaskType) /\ \A j \in DOMAIN tasks' : Origin(tasks'[j])
<1> DEFINE task == [tasks[i] EXCEPT !.at = at]
<1>1. tasks' = [tasks EXCEPT ![i] = task] /\ tasks \in Seq(TaskType)
  BY DEF GoesOn, TypeInv
<1>2. tasks[i] \in SolutionTask
  BY TaskTyped DEF Of
<1>3. /\ task \in SolutionTask /\ task.conn = tasks[i].conn
      /\ task.solution = tasks[i].solution /\ task.snapshot = tasks[i].snapshot
  BY <1>2 DEF SolutionTask
<1> HIDE DEF task
<1>4. task \in TaskType
  BY <1>3 DEF TaskType
<1>5. i \in 1..Len(tasks) /\ DOMAIN tasks = 1..Len(tasks)
  BY <1>1, LenProperties
<1>6. /\ tasks' \in Seq(TaskType) /\ Len(tasks') = Len(tasks)
      /\ \A j \in 1..Len(tasks) : tasks'[j] = IF j = i THEN task ELSE tasks[j]
  BY <1>1, <1>4, <1>5, ExceptSeq
<1>7. DOMAIN tasks' = 1..Len(tasks)
  BY <1>6, LenProperties
<1>8. GoneOn(task)
  BY <1>2, <1>3 DEF GoneOn
<1> QED
  BY <1>5, <1>6, <1>7, <1>8 DEF Origin, Waited

LEMMA SendOrigins ==
    ASSUME TypeInv, NEW conns \in SUBSET Conns, NEW t \in Nat \ {0}, SendTemplate(conns, t)
    PROVE  tasks' \in Seq(TaskType) /\ \A j \in DOMAIN tasks' : Origin(tasks'[j])
<1>1. /\ tasks' \in Seq(TaskType)
      /\ \A j \in DOMAIN tasks : tasks'[j] = tasks[j]
      /\ \A j \in DOMAIN tasks' \ DOMAIN tasks : tasks'[j] \in Announcements(conns, t)
  BY AfterSend
<1>2. \A j \in DOMAIN tasks : Waited(tasks'[j])
  BY <1>1 DEF Waited
<1>3. \A j \in DOMAIN tasks' \ DOMAIN tasks : BeginsWrite(tasks'[j])
  BY <1>1 DEF BeginsWrite
<1> QED
  BY <1>1, <1>2, <1>3 DEF Origin

LEMMA TellOrigins ==
    ASSUME TypeInv, NEW i \in DOMAIN tasks, TellTemplate(i)
    PROVE  tasks' \in Seq(TaskType) /\ \A j \in DOMAIN tasks' : Origin(tasks'[j])
<1>1. CASE Of(i).at # "announce"
  BY <1>1, DoneOrigins DEF TellTemplate
<1>2. CASE Of(i).at = "announce"
  <2> DEFINE told == [Of(i) EXCEPT !.at = "told"]
             rest == RemoveAt(tasks, i)
  <2>1. tasks' = Append(rest, told) /\ tasks \in Seq(TaskType)
    BY <1>2 DEF TellTemplate, TypeInv
  <2>2. tasks[i] \in WriteTask
    BY <1>2, TaskTyped DEF Of
  <2>3. told \in WriteTask /\ told.conn = tasks[i].conn /\ told.template = tasks[i].template
    BY <2>2 DEF Of, WriteTask
  <2> HIDE DEF told
  <2>4. /\ rest \in Seq(TaskType)
        /\ \A j \in DOMAIN rest : \E k \in DOMAIN tasks : rest[j] = tasks[k]
    BY <2>1, AfterRemove
  <2> HIDE DEF rest
  <2>5. told \in TaskType /\ Told(told)
    BY <2>2, <2>3 DEF TaskType, Told
  <2>6. /\ tasks' \in Seq(TaskType) /\ DOMAIN tasks' = 1 .. Len(rest) + 1
        /\ DOMAIN rest = 1..Len(rest) /\ Len(rest) \in Nat
        /\ \A j \in DOMAIN rest : tasks'[j] = rest[j]
        /\ tasks'[Len(rest) + 1] = told
    BY <2>1, <2>4, <2>5, AfterAppend
  <2>7. \A j \in DOMAIN rest : Waited(tasks'[j])
    BY <2>4, <2>6 DEF Waited
  <2>8. \A j \in DOMAIN tasks' : j \in DOMAIN rest \/ j = Len(rest) + 1
    BY <2>6
  <2> QED
    BY <2>5, <2>6, <2>7, <2>8 DEF Origin
<1> QED
  BY <1>1, <1>2

LEMMA CheckOrigins ==
    ASSUME TypeInv, NEW c \in Conns, NEW r \in ReqIds, ProvideRight(c, r)
    PROVE  tasks' \in Seq(TaskType) /\ \A j \in DOMAIN tasks' : Origin(tasks'[j])
<1> DEFINE task == [at |-> "mempool", conn |-> c, req |-> r, was |-> pending[c][r]]
<1>1. tasks' = Append(tasks, task) /\ tasks \in Seq(TaskType)
  BY DEF ProvideRight, TypeInv
<1>2. task \in MempoolTask /\ task.was = pending[task.conn][task.req]
  BY DEF ProvideRight, TypeInv, MempoolTask
<1> HIDE DEF task
<1>3. task \in TaskType /\ BeginsCheck(task)
  BY <1>2 DEF TaskType, BeginsCheck
<1>4. /\ tasks' \in Seq(TaskType) /\ DOMAIN tasks' = 1 .. Len(tasks) + 1
      /\ DOMAIN tasks = 1..Len(tasks) /\ Len(tasks) \in Nat
      /\ \A j \in DOMAIN tasks : tasks'[j] = tasks[j]
      /\ tasks'[Len(tasks) + 1] = task
  BY <1>1, <1>3, AfterAppend
<1>5. \A j \in DOMAIN tasks : Waited(tasks'[j])
  BY <1>4 DEF Waited
<1>6. \A j \in DOMAIN tasks' : j \in DOMAIN tasks \/ j = Len(tasks) + 1
  BY <1>4
<1> QED
  BY <1>3, <1>4, <1>5, <1>6 DEF Origin

(* A solution, of JDP or TDP, is of a job or a template there is.           *)
LEMMA SolutionOrigins ==
    ASSUME TypeInv, NEW c \in Conns, PushSolution(c) \/ SubmitSolution(c)
    PROVE  \E solution \in SolutionType, snapshot \in Nat, job \in Nat :
              /\ Submits(c, solution, snapshot, job)
              /\ solution \notin submitted[c]
              /\ PushSolution(c) =>
                    /\ kind[c] = "jdp" /\ solution.on \in DOMAIN jobs
                    /\ job = latestJob[c] /\ job # 0
                    /\ snapshot \in {0, jobs[job].template}
              /\ SubmitSolution(c) => kind[c] = "tdp" /\ snapshot \in {0, solution.on}
<1>1. ~(PushSolution(c) /\ SubmitSolution(c))
  BY DEF PushSolution, SubmitSolution, Receives
<1>2. CASE PushSolution(c)
  <2>1. PICK j \in DOMAIN jobs, n \in Solutions :
          /\ [on |-> j, n |-> n] \notin submitted[c]
          /\ Submits(c, [on |-> j, n |-> n], Outputs(jobs[BuiltFrom(c)].template), BuiltFrom(c))
    BY <1>2 DEF PushSolution
  <2> DEFINE solution == [on |-> j, n |-> n]
             job == BuiltFrom(c)
  <2>2. DOMAIN jobs = 1..Len(jobs) /\ Len(jobs) \in Nat
    BY LenProperties DEF TypeInv
  <2>3. kind[c] = "jdp" /\ job = latestJob[c] /\ job \in DOMAIN jobs /\ job # 0
    BY <1>2, <2>2 DEF PushSolution, Receives, BuiltFrom, TypeInv
  <2>4. jobs[job].template \in Nat
    <3> HIDE DEF job
    <3>1. jobs[job] \in JobType
      BY <2>2, <2>3, ElementOfSeq DEF TypeInv
    <3> QED
      BY <3>1 DEF JobType
  <2>5. solution \in SolutionType /\ solution.on = j
    BY <2>2 DEF SolutionType
  <2>6. PICK snapshot \in {0, jobs[job].template} :
             /\ Submits(c, solution, snapshot, job) /\ solution \notin submitted[c]
             /\ job \in Nat
    BY <2>1, <2>2, <2>3 DEF Outputs
  <2> HIDE DEF job, solution
  <2> QED
    BY <1>1, <1>2, <2>3, <2>4, <2>5, <2>6
<1>3. CASE SubmitSolution(c)
  <2>1. PICK t \in AvailableTemplates(c), n \in Solutions :
          /\ Paying(t, n) \notin submitted[c]
          /\ Submits(c, Paying(t, n), Outputs(t), 0)
    BY <1>3 DEF SubmitSolution
  <2>2. t \in Nat /\ Outputs(t) \in {0, t}
    BY LenProperties DEF AvailableTemplates, Templates, Emitted, TypeInv, Outputs
  <2>3. Paying(t, n) \in SolutionType /\ Paying(t, n).on = t
    BY <2>2 DEF Paying, SolutionType
  <2>4. kind[c] = "tdp"
    BY <1>3 DEF SubmitSolution, Receives
  <2> QED
    BY <1>1, <1>3, <2>1, <2>2, <2>3, <2>4
<1> QED
  BY <1>2, <1>3

LEMMA TaskOrigins ==
    ASSUME TypeInv, Next
    PROVE  tasks' \in Seq(TaskType) /\ \A j \in DOMAIN tasks' : Origin(tasks'[j])
<1> DEFINE Goal == tasks' \in Seq(TaskType) /\ \A j \in DOMAIN tasks' : Origin(tasks'[j])
<1>1. ASSUME UNCHANGED tasks PROVE Goal
  BY <1>1 DEF Origin, Waited, TypeInv
<1>2. ASSUME NEW i \in DOMAIN tasks, Wakes(i) PROVE Goal
  <2>1. Done(i) => Goal
    BY DoneOrigins
  <2>2. CASE Provided(i) \/ ProvidedInVain(i) \/ Finalize(i) \/ DatabaseFails(i)
    BY <2>1, <2>2 DEF Provided, ProvidedInVain, Finalize, DatabaseFails
  <2>3. CASE NodeAnswers(i)
    BY <2>3, GoesOnOrigins DEF NodeAnswers
  <2>4. CASE SaveBlock(i)
    BY <2>1, <2>4, GoesOnOrigins DEF SaveBlock
  <2>5. CASE TellTemplate(i)
    BY <2>5, TellOrigins
  <2>6. CASE TellFails(i)
    BY <1>1, <2>6 DEF TellFails
  <2> QED
    BY <1>2, <2>2, <2>3, <2>4, <2>5, <2>6 DEF Wakes
<1>3. ASSUME NEW c \in Conns, ProvideTransactions(c) PROVE Goal
  <2>1. PICK r \in ReqIds : ProvideUnasked(c, r) \/ ProvideWrong(c, r) \/ ProvideRight(c, r)
    BY <1>3 DEF ProvideTransactions
  <2> QED
    BY <1>1, <2>1, CheckOrigins DEF ProvideUnasked, ProvideWrong
<1>4. ASSUME NEW c \in Conns, PushSolution(c) \/ SubmitSolution(c) PROVE Goal
  <2>1. PICK solution \in SolutionType, snapshot \in Nat, job \in Nat :
           Submits(c, solution, snapshot, job)
    BY <1>4, SolutionOrigins
  <2>2. /\ tasks' \in Seq(TaskType)
        /\ DOMAIN tasks = 1..Len(tasks) /\ Len(tasks) \in Nat
        /\ DOMAIN tasks' = 1 .. Len(tasks) + 1
        /\ \A j \in DOMAIN tasks : tasks'[j] = tasks[j]
        /\ tasks'[Len(tasks) + 1] = [at |-> "submit", conn |-> c, solution |-> solution,
                                     snapshot |-> snapshot]
    BY <2>1, AfterSubmits
  <2>3. BeginsSolution(tasks'[Len(tasks) + 1])
    BY <1>4, <2>1, <2>2 DEF BeginsSolution
  <2>4. \A j \in DOMAIN tasks' : j \in DOMAIN tasks \/ j = Len(tasks) + 1
    BY <2>2
  <2> QED
    BY <2>2, <2>3, <2>4 DEF Origin, Waited
<1>5. Len(storedAt) \in Nat \ {0} /\ Len(storedAt) + 1 \in Nat \ {0}
  BY LenProperties DEF TypeInv
<1>6. ASSUME NEW c \in Conns, SubscribeTemplates(c) PROVE Goal
  <2>1. {c} \in SUBSET Conns /\ SendTemplate({c}, Len(storedAt))
    BY <1>6 DEF SubscribeTemplates, Emitted
  <2> QED
    BY <1>5, <2>1, SendOrigins
<1>7. ASSUME NewTemplate PROVE Goal
  <2>1. subscribed \in SUBSET Conns /\ SendTemplate(subscribed, Len(storedAt) + 1)
    BY <1>7 DEF NewTemplate, Emitted, TypeInv
  <2> QED
    BY <1>5, <2>1, SendOrigins
<1>8. ASSUME NEW c \in Conns, Handles(c) PROVE Goal
  <2>1. \/ UNCHANGED tasks \/ ProvideTransactions(c) \/ PushSolution(c) \/ SubmitSolution(c)
        \/ SubscribeTemplates(c)
    BY <1>8 DEF Handles, Negotiate, AllocateToken, DeclareMiningJob, AskTransactions,
                RequestTransactionData, Close
  <2> QED
    BY <1>1, <1>3, <1>4, <1>6, <2>1
<1>9. SetCustomMiningJob \/ Tick => UNCHANGED tasks
  BY DEF SetCustomMiningJob, Tick
<1> QED
  BY <1>1, <1>2, <1>7, <1>8, <1>9 DEF Next

-----------------------------------------------------------------------------
(* Tokens, jobs and what they were checked against. *)

TokenOK(k) ==
    /\ tokens[k].created <= now
    /\ tokens[k].from <= Len(storedAt)
    /\ tokens[k].outputs \in {0, tokens[k].from}

(* A job, declared or about to be, names a template that was the latest     *)
(* when it was checked, after its token was allocated.                      *)
EntryOK(e) ==
    /\ e.token \in DOMAIN tokens
    /\ tokens[e.token].created <= e.checked
    /\ tokens[e.token].from <= e.latest
    /\ e.template = e.latest /\ e.latest <= Len(storedAt)

JobOK(job) ==
    /\ job.token \in DOMAIN tokens
    /\ tokens[job.token].from <= job.latest
    /\ job.template = job.latest /\ job.latest <= Len(storedAt)
    /\ job.created - job.checked <= Ttl

RegistryInv ==
    /\ \A k \in DOMAIN tokens : TokenOK(k)
    /\ \A c \in Conns, r \in ReqIds : pending[c][r] # NoPending => EntryOK(pending[c][r])
    /\ \A i \in DOMAIN tasks : tasks[i].at = "mempool" => EntryOK(tasks[i].was)
    /\ \A j \in DOMAIN jobs : JobOK(jobs[j])

JobOf(c, e) == [conn |-> c, token |-> e.token, template |-> e.template,
                checked |-> e.checked, latest |-> e.latest, created |-> now]

(* Nothing is taken back.                                                   *)
Grows ==
    /\ now <= now' /\ Len(storedAt) <= Len(storedAt')
    /\ \A k \in DOMAIN tokens : k \in DOMAIN tokens' /\ tokens'[k] = tokens[k]
    /\ \A j \in DOMAIN jobs : j \in DOMAIN jobs' /\ jobs'[j] = jobs[j]

LEMMA LatestIsLast ==
    ASSUME TypeInv, NEW t \in LatestTemplate
    PROVE  t = Len(storedAt) /\ Len(storedAt) \in Nat \ {0}
BY LenProperties DEF LatestTemplate, Emitted, TypeInv

(* What a job that is declared now was checked against.                     *)
LEMMA FreshEntry ==
    ASSUME TypeInv, RegistryInv, NEW k \in DOMAIN tokens, NEW t \in LatestTemplate,
           NEW serial \in Nat \ {0}
    PROVE  LET e == [token |-> k, template |-> t, checked |-> now, latest |-> Emitted,
                     serial |-> serial]
           IN  e \in EntryType /\ EntryOK(e) /\ e # NoPending
<1>1. t = Len(storedAt) /\ Len(storedAt) \in Nat \ {0}
  BY LatestIsLast
<1>2. k \in Nat \ {0} /\ now \in Nat
  BY LenProperties, DeclaredWorkAssumption DEF TypeInv
<1>3. tokens[k].created <= now /\ tokens[k].from <= Len(storedAt)
  BY DEF RegistryInv, TokenOK
<1> QED
  BY <1>1, <1>2, <1>3 DEF EntryType, EntryOK, Emitted, NoPending

(* What was checked is still declared under a living token only.            *)
LEMMA JobSteps ==
    ASSUME TypeInv, RegistryInv, Next
    PROVE  \/ UNCHANGED <<jobs, latestJob>>
           \/ /\ UNCHANGED <<now, storedAt, tokens>>
              /\ \E c \in Conns, e \in EntryType :
                    /\ EntryOK(e) /\ Alive(tokens[e.token])
                    /\ jobs' = Append(jobs, JobOf(c, e))
                    /\ latestJob' = [latestJob EXCEPT ![c] = Len(jobs) + 1]
<1>1. ASSUME NEW c \in Conns, DeclareMiningJob(c)
      PROVE  /\ UNCHANGED <<now, storedAt, tokens>>
             /\ \E e \in EntryType :
                   /\ EntryOK(e) /\ Alive(tokens[e.token])
                   /\ jobs' = Append(jobs, JobOf(c, e))
                   /\ latestJob' = [latestJob EXCEPT ![c] = Len(jobs) + 1]
  <2>1. PICK t \in LatestTemplate, k \in DOMAIN tokens : Declares(c, k, t, Checked)
    BY <1>1 DEF DeclareMiningJob
  <2> DEFINE e == [token |-> k, template |-> t, checked |-> now, latest |-> Emitted,
                   serial |-> 1]
  <2>2. e \in EntryType /\ EntryOK(e)
    BY FreshEntry
  <2>3. /\ Alive(tokens[e.token])
        /\ jobs' = Append(jobs, JobOf(c, e))
        /\ latestJob' = [latestJob EXCEPT ![c] = Len(jobs) + 1]
    BY <2>1 DEF Declares, Allocated, Checked, JobOf
  <2>4. UNCHANGED <<now, storedAt, tokens>>
    BY <1>1, <2>1 DEF DeclareMiningJob, Declares, Elsewhere, provider
  <2> HIDE DEF e
  <2> QED
    BY <2>2, <2>3, <2>4
<1>2. ASSUME NEW i \in DOMAIN tasks, Provided(i)
      PROVE  /\ UNCHANGED <<now, storedAt, tokens>>
             /\ \E c \in Conns, e \in EntryType :
                   /\ EntryOK(e) /\ Alive(tokens[e.token])
                   /\ jobs' = Append(jobs, JobOf(c, e))
                   /\ latestJob' = [latestJob EXCEPT ![c] = Len(jobs) + 1]
  <2>1. tasks[i] \in MempoolTask /\ tasks[i].at = "mempool"
    BY <1>2, TaskTyped DEF Provided, Of
  <2> DEFINE c == tasks[i].conn
             e == tasks[i].was
  <2>2. c \in Conns /\ e \in EntryType /\ EntryOK(e)
    BY <2>1 DEF MempoolTask, RegistryInv
  <2>3. Declares(c, e.token, e.template, e) /\ UNCHANGED <<now, storedAt>>
    BY <1>2 DEF Provided, Of, Elsewhere, provider
  <2> HIDE DEF c, e
  <2>4. /\ Alive(tokens[e.token])
        /\ jobs' = Append(jobs, JobOf(c, e))
        /\ latestJob' = [latestJob EXCEPT ![c] = Len(jobs) + 1]
        /\ UNCHANGED tokens
    BY <2>3 DEF Declares, Allocated, JobOf
  <2> QED
    BY <2>2, <2>3, <2>4
<1> QED
  BY <1>1, <1>2, Frames

LEMMA NewJob ==
    ASSUME TypeInv, RegistryInv, NEW c \in Conns, NEW e \in EntryType, EntryOK(e),
           Alive(tokens[e.token])
    PROVE  JobOf(c, e) \in JobType /\ JobOK(JobOf(c, e))
<1>1. now \in Nat /\ Ttl \in Nat /\ e.token \in DOMAIN tokens
  BY DeclaredWorkAssumption DEF TypeInv, EntryOK
<1>2. tokens[e.token] \in TokenType
  BY <1>1, ElementOfSeq, LenProperties DEF TypeInv
<1>3. JobOf(c, e) \in JobType
  BY <1>1 DEF JobOf, JobType, EntryType
<1>4. now - e.checked <= Ttl
  <2>1. /\ tokens[e.token].created \in Nat /\ tokens[e.token].created <= e.checked
        /\ tokens[e.token].created >= now - Ttl /\ e.checked \in Nat
    BY <1>2 DEF TokenType, EntryOK, Alive, EntryType
  <2> QED
    BY <1>1, <2>1
<1> QED
  BY <1>1, <1>3, <1>4 DEF JobOf, JobOK, EntryOK

LEMMA TokenSteps ==
    ASSUME TypeInv, Next
    PROVE  \/ UNCHANGED tokens
           \/ /\ UNCHANGED <<now, storedAt>>
              /\ \E outputs \in {0, Len(storedAt)} :
                    tokens' = Append(tokens, [outputs |-> outputs, from |-> Len(storedAt),
                                              created |-> now])
<1>1. ASSUME NEW c \in Conns, AllocateToken(c)
      PROVE  /\ UNCHANGED <<now, storedAt>>
             /\ \E outputs \in {0, Len(storedAt)} :
                    tokens' = Append(tokens, [outputs |-> outputs, from |-> Len(storedAt),
                                              created |-> now])
  <2>1. PICK demanded \in IF LatestTemplate = {} THEN {0} ELSE {Outputs(t) : t \in LatestTemplate} :
          tokens' = Append(tokens, [outputs |-> demanded, from |-> Emitted, created |-> now])
    BY <1>1 DEF AllocateToken
  <2>2. demanded \in {0, Len(storedAt)}
    BY <2>1, LatestIsLast DEF Outputs
  <2>3. UNCHANGED <<now, storedAt>>
    BY <1>1 DEF AllocateToken, Elsewhere, provider
  <2> QED
    BY <2>1, <2>2, <2>3 DEF Emitted
<1> QED
  BY <1>1, Frames

LEMMA StoredSteps ==
    ASSUME TypeInv, Next
    PROVE  storedAt' \in Seq(Nat) /\ Len(storedAt') \in {Len(storedAt), Len(storedAt) + 1}
           /\ Len(storedAt) \in Nat \ {0}
<1>1. now \in Nat /\ storedAt \in Seq(Nat) /\ Len(storedAt) \in Nat \ {0}
  BY LenProperties, DeclaredWorkAssumption DEF TypeInv
<1>2. ASSUME NEW c \in Conns, SubscribeTemplates(c)
      PROVE  storedAt' \in Seq(Nat) /\ Len(storedAt') = Len(storedAt)
  <2>1. storedAt' = [storedAt EXCEPT ![Len(storedAt)] = now]
    BY <1>2 DEF SubscribeTemplates, Emitted
  <2>2. Len(storedAt) \in 1..Len(storedAt)
    BY <1>1
  <2> QED
    BY <1>1, <2>1, <2>2, ExceptSeq
<1>3. ASSUME NewTemplate
      PROVE  storedAt' \in Seq(Nat) /\ Len(storedAt') = Len(storedAt) + 1
  BY <1>1, <1>3, AppendProperties DEF NewTemplate
<1> QED
  BY <1>1, <1>2, <1>3, Frames

LEMMA StepGrows ==
    ASSUME TypeInv, RegistryInv, Next
    PROVE  Grows /\ now' \in 0..MaxTime /\ tokens' \in Seq(TokenType) /\ jobs' \in Seq(JobType)
           /\ latestJob' \in [Conns -> 0..Len(jobs')]
<1>1. now' \in 0..MaxTime /\ now <= now'
  <2>1. now' = now \/ (now' = now + 1 /\ now < MaxTime)
    <3>1. UNCHANGED now \/ Tick
      BY Frames
    <3> QED
      BY <3>1 DEF Tick
  <2>2. now \in 0..MaxTime /\ MaxTime \in Nat
    BY DeclaredWorkAssumption DEF TypeInv
  <2> QED
    BY <2>1, <2>2
<1>2. Len(storedAt) <= Len(storedAt')
  BY StoredSteps
<1>3. /\ tokens' \in Seq(TokenType)
      /\ \A k \in DOMAIN tokens : k \in DOMAIN tokens' /\ tokens'[k] = tokens[k]
  <2>1. CASE UNCHANGED tokens
    BY <2>1 DEF TypeInv
  <2>2. ASSUME NEW outputs \in {0, Len(storedAt)},
               tokens' = Append(tokens, [outputs |-> outputs, from |-> Len(storedAt),
                                         created |-> now])
        PROVE  /\ tokens' \in Seq(TokenType)
               /\ \A k \in DOMAIN tokens : k \in DOMAIN tokens' /\ tokens'[k] = tokens[k]
    <3> DEFINE token == [outputs |-> outputs, from |-> Len(storedAt), created |-> now]
    <3>1. token \in TokenType
      BY StoredSteps, DeclaredWorkAssumption DEF TokenType, TypeInv
    <3>2. tokens' = Append(tokens, token) /\ tokens \in Seq(TokenType)
      BY <2>2 DEF TypeInv
    <3> HIDE DEF token
    <3> QED
      BY <3>1, <3>2, AfterAppend
  <2> QED
    BY <2>1, <2>2, TokenSteps
<1>4. /\ jobs' \in Seq(JobType)
      /\ \A j \in DOMAIN jobs : j \in DOMAIN jobs' /\ jobs'[j] = jobs[j]
      /\ latestJob' \in [Conns -> 0..Len(jobs')]
  <2>1. CASE UNCHANGED <<jobs, latestJob>>
    BY <2>1 DEF TypeInv
  <2>2. ASSUME NEW c \in Conns, NEW e \in EntryType, EntryOK(e), Alive(tokens[e.token]),
               jobs' = Append(jobs, JobOf(c, e)),
               latestJob' = [latestJob EXCEPT ![c] = Len(jobs) + 1]
        PROVE  /\ jobs' \in Seq(JobType)
               /\ \A j \in DOMAIN jobs : j \in DOMAIN jobs' /\ jobs'[j] = jobs[j]
               /\ latestJob' \in [Conns -> 0..Len(jobs')]
    <3>1. JobOf(c, e) \in JobType /\ jobs \in Seq(JobType)
      BY <2>2, NewJob DEF TypeInv
    <3>2. /\ jobs' \in Seq(JobType) /\ Len(jobs') = Len(jobs) + 1 /\ Len(jobs) \in Nat
          /\ \A j \in DOMAIN jobs : j \in DOMAIN jobs' /\ jobs'[j] = jobs[j]
      BY <2>2, <3>1, AfterAppend
    <3>3. latestJob' \in [Conns -> 0..Len(jobs')]
      BY <2>2, <3>2 DEF TypeInv
    <3> QED
      BY <3>2, <3>3
  <2> QED
    BY <2>1, <2>2, JobSteps
<1> QED
  BY <1>1, <1>2, <1>3, <1>4 DEF Grows

(* A pending declaration is deleted, left alone, or asked about now.        *)
LEMMA PendingSteps ==
    ASSUME TypeInv, RegistryInv, Next
    PROVE  /\ pending' \in [Conns -> [ReqIds -> EntryType \cup {NoPending}]]
           /\ \A c \in Conns, r \in ReqIds :
                 \/ pending'[c][r] \in {NoPending, pending[c][r]}
                 \/ pending'[c][r] \in EntryType /\ EntryOK(pending'[c][r])
<1> DEFINE PendingType == [Conns -> [ReqIds -> EntryType \cup {NoPending}]]
           Goal == /\ pending' \in PendingType
                   /\ \A c \in Conns, r \in ReqIds :
                         \/ pending'[c][r] \in {NoPending, pending[c][r]}
                         \/ pending'[c][r] \in EntryType /\ EntryOK(pending'[c][r])
<1>1. pending \in PendingType
  BY DEF TypeInv
<1>2. ASSUME NEW c \in Conns, NEW r \in ReqIds, NEW e \in EntryType \cup {NoPending},
             e = NoPending \/ EntryOK(e), pending' = [pending EXCEPT ![c][r] = e]
      PROVE  Goal
  BY <1>1, <1>2
<1>3. ASSUME UNCHANGED pending PROVE Goal
  BY <1>1, <1>3
<1>4. ASSUME NEW c \in Conns, AskTransactions(c) PROVE Goal
  <2>1. PICK t \in LatestTemplate, k \in DOMAIN tokens, r \in ReqIds :
           pending' = [pending EXCEPT ![c][r] =
              [token |-> k, template |-> t, checked |-> now, latest |-> Emitted, serial |-> msgs']]
    BY <1>4 DEF AskTransactions
  <2>2. msgs' \in Nat \ {0}
    BY <1>4 DEF AskTransactions, Receives, TypeInv
  <2> DEFINE e == [token |-> k, template |-> t, checked |-> now, latest |-> Emitted, serial |-> msgs']
  <2>3. e \in EntryType /\ EntryOK(e)
    BY <2>2, FreshEntry
  <2>4. pending' = [pending EXCEPT ![c][r] = e]
    BY <2>1
  <2> HIDE DEF e
  <2> QED
    BY <1>2, <2>3, <2>4
<1>5. ASSUME NEW c \in Conns, ProvideTransactions(c) PROVE Goal
  BY <1>2, <1>3, <1>5 DEF ProvideTransactions, ProvideUnasked, ProvideWrong, ProvideRight
<1>6. ASSUME NEW i \in DOMAIN tasks, Provided(i) \/ ProvidedInVain(i) PROVE Goal
  <2>1. tasks[i].conn \in Conns /\ tasks[i].req \in ReqIds
    BY <1>6, TaskTyped DEF Provided, ProvidedInVain, Of, MempoolTask
  <2>2. pending' = [pending EXCEPT ![tasks[i].conn][tasks[i].req] = NoPending]
    BY <1>6 DEF Provided, ProvidedInVain, Of
  <2> QED
    BY <1>2, <2>1, <2>2
<1> HIDE DEF PendingType, Goal
<1>7. Goal
  BY <1>3, <1>4, <1>5, <1>6, Frames
<1> QED
  BY <1>7 DEF Goal, PendingType

LEMMA ServedSteps ==
    ASSUME TypeInv, Next
    PROVE  /\ served' \in [Conns -> SUBSET Nat]
           /\ \A c \in Conns : served[c] \subseteq served'[c]
           /\ \A c \in Conns : \A t \in served'[c] : t \in served[c] \/ t \in 1..Len(storedAt')
<1>1. Len(storedAt) \in Nat \ {0} /\ storedAt \in Seq(Nat)
  BY StoredSteps DEF TypeInv
<1>2. ASSUME NEW conns \in SUBSET Conns, NEW t \in 1..Len(storedAt'), SendTemplate(conns, t),
             Len(storedAt') \in Nat
      PROVE  /\ served' \in [Conns -> SUBSET Nat]
             /\ \A c \in Conns : served[c] \subseteq served'[c]
             /\ \A c \in Conns : \A s \in served'[c] : s \in served[c] \/ s \in 1..Len(storedAt')
  <2>1. t \in Nat \ {0}
    BY <1>2
  <2>2. /\ served' \in [Conns -> SUBSET Nat]
        /\ \A c \in Conns : served'[c] = served[c] \cup IF c \in conns THEN {t} ELSE {}
    BY <1>2, <2>1, AfterSend
  <2> QED
    BY <1>2, <2>2
<1>3. ASSUME NEW c \in Conns, SubscribeTemplates(c)
      PROVE  /\ {c} \in SUBSET Conns /\ SendTemplate({c}, Len(storedAt))
             /\ Len(storedAt') = Len(storedAt)
  <2>1. storedAt' = [storedAt EXCEPT ![Len(storedAt)] = now]
    BY <1>3 DEF SubscribeTemplates, Emitted
  <2>2. Len(storedAt) \in 1..Len(storedAt) /\ now \in Nat
    BY <1>1, DeclaredWorkAssumption DEF TypeInv
  <2>3. Len(storedAt') = Len(storedAt)
    BY <1>1, <2>1, <2>2, ExceptSeq
  <2> QED
    BY <1>3, <2>3 DEF SubscribeTemplates, Emitted
<1>4. ASSUME NewTemplate
      PROVE  /\ subscribed \in SUBSET Conns /\ SendTemplate(subscribed, Len(storedAt) + 1)
             /\ Len(storedAt') = Len(storedAt) + 1
  <2>1. storedAt' = Append(storedAt, now) /\ now \in Nat
    BY <1>4, DeclaredWorkAssumption DEF NewTemplate, TypeInv
  <2>2. Len(storedAt') = Len(storedAt) + 1
    BY <1>1, <2>1, AppendProperties
  <2> QED
    BY <1>4, <2>2 DEF NewTemplate, TypeInv, Emitted
<1>5. ASSUME NEW c \in Conns, RequestTransactionData(c)
      PROVE  /\ served' \in [Conns -> SUBSET Nat]
             /\ \A d \in Conns : served[d] \subseteq served'[d]
             /\ \A d \in Conns : \A t \in served'[d] : t \in served[d] \/ t \in 1..Len(storedAt')
  <2>1. UNCHANGED served \/ \E t \in AvailableTemplates(c) : served' = [served EXCEPT ![c] = @ \cup {t}]
    BY <1>5 DEF RequestTransactionData
  <2>2. Len(storedAt') = Len(storedAt)
    BY <1>5 DEF RequestTransactionData, Elsewhere, provider
  <2>3. \A t \in AvailableTemplates(c) : t \in Nat /\ (t \in served[c] \/ t \in 1..Len(storedAt'))
    BY <1>1, <2>2 DEF AvailableTemplates, Templates, Emitted, TypeInv
  <2>4. CASE UNCHANGED served
    BY <2>4 DEF TypeInv
  <2>5. ASSUME NEW t \in AvailableTemplates(c), served' = [served EXCEPT ![c] = @ \cup {t}]
        PROVE  /\ served' \in [Conns -> SUBSET Nat]
               /\ \A d \in Conns : served'[d] = served[d] \cup IF d = c THEN {t} ELSE {}
    BY <2>3, <2>5 DEF TypeInv
  <2> QED
    BY <2>1, <2>3, <2>4, <2>5
<1>6. CASE UNCHANGED served
  BY <1>6 DEF TypeInv
<1>7. ASSUME NEW c \in Conns, SubscribeTemplates(c)
      PROVE  /\ served' \in [Conns -> SUBSET Nat]
             /\ \A d \in Conns : served[d] \subseteq served'[d]
             /\ \A d \in Conns : \A t \in served'[d] : t \in served[d] \/ t \in 1..Len(storedAt')
  <2>2. Len(storedAt') = Len(storedAt)
    BY <1>3, <1>7
  <2>1. Len(storedAt) \in 1..Len(storedAt') /\ Len(storedAt') \in Nat
    BY <1>1, <2>2
  <2> QED
    BY <1>2, <1>3, <1>7, <2>1
<1>8. ASSUME NewTemplate
      PROVE  /\ served' \in [Conns -> SUBSET Nat]
             /\ \A d \in Conns : served[d] \subseteq served'[d]
             /\ \A d \in Conns : \A t \in served'[d] : t \in served[d] \/ t \in 1..Len(storedAt')
  <2>1. Len(storedAt) + 1 \in 1..Len(storedAt') /\ Len(storedAt') \in Nat
    BY <1>1, <1>4, <1>8
  <2> QED
    BY <1>2, <1>4, <1>8, <2>1
<1> QED
  BY <1>5, <1>6, <1>7, <1>8, Frames

(* What is known of a solution when it is submitted.                        *)
LEMMA SubmittedSteps ==
    ASSUME TypeInv, Next
    PROVE  /\ submitted' \in [Conns -> SUBSET SolutionType]
           /\ \A c \in Conns : submitted[c] \subseteq submitted'[c]
<1>1. ASSUME NEW c \in Conns, PushSolution(c) \/ SubmitSolution(c)
      PROVE  /\ submitted' \in [Conns -> SUBSET SolutionType]
             /\ \A d \in Conns : submitted[d] \subseteq submitted'[d]
  <2>1. PICK solution \in SolutionType, snapshot \in Nat, job \in Nat :
           Submits(c, solution, snapshot, job)
    BY <1>1, SolutionOrigins
  <2> QED
    BY <2>1, AfterSubmits
<1>2. CASE UNCHANGED submitted
  BY <1>2 DEF TypeInv
<1> QED
  BY <1>1, <1>2, Frames

LEMMA SwitchSteps ==
    ASSUME TypeInv, Next
    PROVE  /\ open' \subseteq Conns /\ subscribed' \subseteq open'
           /\ txData' \subseteq Conns /\ crashed' \in BOOLEAN
<1>1. open \subseteq Conns /\ subscribed \subseteq open /\ txData \subseteq Conns /\ crashed \in BOOLEAN
  BY DEF TypeInv
<1>2. ASSUME NEW conns, NEW t, SendTemplate(conns, t) PROVE crashed' \in BOOLEAN
  BY <1>1, <1>2 DEF SendTemplate
<1>3. ASSUME NEW i \in DOMAIN tasks, Wakes(i)
      PROVE  /\ open' \subseteq Conns /\ subscribed' \subseteq open'
             /\ txData' \subseteq Conns /\ crashed' \in BOOLEAN
  BY <1>1, <1>3 DEF Wakes, Provided, ProvidedInVain, NodeAnswers, SaveBlock, Finalize,
                    DatabaseFails, TellTemplate, TellFails, Closes, Elsewhere, jdp, tdp
<1>4. ASSUME NEW c \in Conns, Handles(c)
      PROVE  /\ open' \subseteq Conns /\ subscribed' \subseteq open'
             /\ txData' \subseteq Conns /\ crashed' \in BOOLEAN
  <2>1. CASE SubscribeTemplates(c)
    BY <1>1, <1>2, <2>1 DEF SubscribeTemplates, Receives, jdp
  <2>2. CASE Close(c)
    BY <1>1, <2>2 DEF Close, Closes, Elsewhere, jdp
  <2>3. CASE Negotiate(c)
    BY <1>1, <2>3 DEF Negotiate, Elsewhere, jdp, tdp
  <2>4. CASE AllocateToken(c) \/ DeclareMiningJob(c) \/ AskTransactions(c) \/ ProvideTransactions(c)
    BY <1>1, <2>4 DEF AllocateToken, DeclareMiningJob, AskTransactions, ProvideTransactions,
                      Elsewhere, jdp, tdp
  <2>5. CASE PushSolution(c) \/ SubmitSolution(c) \/ RequestTransactionData(c)
    BY <1>1, <2>5 DEF PushSolution, SubmitSolution, RequestTransactionData, Elsewhere, jdp, tdp
  <2> QED
    BY <1>4, <2>1, <2>2, <2>3, <2>4, <2>5 DEF Handles
<1>5. CASE SetCustomMiningJob
  BY <1>1, <1>5 DEF SetCustomMiningJob, Elsewhere, jdp, tdp
<1>6. CASE NewTemplate
  BY <1>1, <1>2, <1>6 DEF NewTemplate, jdp
<1>7. CASE Tick
  BY <1>1, <1>7 DEF Tick, jdp, tdp
<1> QED
  BY <1>3, <1>4, <1>5, <1>6, <1>7 DEF Next

LEMMA ActiveSteps ==
    ASSUME TypeInv, Next
    PROVE  /\ active' \in [Conns -> Nat]
           /\ \A c \in Conns : \/ active'[c] = active[c]
                               \/ \E i \in DOMAIN tasks :
                                     /\ tasks[i] \in WriteTask /\ tasks[i].conn = c
                                     /\ active'[c] = tasks[i].template
<1>1. ASSUME NEW i \in DOMAIN tasks, TellTemplate(i)
      PROVE  UNCHANGED active \/ /\ tasks[i] \in WriteTask
                                 /\ active' = [active EXCEPT ![tasks[i].conn] = tasks[i].template]
  BY <1>1, TaskTyped DEF TellTemplate, Of
<1>2. active \in [Conns -> Nat]
  BY DEF TypeInv
<1>3. ASSUME NEW i \in DOMAIN tasks, tasks[i] \in WriteTask,
             active' = [active EXCEPT ![tasks[i].conn] = tasks[i].template]
      PROVE  /\ active' \in [Conns -> Nat]
             /\ \A c \in Conns : active'[c] = IF c = tasks[i].conn THEN tasks[i].template ELSE active[c]
  BY <1>2, <1>3 DEF WriteTask
<1>4. CASE UNCHANGED active
  BY <1>2, <1>4
<1>5. CASE \E i \in DOMAIN tasks : TellTemplate(i)
  BY <1>1, <1>2, <1>3, <1>5
<1> QED
  BY <1>4, <1>5, Frames

LEMMA FinalizedSteps ==
    ASSUME TypeInv, Next
    PROVE  \A f \in finalized' :
              \/ f \in finalized
              \/ \E i \in DOMAIN tasks :
                    /\ tasks[i] \in SolutionTask
                    /\ f = [conn |-> tasks[i].conn, solution |-> tasks[i].solution,
                            snapshot |-> tasks[i].snapshot]
                    /\ f.snapshot # 0
<1>1. ASSUME NEW i \in DOMAIN tasks, Finalize(i)
      PROVE  /\ tasks[i] \in SolutionTask
             /\ finalized' = finalized \cup
                   {[conn |-> tasks[i].conn, solution |-> tasks[i].solution, snapshot |-> snapshot] :
                       snapshot \in {tasks[i].snapshot} \ {0}}
  BY <1>1, TaskTyped DEF Finalize, Of
<1> QED
  BY <1>1, Frames

LEMMA HistoryTyped ==
    ASSUME TypeInv, Next
    PROVE  aux' \in AuxType
<1>1. aux \in AuxType /\ now \in Nat /\ msgs \in Nat
  BY DeclaredWorkAssumption DEF TypeInv
<1>2. CASE SetCustomMiningJob
  <2>1. PICK j \in DOMAIN jobs : aux' = [aux EXCEPT !.used = @ \cup {<<j, now>>}]
    BY <1>2 DEF SetCustomMiningJob
  <2>2. <<j, now>> \in Nat \X Nat
    BY <1>1, LenProperties DEF TypeInv
  <2> QED
    BY <1>1, <2>1, <2>2 DEF AuxType
<1>3. ASSUME NEW c \in Conns, PushSolution(c) \/ SubmitSolution(c) PROVE aux' \in AuxType
  <2>1. PICK solution \in SolutionType, snapshot \in Nat, job \in Nat :
           Submits(c, solution, snapshot, job)
    BY <1>3, SolutionOrigins
  <2> QED
    BY <2>1, AfterSubmits
<1>4. ASSUME NEW c \in Conns, AskTransactions(c) PROVE aux' \in AuxType
  <2>1. PICK r \in ReqIds :
          aux' = [aux EXCEPT !.asked = @ \cup {<<c, r, msgs'>>},
                             !.reused = @ \/ Asked(c, r) # {} \/ Checking(c, r)]
    BY <1>4 DEF AskTransactions
  <2>2. msgs' \in Nat
    BY <1>1, <1>4 DEF AskTransactions, Receives
  <2> DEFINE again == Asked(c, r) # {} \/ Checking(c, r)
             ask == <<c, r, msgs'>>
  <2>3. ask \in Conns \X ReqIds \X Nat /\ again \in BOOLEAN
    BY <2>2 DEF Checking
  <2>4. aux' = [aux EXCEPT !.asked = @ \cup {ask}, !.reused = @ \/ again]
    BY <2>1
  <2> HIDE DEF again, ask
  <2> QED
    BY <1>1, <2>3, <2>4 DEF AuxType
<1>5. ASSUME NEW gone, aux' = [aux EXCEPT !.asked = @ \ gone] PROVE aux' \in AuxType
  BY <1>1, <1>5 DEF AuxType
<1>6. ASSUME NEW c \in Conns, ProvideTransactions(c) PROVE aux' \in AuxType
  <2>1. aux' = [aux EXCEPT !.unknown = TRUE] => aux' \in AuxType
    BY <1>1 DEF AuxType
  <2> QED
    BY <1>1, <1>5, <1>6, <2>1 DEF ProvideTransactions, ProvideUnasked, ProvideWrong, ProvideRight
<1>7. ASSUME NEW i \in DOMAIN tasks, Provided(i) \/ ProvidedInVain(i) PROVE aux' \in AuxType
  BY <1>5, <1>7 DEF Provided, ProvidedInVain
<1>8. ASSUME NEW c \in Conns, RequestTransactionData(c) PROVE aux' \in AuxType
  <2>1. aux' = [aux EXCEPT !.denied = TRUE] => aux' \in AuxType
    BY <1>1 DEF AuxType
  <2> QED
    BY <1>1, <1>8, <2>1 DEF RequestTransactionData
<1>9. CASE UNCHANGED aux
  BY <1>1, <1>9
<1> QED
  BY <1>2, <1>3, <1>4, <1>6, <1>7, <1>8, <1>9
     DEF Next, Handles, Wakes, Negotiate, AllocateToken, DeclareMiningJob, SubscribeTemplates,
         Close, NewTemplate, Tick, NodeAnswers, SaveBlock, Finalize, DatabaseFails,
         TellTemplate, TellFails

LEMMA StepTypeInv ==
    ASSUME TypeInv, RegistryInv, Next
    PROVE  TypeInv'
<1>1. /\ config' \in [mode : {"solo", "pplns"}, address : BOOLEAN, bare : SUBSET (1..MaxTemplates)]
      /\ kind' \in [Conns -> {"jdp", "tdp"}]
      /\ msgs' \in Nat
  <2>1. config' = config /\ kind' = kind /\ msgs' \in {msgs, msgs + 1}
    BY Frames
  <2> QED
    BY <2>1 DEF TypeInv
<1>2. storedAt' \in Seq(Nat) /\ Len(storedAt') > 0
  BY StoredSteps
<1>3. tasks' \in Seq(TaskType)
  BY TaskOrigins
<1>4. finalized' \subseteq [conn : Conns, solution : SolutionType, snapshot : Nat \ {0}]
  <2> DEFINE Final == [conn : Conns, solution : SolutionType, snapshot : Nat \ {0}]
  <2>1. ASSUME NEW i \in DOMAIN tasks, tasks[i] \in SolutionTask, tasks[i].snapshot # 0
        PROVE  [conn |-> tasks[i].conn, solution |-> tasks[i].solution,
                snapshot |-> tasks[i].snapshot] \in Final
    BY ONLY <2>1 DEF SolutionTask
  <2>2. finalized \subseteq Final
    BY DEF TypeInv
  <2> HIDE DEF Final
  <2>3. ASSUME NEW f \in finalized' PROVE f \in Final
    BY <2>1, <2>2, <2>3, FinalizedSteps
  <2> QED
    BY <2>3 DEF Final
<1>5. /\ now' \in 0..MaxTime
      /\ tokens' \in Seq(TokenType)
      /\ jobs' \in Seq(JobType)
      /\ latestJob' \in [Conns -> 0..Len(jobs')]
  BY StepGrows
<1>6. pending' \in [Conns -> [ReqIds -> EntryType \cup {NoPending}]]
  BY PendingSteps
<1>7. served' \in [Conns -> SUBSET Nat] /\ active' \in [Conns -> Nat]
  BY ServedSteps, ActiveSteps
<1>8. submitted' \in [Conns -> SUBSET SolutionType]
  BY SubmittedSteps
<1>9. aux' \in AuxType
  BY HistoryTyped
<1>10. /\ open' \subseteq Conns /\ subscribed' \subseteq open'
       /\ txData' \subseteq Conns /\ crashed' \in BOOLEAN
  BY SwitchSteps
<1> QED
  BY <1>1, <1>2, <1>3, <1>4, <1>5, <1>6, <1>7, <1>8, <1>9, <1>10 DEF TypeInv

LEMMA StepRegistryInv ==
    ASSUME TypeInv, RegistryInv, Next
    PROVE  RegistryInv'
<1>1. Grows
  BY StepGrows
<1>2. \A e \in EntryType : EntryOK(e) => EntryOK(e)'
  BY <1>1, StoredSteps DEF Grows, EntryOK, EntryType
<1>3. ASSUME NEW k \in DOMAIN tokens' PROVE TokenOK(k)'
  <2>1. now' >= now /\ Len(storedAt') >= Len(storedAt) /\ now \in Nat /\ now' \in Nat
        /\ Len(storedAt) \in Nat \ {0} /\ Len(storedAt') \in Nat
    <3>1. now' \in 0..MaxTime
      BY StepGrows
    <3> QED
      BY <1>1, <3>1, StoredSteps, DeclaredWorkAssumption DEF Grows, TypeInv
  <2>2. CASE k \in DOMAIN tokens
    <3>1. tokens[k] \in TokenType /\ tokens'[k] = tokens[k] /\ TokenOK(k)
      BY <1>1, <2>2, ElementOfSeq, LenProperties DEF Grows, RegistryInv, TypeInv
    <3> QED
      BY <2>1, <3>1 DEF TokenOK, TokenType
  <2>3. CASE k \notin DOMAIN tokens
    <3>1. PICK outputs \in {0, Len(storedAt)} :
             tokens' = Append(tokens, [outputs |-> outputs, from |-> Len(storedAt), created |-> now])
      BY <2>3, TokenSteps
    <3>2. now' = now /\ storedAt' = storedAt
      BY <2>3, TokenSteps
    <3> DEFINE token == [outputs |-> outputs, from |-> Len(storedAt), created |-> now]
    <3>3. token \in TokenType /\ tokens \in Seq(TokenType)
      BY <2>1 DEF TokenType, TypeInv
    <3>4. tokens' = Append(tokens, token)
      BY <3>1
    <3> HIDE DEF token
    <3>5. tokens'[k] = token
      BY <2>3, <3>3, <3>4, AfterAppend
    <3> QED
      BY <2>1, <3>2, <3>5 DEF TokenOK, token
  <2> QED
    BY <2>2, <2>3
<1>4. ASSUME NEW c \in Conns, NEW r \in ReqIds, NEW e, e = pending'[c][r], e # NoPending
      PROVE  EntryOK(e)'
  <2>1. e \in EntryType
    BY <1>4, PendingSteps
  <2>2. EntryOK(e)
    BY <1>4, PendingSteps DEF RegistryInv
  <2> QED
    BY <1>2, <2>1, <2>2
<1>5. ASSUME NEW j \in DOMAIN tasks', NEW task, task = tasks'[j], task.at = "mempool",
             NEW e, e = task.was
      PROVE  EntryOK(e)'
  <2>1. Origin(task) /\ task \in TaskType
    BY <1>5, TaskOrigins, ElementOfSeq, LenProperties
  <2>2. task \in MempoolTask
    BY <1>5, <2>1 DEF TaskType, SolutionTask, WriteTask
  <2>3. ~GoneOn(task) /\ ~Told(task) /\ ~BeginsSolution(task) /\ ~BeginsWrite(task)
    BY <1>5 DEF GoneOn, Told, BeginsSolution, BeginsWrite, SolutionTask, WriteTask, Announcements
  <2>4. CASE Waited(task)
    <3>1. EntryOK(e)
      BY <1>5, <2>4 DEF Waited, RegistryInv
    <3> QED
      BY <1>2, <1>5, <2>2, <3>1 DEF MempoolTask
  <2>5. CASE BeginsCheck(task)
    <3>1. e \in EntryType /\ e = pending[task.conn][task.req]
          /\ task.conn \in Conns /\ task.req \in ReqIds
      BY <1>5, <2>5 DEF BeginsCheck, MempoolTask
    <3>2. e # NoPending
      BY <3>1 DEF EntryType, NoPending
    <3>3. EntryOK(e)
      BY <3>1, <3>2 DEF RegistryInv
    <3> QED
      BY <1>2, <3>1, <3>3
  <2> QED
    BY <2>1, <2>3, <2>4, <2>5 DEF Origin
<1>6. ASSUME NEW j \in DOMAIN jobs', NEW job, job = jobs'[j]
      PROVE  JobOK(job)'
  <2>1. ASSUME NEW old \in JobType, JobOK(old) PROVE JobOK(old)'
    BY <1>1, <2>1, StoredSteps DEF Grows, JobOK, JobType
  <2>2. CASE j \in DOMAIN jobs
    <3>1. job = jobs[j] /\ job \in JobType /\ JobOK(job)
      BY <1>1, <1>6, <2>2, ElementOfSeq, LenProperties DEF Grows, RegistryInv, TypeInv
    <3> QED
      BY <2>1, <3>1
  <2>3. CASE j \notin DOMAIN jobs
    <3>1. PICK c \in Conns, e \in EntryType :
            EntryOK(e) /\ Alive(tokens[e.token]) /\ jobs' = Append(jobs, JobOf(c, e))
      BY <2>3, JobSteps
    <3>2. JobOf(c, e) \in JobType /\ JobOK(JobOf(c, e)) /\ jobs \in Seq(JobType)
      BY <3>1, NewJob DEF TypeInv
    <3>3. job = JobOf(c, e)
      BY <1>6, <2>3, <3>1, <3>2, AfterAppend
    <3> QED
      BY <2>1, <3>2, <3>3
  <2> QED
    BY <2>2, <2>3
<1> QED
  BY <1>3, <1>4, <1>5, <1>6 DEF RegistryInv

-----------------------------------------------------------------------------
(* Jobs used, blocks built, books. *)

LatestInv ==
    /\ \A c \in Conns : latestJob[c] # 0 => jobs[latestJob[c]].conn = c
    /\ \A j \in DOMAIN jobs : j <= latestJob[jobs[j].conn]

UsedInv ==
    \A u \in aux.used : u[1] \in DOMAIN jobs /\ u[2] - jobs[u[1]].checked <= 2 * Ttl

BuiltOK(b) ==
    /\ b.solution \in submitted[b.conn]
    /\ kind[b.conn] = "jdp" =>
          /\ b.job \in DOMAIN jobs /\ jobs[b.job].conn = b.conn
          /\ b.solution.on \in DOMAIN jobs
          /\ jobs[b.solution.on].conn = b.conn => b.solution.on <= b.job

(* What is or will be finalized is a block that was built, with the snapshot *)
(* of the template it was built on, if that has one.                        *)
Booked(x) ==
    \E b \in aux.built :
        /\ b.conn = x.conn /\ b.solution = x.solution
        /\ kind[x.conn] = "tdp" => x.snapshot \in {0, x.solution.on}
        /\ kind[x.conn] = "jdp" => x.snapshot \in {0, jobs[b.job].template}

BlocksInv ==
    /\ \A b \in aux.built : BuiltOK(b)
    /\ \A i \in DOMAIN tasks : tasks[i] \in SolutionTask => Booked(tasks[i])
    /\ \A f \in finalized : Booked(f)
    /\ ~aux.twice

LEMMA StepLatestInv ==
    ASSUME TypeInv, RegistryInv, LatestInv, Next
    PROVE  LatestInv'
<1>1. CASE UNCHANGED <<jobs, latestJob>>
  BY <1>1 DEF LatestInv
<1>2. ASSUME NEW c \in Conns, NEW e \in EntryType,
             EntryOK(e), Alive(tokens[e.token]), jobs' = Append(jobs, JobOf(c, e)),
             latestJob' = [latestJob EXCEPT ![c] = Len(jobs) + 1]
      PROVE  LatestInv'
  <2>1. JobOf(c, e) \in JobType /\ jobs \in Seq(JobType) /\ JobOf(c, e).conn = c
    BY <1>2, NewJob DEF TypeInv, JobOf
  <2> DEFINE job == JobOf(c, e)
  <2>2. jobs' = Append(jobs, job) /\ job.conn = c /\ job \in JobType
    BY <1>2, <2>1
  <2> HIDE DEF job
  <2>3. /\ DOMAIN jobs = 1..Len(jobs) /\ Len(jobs) \in Nat
        /\ DOMAIN jobs' = 1 .. Len(jobs) + 1
        /\ \A j \in DOMAIN jobs : jobs'[j] = jobs[j]
        /\ jobs'[Len(jobs) + 1] = job
    BY <2>1, <2>2, AfterAppend
  <2>4. \A j \in DOMAIN jobs : jobs[j].conn \in Conns
    <3>1. \A j \in DOMAIN jobs : jobs[j] \in JobType
      BY <2>1, <2>3, ElementOfSeq
    <3> QED
      BY <3>1 DEF JobType
  <2>5. /\ latestJob \in [Conns -> 0..Len(jobs)]
        /\ \A d \in Conns : latestJob'[d] = IF d = c THEN Len(jobs) + 1 ELSE latestJob[d]
    BY <1>2 DEF TypeInv
  <2>6. ASSUME NEW d \in Conns, latestJob'[d] # 0 PROVE jobs'[latestJob'[d]].conn = d
    <3>1. CASE d = c
      BY <2>2, <2>3, <2>5, <3>1
    <3>2. CASE d # c
      <4>1. latestJob'[d] = latestJob[d] /\ latestJob[d] \in DOMAIN jobs
        BY <2>3, <2>5, <2>6, <3>2
      <4> QED
        BY <2>3, <2>6, <4>1 DEF LatestInv
    <3> QED
      BY <3>1, <3>2
  <2>7. ASSUME NEW j \in DOMAIN jobs' PROVE j <= latestJob'[jobs'[j].conn]
    <3>1. CASE j \in DOMAIN jobs
      <4>1. j <= latestJob[jobs[j].conn] /\ jobs'[j] = jobs[j] /\ jobs[j].conn \in Conns
        BY <2>3, <2>4, <3>1 DEF LatestInv
      <4> QED
        BY <2>3, <2>5, <3>1, <4>1
    <3>2. CASE j = Len(jobs) + 1
      BY <2>2, <2>3, <2>5, <3>2
    <3> QED
      BY <2>3, <3>1, <3>2
  <2> QED
    BY <2>6, <2>7 DEF LatestInv
<1> QED
  BY <1>1, <1>2, JobSteps

LEMMA StepUsedInv ==
    ASSUME TypeInv, RegistryInv, UsedInv, Next
    PROVE  UsedInv'
<1>1. \A j \in DOMAIN jobs : j \in DOMAIN jobs' /\ jobs'[j] = jobs[j]
  BY StepGrows DEF Grows
<1>2. ASSUME NEW u \in aux'.used
      PROVE  u[1] \in DOMAIN jobs /\ u[2] - jobs[u[1]].checked <= 2 * Ttl
  <2>1. CASE u \in aux.used
    BY <2>1 DEF UsedInv
  <2>2. CASE u \notin aux.used
    <3>1. SetCustomMiningJob
      BY <2>2, HistoryFrames
    <3>2. PICK j \in DOMAIN jobs : Alive(jobs[j]) /\ aux' = [aux EXCEPT !.used = @ \cup {<<j, now>>}]
      BY <3>1 DEF SetCustomMiningJob
    <3>3. u = <<j, now>>
      BY <2>2, <3>2 DEF TypeInv, AuxType
    <3>4. jobs[j] \in JobType /\ JobOK(jobs[j]) /\ now \in Nat /\ Ttl \in Nat
      BY ElementOfSeq, LenProperties, DeclaredWorkAssumption DEF TypeInv, RegistryInv
    <3>5. /\ jobs[j].created \in Nat /\ jobs[j].checked \in Nat
          /\ jobs[j].created >= now - Ttl /\ jobs[j].created - jobs[j].checked <= Ttl
      BY <3>2, <3>4 DEF JobOK, JobType, Alive
    <3>6. now - jobs[j].checked <= 2 * Ttl
      BY <3>4, <3>5
    <3> QED
      BY <3>3, <3>6
  <2> QED
    BY <2>1, <2>2
<1> QED
  BY <1>1, <1>2 DEF UsedInv

(* Jobs stay what they are, so what is known of a block stays true.         *)
LEMMA BlocksKept ==
    ASSUME TypeInv, RegistryInv, BlocksInv, Next
    PROVE  /\ aux.built \subseteq aux'.built
           /\ \A b \in aux.built : BuiltOK(b)'
           /\ \A x : Booked(x) => Booked(x)'
<1>1. /\ \A j \in DOMAIN jobs : j \in DOMAIN jobs' /\ jobs'[j] = jobs[j]
      /\ kind' = kind
      /\ \A c \in Conns : submitted[c] \subseteq submitted'[c]
  BY StepGrows, Frames, SubmittedSteps DEF Grows
<1>2. aux.built \subseteq aux'.built
  <2>1. ASSUME NEW c \in Conns, PushSolution(c) \/ SubmitSolution(c)
        PROVE  aux.built \subseteq aux'.built
    <3>1. PICK solution \in SolutionType, snapshot \in Nat, job \in Nat :
             Submits(c, solution, snapshot, job)
      BY <2>1, SolutionOrigins
    <3> QED
      BY <3>1 DEF Submits, TypeInv, AuxType
  <2> QED
    BY <2>1, HistoryFrames
<1>3. \A b \in aux.built : b.conn \in Conns
  BY DEF TypeInv, AuxType
<1>4. \A b \in aux.built : BuiltOK(b)'
  BY <1>1, <1>3 DEF BlocksInv, BuiltOK
<1>5. ASSUME NEW x, Booked(x) PROVE Booked(x)'
  <2>1. PICK b \in aux.built :
          /\ b.conn = x.conn /\ b.solution = x.solution
          /\ kind[x.conn] = "tdp" => x.snapshot \in {0, x.solution.on}
          /\ kind[x.conn] = "jdp" => x.snapshot \in {0, jobs[b.job].template}
    BY <1>5 DEF Booked
  <2>2. kind[x.conn] = "jdp" => b.job \in DOMAIN jobs
    BY <2>1 DEF BlocksInv, BuiltOK
  <2> QED
    BY <1>1, <1>2, <2>1, <2>2 DEF Booked
<1> QED
  BY <1>2, <1>4, <1>5

LEMMA StepBlocksInv ==
    ASSUME TypeInv, RegistryInv, LatestInv, BlocksInv, Next
    PROVE  BlocksInv'
<1>1. /\ \A j \in DOMAIN jobs : j \in DOMAIN jobs' /\ jobs'[j] = jobs[j]
      /\ kind' = kind
  BY StepGrows, Frames DEF Grows
(* The block that a step submits: of the connection's latest job, or of a    *)
(* template, and its solution is new to the connection.                     *)
<1>2. ASSUME NEW c \in Conns, PushSolution(c) \/ SubmitSolution(c)
      PROVE  /\ aux'.twice = aux.twice
             /\ \A b \in aux'.built \ aux.built : BuiltOK(b)'
             /\ \A x : BeginsSolution(x) => Booked(x)'
  <2>1. ASSUME NEW solution \in SolutionType, NEW snapshot \in Nat, NEW job \in Nat,
               Submits(c, solution, snapshot, job)
        PROVE  /\ aux'.built = aux.built \cup {[conn |-> c, solution |-> solution, job |-> job]}
               /\ solution \in submitted'[c]
               /\ solution \notin submitted[c] => aux'.twice = aux.twice
    <3>1. /\ aux'.built = aux.built \cup {[conn |-> c, solution |-> solution, job |-> job]}
          /\ aux'.twice = (aux.twice \/ \E b \in aux.built : b.conn = c /\ b.solution = solution)
      BY <2>1 DEF Submits, TypeInv, AuxType
    <3>2. solution \in submitted'[c]
      <4>1. \A d \in Conns :
               submitted'[d] = submitted[d] \cup IF d = c THEN {solution} ELSE {}
        BY <2>1, AfterSubmits
      <4> QED
        BY <4>1
    <3>3. aux.twice \in BOOLEAN /\ aux'.twice \in BOOLEAN
      BY HistoryTyped DEF TypeInv, AuxType
    <3>4. ASSUME solution \notin submitted[c]
          PROVE  ~\E b \in aux.built : b.conn = c /\ b.solution = solution
      BY <3>4 DEF BlocksInv, BuiltOK
    <3> QED
      BY <3>1, <3>2, <3>3, <3>4
  <2>2. PICK solution \in SolutionType, snapshot \in Nat, job \in Nat :
              /\ Submits(c, solution, snapshot, job)
              /\ solution \notin submitted[c]
              /\ PushSolution(c) =>
                    /\ kind[c] = "jdp" /\ solution.on \in DOMAIN jobs
                    /\ job = latestJob[c] /\ job # 0
                    /\ snapshot \in {0, jobs[job].template}
              /\ SubmitSolution(c) => kind[c] = "tdp" /\ snapshot \in {0, solution.on}
    BY <1>2, SolutionOrigins
  <2> DEFINE built == [conn |-> c, solution |-> solution, job |-> job]
  <2>3. aux'.built = aux.built \cup {built} /\ solution \in submitted'[c] /\ aux'.twice = aux.twice
    BY <2>1, <2>2
  <2>4. latestJob \in [Conns -> 0..Len(jobs)] /\ DOMAIN jobs = 1..Len(jobs) /\ Len(jobs) \in Nat
    BY LenProperties DEF TypeInv
  <2>5. kind[c] = "jdp" =>
          /\ job \in DOMAIN jobs /\ jobs[job].conn = c
          /\ solution.on \in DOMAIN jobs
          /\ jobs[solution.on].conn = c => solution.on <= job
    BY <1>2, <2>2, <2>4 DEF LatestInv
  <2>6. BuiltOK(built)'
    BY <1>1, <2>3, <2>5 DEF BuiltOK
  <2>7. ASSUME NEW x, BeginsSolution(x) PROVE Booked(x)'
    <3>1. tasks'[Len(tasks) + 1] = [at |-> "submit", conn |-> c, solution |-> solution,
                                    snapshot |-> snapshot]
      BY <2>2, AfterSubmits
    <3>2. PICK c2 \in Conns, solution2 \in SolutionType, snapshot2 \in Nat, job2 \in Nat :
             /\ Submits(c2, solution2, snapshot2, job2)
             /\ x = [at |-> "submit", conn |-> c2, solution |-> solution2, snapshot |-> snapshot2]
      BY <2>7 DEF BeginsSolution
    <3>3. tasks'[Len(tasks) + 1] = x
      BY <3>2, AfterSubmits
    <3>4. x.conn = c /\ x.solution = solution /\ x.snapshot = snapshot
      BY <3>1, <3>3
    <3>5. kind[c] = "tdp" => snapshot \in {0, solution.on}
      BY <1>2, <2>2
    <3>6. kind[c] = "jdp" => snapshot \in {0, jobs[job].template} /\ job \in DOMAIN jobs
      BY <1>2, <2>2, <2>5
    <3>7. built \in aux'.built /\ built.conn = c /\ built.solution = solution /\ built.job = job
      BY <2>3
    <3> HIDE DEF built
    <3> QED
      BY <1>1, <3>4, <3>5, <3>6, <3>7 DEF Booked
  <2> HIDE DEF built
  <2> QED
    BY <2>3, <2>6, <2>7
<1>3. ~aux'.twice
  BY <1>2, HistoryFrames DEF BlocksInv
<1>4. \A b \in aux'.built : BuiltOK(b)'
  <2>1. \A b \in aux'.built \ aux.built : BuiltOK(b)'
    BY <1>2, HistoryFrames
  <2> QED
    BY <2>1, BlocksKept
<1>5. ASSUME NEW x, NEW i \in DOMAIN tasks, tasks[i] \in SolutionTask,
             x.conn = tasks[i].conn, x.solution = tasks[i].solution,
             x.snapshot = tasks[i].snapshot
      PROVE  Booked(x)'
  <2>1. Booked(x)
    BY <1>5 DEF BlocksInv, Booked
  <2> QED
    BY <2>1, BlocksKept
<1>6. ASSUME NEW j \in DOMAIN tasks', NEW task, task = tasks'[j], task \in SolutionTask
      PROVE  Booked(task)'
  <2>1. Origin(task)
    BY <1>6, TaskOrigins
  <2>2. ~Told(task) /\ ~BeginsCheck(task) /\ ~BeginsWrite(task)
    BY <1>6 DEF Told, BeginsCheck, BeginsWrite, SolutionTask, WriteTask, MempoolTask, Announcements
  <2>3. CASE Waited(task)
    BY <1>5, <1>6, <2>3 DEF Waited
  <2>4. CASE GoneOn(task)
    BY <1>5, <2>4 DEF GoneOn
  <2>5. CASE BeginsSolution(task)
    <3>1. PICK c \in Conns : PushSolution(c) \/ SubmitSolution(c)
      BY <2>5 DEF BeginsSolution
    <3> QED
      BY <1>2, <2>5, <3>1
  <2> QED
    BY <2>1, <2>2, <2>3, <2>4, <2>5 DEF Origin
<1>7. ASSUME NEW f \in finalized' PROVE Booked(f)'
  <2>1. CASE f \in finalized
    BY <2>1, BlocksKept DEF BlocksInv
  <2>2. CASE f \notin finalized
    BY <1>5, <2>2, FinalizedSteps
  <2> QED
    BY <2>1, <2>2
<1> QED
  BY <1>3, <1>4, <1>6, <1>7 DEF BlocksInv

-----------------------------------------------------------------------------
(* Requests for transactions. *)

AskedOK ==
    /\ ~aux.unknown
    /\ \A a \in aux.asked : /\ pending[a[1]][a[2]] # NoPending
                            /\ pending[a[1]][a[2]].serial = a[3]
    /\ \A i \in DOMAIN tasks : tasks[i] \in MempoolTask =>
          (Asked(tasks[i].conn, tasks[i].req) # {} =>
              pending[tasks[i].conn][tasks[i].req] = tasks[i].was)

(* An id that is not used again too early has one declaration waiting while *)
(* it has no answer, and what is checked for it was provided for that one.  *)
AskedInv == ~aux.reused => AskedOK

(* Handlers that check transactions after a step did so before it, or began *)
(* with what is pending.                                                    *)
LEMMA CheckSteps ==
    ASSUME TypeInv, Next, NEW j \in DOMAIN tasks', tasks'[j] \in MempoolTask
    PROVE  \/ \E i \in DOMAIN tasks : tasks'[j] = tasks[i]
           \/ tasks'[j].was = pending[tasks'[j].conn][tasks'[j].req]
<1>1. Origin(tasks'[j])
  BY TaskOrigins
<1>2. ~GoneOn(tasks'[j]) /\ ~Told(tasks'[j]) /\ ~BeginsSolution(tasks'[j]) /\ ~BeginsWrite(tasks'[j])
  BY DEF GoneOn, Told, BeginsSolution, BeginsWrite, MempoolTask, SolutionTask, WriteTask, Announcements
<1> QED
  BY <1>1, <1>2 DEF Origin, Waited, BeginsCheck

(* Answering a request leaves the others as they are.                       *)
LEMMA AnswerKeepsAsked ==
    ASSUME TypeInv, AskedInv, Next, NEW c \in Conns, NEW r \in ReqIds, NEW was \in EntryType,
           Asked(c, r) # {} => pending[c][r] = was,
           pending' = [pending EXCEPT ![c][r] = NoPending],
           aux' = [aux EXCEPT !.asked = @ \ {<<c, r, was.serial>>}],
           \A j \in DOMAIN tasks' : \E i \in DOMAIN tasks : tasks'[j] = tasks[i]
    PROVE  AskedInv'
<1>1. /\ aux'.asked = aux.asked \ {<<c, r, was.serial>>}
      /\ aux'.reused = aux.reused /\ aux'.unknown = aux.unknown
      /\ aux.asked \subseteq Conns \X ReqIds \X Nat
  BY DEF TypeInv, AuxType
<1>2. ASSUME NEW d \in Conns, NEW q \in ReqIds
      PROVE  pending'[d][q] = IF d = c /\ q = r THEN NoPending ELSE pending[d][q]
  BY DEF TypeInv
<1>3. SUFFICES ASSUME ~aux'.reused PROVE AskedOK'
  BY DEF AskedInv, AskedOK
<1>4. AskedOK
  BY <1>1, <1>3 DEF AskedInv, AskedOK
<1>5. ASSUME NEW a \in aux'.asked PROVE a[1] # c \/ a[2] # r
  <2>1. SUFFICES ASSUME a[1] = c, a[2] = r PROVE FALSE
    OBVIOUS
  <2>2. a \in aux.asked /\ a \in Asked(c, r)
    BY <1>1, <2>1 DEF Asked
  <2>3. a[3] = was.serial
    BY <1>4, <2>1, <2>2 DEF AskedOK
  <2>4. a = <<c, r, was.serial>>
    BY <1>1, <2>1, <2>2, <2>3
  <2> QED
    BY <1>1, <2>4
<1>6. ASSUME NEW a \in aux'.asked
      PROVE  pending'[a[1]][a[2]] # NoPending /\ pending'[a[1]][a[2]].serial = a[3]
  <2>1. a \in aux.asked /\ a[1] \in Conns /\ a[2] \in ReqIds
    BY <1>1
  <2>2. pending'[a[1]][a[2]] = pending[a[1]][a[2]]
    BY <1>2, <1>5, <2>1
  <2> QED
    BY <1>4, <2>1, <2>2 DEF AskedOK
<1>7. ASSUME NEW j \in DOMAIN tasks', NEW task, task = tasks'[j], task \in MempoolTask,
             NEW a \in aux'.asked, a[1] = task.conn, a[2] = task.req
      PROVE  pending'[task.conn][task.req] = task.was
  <2>1. PICK i \in DOMAIN tasks : task = tasks[i]
    BY <1>7
  <2>2. a \in Asked(task.conn, task.req)
    BY <1>1, <1>7 DEF Asked
  <2>3. pending[task.conn][task.req] = task.was
    BY <1>4, <1>7, <2>1, <2>2 DEF AskedOK
  <2>4. pending'[task.conn][task.req] = pending[task.conn][task.req]
    BY <1>2, <1>5, <1>7 DEF MempoolTask
  <2> QED
    BY <2>3, <2>4
<1>8. ~aux'.unknown
  BY <1>1, <1>4 DEF AskedOK
<1> QED
  BY <1>6, <1>7, <1>8 DEF Asked, AskedOK

LEMMA StepAskedInv ==
    ASSUME TypeInv, RegistryInv, AskedInv, Next
    PROVE  AskedInv'
<1>1. ASSUME UNCHANGED pending, aux'.asked = aux.asked, aux'.reused = aux.reused,
             aux'.unknown = aux.unknown
      PROVE  AskedInv'
  <2>1. ASSUME NEW c, NEW r PROVE Asked(c, r)' = Asked(c, r)
    BY <1>1 DEF Asked
  <2>2. ASSUME ~aux.reused, NEW j \in DOMAIN tasks', NEW task, task = tasks'[j],
               task \in MempoolTask, Asked(task.conn, task.req) # {}
        PROVE  pending[task.conn][task.req] = task.was
    BY <2>2, CheckSteps DEF AskedInv, AskedOK
  <2> QED
    BY <1>1, <2>1, <2>2 DEF AskedInv, AskedOK
<1>2. ASSUME NEW c \in Conns, AskTransactions(c) PROVE AskedInv'
  <2>1. PICK t \in LatestTemplate, k \in DOMAIN tokens, r \in ReqIds :
          /\ pending' = [pending EXCEPT ![c][r] =
                [token |-> k, template |-> t, checked |-> now, latest |-> Emitted, serial |-> msgs']]
          /\ aux' = [aux EXCEPT !.asked = @ \cup {<<c, r, msgs'>>},
                                !.reused = @ \/ Asked(c, r) # {} \/ Checking(c, r)]
    BY <1>2 DEF AskTransactions
  <2>2. msgs' \in Nat \ {0} /\ tasks' = tasks
    BY <1>2 DEF AskTransactions, Receives, TypeInv
  <2> DEFINE e == [token |-> k, template |-> t, checked |-> now, latest |-> Emitted, serial |-> msgs']
  <2>3. e # NoPending /\ e.serial = msgs'
    BY <2>2 DEF NoPending
  <2>4. ASSUME NEW d \in Conns, NEW q \in ReqIds
        PROVE  pending'[d][q] = IF d = c /\ q = r THEN e ELSE pending[d][q]
    BY <2>1 DEF TypeInv
  <2> HIDE DEF e
  <2>5. SUFFICES ASSUME ~aux'.reused PROVE AskedOK'
    BY DEF AskedInv, AskedOK
  <2> DEFINE ask == <<c, r, msgs'>>
             again == Asked(c, r) # {} \/ Checking(c, r)
  <2>6. aux' = [aux EXCEPT !.asked = @ \cup {ask}, !.reused = @ \/ again]
    BY <2>1
  <2>7. /\ aux'.asked = aux.asked \cup {ask} /\ aux'.unknown = aux.unknown
        /\ aux'.reused = (aux.reused \/ again)
        /\ aux.asked \subseteq Conns \X ReqIds \X Nat
    <3> HIDE DEF ask, again
    <3> QED
      BY <2>6 DEF TypeInv, AuxType
  <2>8. ~aux.reused /\ ~again
    BY <2>5, <2>7
  <2>9. AskedOK
    BY <2>8 DEF AskedInv, AskedOK
  <2>10. ASSUME NEW a \in aux'.asked
         PROVE  pending'[a[1]][a[2]] # NoPending /\ pending'[a[1]][a[2]].serial = a[3]
    <3>1. CASE a = ask
      BY <2>3, <2>4, <3>1
    <3>2. CASE a # ask
      <4>1. a \in aux.asked /\ a[1] \in Conns /\ a[2] \in ReqIds
        BY <2>7, <3>2
      <4>2. ~(a[1] = c /\ a[2] = r)
        BY <2>8, <4>1 DEF Asked
      <4> QED
        BY <2>4, <2>9, <4>1, <4>2 DEF AskedOK
    <3> QED
      BY <3>1, <3>2
  <2>11. ASSUME NEW i \in DOMAIN tasks, tasks[i] \in MempoolTask,
                NEW a \in aux'.asked, a[1] = tasks[i].conn, a[2] = tasks[i].req
         PROVE  pending'[tasks[i].conn][tasks[i].req] = tasks[i].was
    <3>1. ~(tasks[i].conn = c /\ tasks[i].req = r)
      BY <2>8, <2>11 DEF Checking, MempoolTask
    <3>2. a \in Asked(tasks[i].conn, tasks[i].req)
      BY <2>7, <2>11, <3>1 DEF Asked
    <3>3. pending[tasks[i].conn][tasks[i].req] = tasks[i].was
      BY <2>9, <2>11, <3>2 DEF AskedOK
    <3> QED
      BY <2>4, <2>11, <3>1, <3>3 DEF MempoolTask
  <2>12. ~aux'.unknown
    BY <2>7, <2>9 DEF AskedOK
  <2> QED
    BY <2>2, <2>10, <2>11, <2>12 DEF Asked, AskedOK
<1>3. ASSUME NEW c \in Conns, ProvideTransactions(c) PROVE AskedInv'
  <2>1. PICK r \in ReqIds : ProvideUnasked(c, r) \/ ProvideWrong(c, r) \/ ProvideRight(c, r)
    BY <1>3 DEF ProvideTransactions
  <2>2. CASE ProvideUnasked(c, r)
    <3>1. PICK a \in aux.asked : a[1] = c /\ a[2] = r /\ pending[c][r] = NoPending
      BY <2>2 DEF ProvideUnasked, Asked
    <3>2. aux.reused
      BY <3>1 DEF AskedInv, AskedOK
    <3>3. aux'.reused = aux.reused
      BY <2>2 DEF ProvideUnasked, TypeInv, AuxType
    <3> QED
      BY <3>2, <3>3 DEF AskedInv, AskedOK
  <2>3. CASE ProvideWrong(c, r)
    <3>1. /\ pending[c][r] \in EntryType
          /\ pending' = [pending EXCEPT ![c][r] = NoPending]
          /\ aux' = [aux EXCEPT !.asked = @ \ {<<c, r, pending[c][r].serial>>}]
          /\ \A j \in DOMAIN tasks' : \E i \in DOMAIN tasks : tasks'[j] = tasks[i]
      BY <2>3 DEF ProvideWrong, TypeInv
    <3> QED
      BY <3>1, AnswerKeepsAsked
  <2>4. CASE ProvideRight(c, r)
    BY <1>1, <2>4 DEF ProvideRight
  <2> QED
    BY <2>1, <2>2, <2>3, <2>4
<1>4. ASSUME NEW i \in DOMAIN tasks, Provided(i) \/ ProvidedInVain(i) PROVE AskedInv'
  <2> DEFINE c == tasks[i].conn
             r == tasks[i].req
             was == tasks[i].was
  <2>1. tasks[i] \in MempoolTask
    BY <1>4, TaskTyped DEF Provided, ProvidedInVain, Of
  <2>2. c \in Conns /\ r \in ReqIds /\ was \in EntryType
    BY <2>1 DEF MempoolTask
  <2>3. /\ pending' = [pending EXCEPT ![c][r] = NoPending]
        /\ aux' = [aux EXCEPT !.asked = @ \ {<<c, r, was.serial>>}]
        /\ Done(i)
    BY <1>4 DEF Provided, ProvidedInVain, Of
  <2>4. \A j \in DOMAIN tasks' : \E k \in DOMAIN tasks : tasks'[j] = tasks[k]
    <3>1. tasks' = RemoveAt(tasks, i) /\ tasks \in Seq(TaskType)
      BY <2>3 DEF Done, TypeInv
    <3> QED
      BY <3>1, AfterRemove
  <2>5. CASE aux.reused
    <3>1. aux'.reused = aux.reused
      BY <2>3 DEF TypeInv, AuxType
    <3> QED
      BY <2>5, <3>1 DEF AskedInv, AskedOK
  <2>6. CASE ~aux.reused
    <3>1. Asked(c, r) # {} => pending[c][r] = was
      BY <2>1, <2>6 DEF AskedInv, AskedOK
    <3> HIDE DEF c, r, was
    <3> QED
      BY <2>2, <2>3, <2>4, <3>1, AnswerKeepsAsked
  <2> QED
    BY <2>5, <2>6
<1> QED
  BY <1>1, <1>2, <1>3, <1>4, Frames, HistoryFrames

-----------------------------------------------------------------------------
(* Templates a client is told of. *)

(* What a client is or will be told of was served to it.                    *)
ToldInv ==
    /\ ~aux.denied
    /\ \A c \in Conns : served[c] \subseteq 1..Len(storedAt)
    /\ \A c \in Conns : active[c] # 0 => active[c] \in served[c]
    /\ \A i \in DOMAIN tasks : tasks[i] \in WriteTask => tasks[i].template \in served[tasks[i].conn]

LEMMA StepToldInv ==
    ASSUME TypeInv, ToldInv, Next
    PROVE  ToldInv'
<1>1. ~aux'.denied
  <2>1. ASSUME NEW c \in Conns, RequestTransactionData(c) PROVE ~aux'.denied
    <3>1. Announced(c) \subseteq AvailableTemplates(c)
      <4>1. ASSUME NEW t \in Announced(c) PROVE t \in served[c]
        <5>1. t # 0
          BY LenProperties DEF Announced, Emitted, TypeInv
        <5>2. CASE t = active[c]
          BY <5>1, <5>2 DEF ToldInv
        <5>3. ASSUME NEW i \in DOMAIN tasks, tasks[i].at \in {"announce", "told"},
                     tasks[i].conn = c, tasks[i].template = t
              PROVE  t \in served[c]
          BY <5>3, TaskTyped DEF ToldInv, Of
        <5> QED
          BY <4>1, <5>2, <5>3 DEF Announced
      <4> QED
        BY <4>1 DEF AvailableTemplates
    <3> QED
      BY <2>1, <3>1 DEF RequestTransactionData, ToldInv
  <2> QED
    BY <2>1, HistoryFrames DEF ToldInv
<1>2. \A c \in Conns : served'[c] \subseteq 1..Len(storedAt')
  BY ServedSteps, StoredSteps DEF ToldInv
<1>3. ASSUME NEW c \in Conns, active'[c] # 0 PROVE active'[c] \in served'[c]
  <2>1. active'[c] \in served[c]
    BY <1>3, ActiveSteps DEF ToldInv
  <2> QED
    BY <2>1, ServedSteps
<1>4. ASSUME NEW j \in DOMAIN tasks', NEW task, task = tasks'[j], task \in WriteTask
      PROVE  task.template \in served'[task.conn]
  <2>1. Origin(task) /\ task.conn \in Conns
    BY <1>4, TaskOrigins DEF WriteTask
  <2>2. ~GoneOn(task) /\ ~BeginsCheck(task) /\ ~BeginsSolution(task)
    BY <1>4 DEF GoneOn, BeginsCheck, BeginsSolution, SolutionTask, WriteTask, MempoolTask
  <2>3. CASE Waited(task) \/ Told(task)
    <3>1. task.template \in served[task.conn]
      BY <1>4, <2>3 DEF Waited, Told, ToldInv
    <3> QED
      BY <2>1, <3>1, ServedSteps
  <2>4. CASE BeginsWrite(task)
    <3>1. PICK conns \in SUBSET Conns, t \in Nat \ {0} :
             SendTemplate(conns, t) /\ task \in Announcements(conns, t)
      BY <2>4 DEF BeginsWrite
    <3>2. \A c \in Conns : served'[c] = served[c] \cup IF c \in conns THEN {t} ELSE {}
      BY <3>1, AfterSend
    <3>3. task.template = t /\ task.conn \in conns
      BY <3>1 DEF Announcements
    <3> QED
      BY <3>2, <3>3
  <2> QED
    BY <2>1, <2>2, <2>3, <2>4 DEF Origin
<1> QED
  BY <1>1, <1>2, <1>3, <1>4 DEF ToldInv

(* A subscribed client works on the last template, or its last announcement *)
(* is of it.                                                                *)
Announces(i, c) == tasks[i].at = "announce" /\ tasks[i].conn = c

ClientOK(c) ==
    /\ (\A i \in DOMAIN tasks : ~Announces(i, c)) => active[c] = Len(storedAt)
    /\ \A i \in DOMAIN tasks : Announces(i, c) =>
          \E j \in DOMAIN tasks :
             j >= i /\ Announces(j, c) /\ tasks[j].template = Len(storedAt)

OrderInv == ~crashed => \A c \in subscribed : ClientOK(c)

(* The announcements of a client keep their order, wherever they stand.     *)
LEMMA OrderKept ==
    ASSUME NEW c \in Conns, ClientOK(c), NEW g,
           \A k \in DOMAIN tasks : Announces(k, c) =>
              g[k] \in DOMAIN tasks' /\ tasks'[g[k]] = tasks[k],
           \A k, l \in DOMAIN tasks : Announces(k, c) /\ Announces(l, c) /\ k <= l => g[k] <= g[l],
           \A j \in DOMAIN tasks' : tasks'[j].at = "announce" /\ tasks'[j].conn = c =>
              \E k \in DOMAIN tasks : Announces(k, c) /\ j = g[k],
           Len(storedAt') = Len(storedAt), active'[c] = active[c]
    PROVE  ClientOK(c)'
<1>1. ASSUME \A j \in DOMAIN tasks' : ~(tasks'[j].at = "announce" /\ tasks'[j].conn = c)
      PROVE  active'[c] = Len(storedAt')
  BY <1>1 DEF ClientOK, Announces
<1>2. ASSUME NEW i \in DOMAIN tasks', tasks'[i].at = "announce", tasks'[i].conn = c
      PROVE  \E j \in DOMAIN tasks' :
                /\ j >= i /\ tasks'[j].at = "announce" /\ tasks'[j].conn = c
                /\ tasks'[j].template = Len(storedAt')
  <2>1. PICK k \in DOMAIN tasks : Announces(k, c) /\ i = g[k]
    BY <1>2
  <2>2. PICK l \in DOMAIN tasks :
           l >= k /\ Announces(l, c) /\ tasks[l].template = Len(storedAt)
    BY <2>1 DEF ClientOK
  <2>3. g[k] <= g[l] /\ g[l] \in DOMAIN tasks' /\ tasks'[g[l]] = tasks[l]
    BY <2>1, <2>2
  <2>4. g[l] >= i
    BY <2>1, <2>3
  <2> QED
    BY <2>2, <2>3, <2>4 DEF Announces
<1> QED
  BY <1>1, <1>2 DEF ClientOK, Announces

LEMMA OrderAfterDone ==
    ASSUME TypeInv, NEW c \in Conns, ClientOK(c), NEW i \in DOMAIN tasks, Done(i),
           ~Announces(i, c), Len(storedAt') = Len(storedAt), active'[c] = active[c]
    PROVE  ClientOK(c)'
<1> DEFINE g == [k \in DOMAIN tasks |-> IF k < i THEN k ELSE k - 1]
<1>1. /\ \A j \in DOMAIN tasks' :
            \E k \in DOMAIN tasks : /\ k # i /\ tasks'[j] = tasks[k]
                                    /\ k = IF j < i THEN j ELSE j + 1
      /\ \A k \in DOMAIN tasks : k # i =>
            \E j \in DOMAIN tasks' : /\ tasks'[j] = tasks[k]
                                     /\ k = IF j < i THEN j ELSE j + 1
      /\ DOMAIN tasks = 1..Len(tasks) /\ Len(tasks) \in Nat
      /\ DOMAIN tasks' \subseteq Nat
  <2>1. tasks' = RemoveAt(tasks, i) /\ tasks \in Seq(TaskType)
    BY DEF Done, TypeInv
  <2>2. tasks' \in Seq(TaskType)
    BY <2>1, AfterRemove
  <2>3. DOMAIN tasks' = 1..Len(tasks') /\ Len(tasks') \in Nat
    BY <2>2, LenProperties
  <2>4. /\ \A j \in DOMAIN tasks' :
              \E k \in DOMAIN tasks : /\ k # i /\ tasks'[j] = tasks[k]
                                      /\ k = IF j < i THEN j ELSE j + 1
        /\ \A k \in DOMAIN tasks : k # i =>
              \E j \in DOMAIN tasks' : /\ tasks'[j] = tasks[k]
                                       /\ k = IF j < i THEN j ELSE j + 1
    BY <2>1, AfterRemove
  <2>5. DOMAIN tasks = 1..Len(tasks) /\ Len(tasks) \in Nat
    BY <2>1, LenProperties
  <2> QED
    BY <2>3, <2>4, <2>5
<1>2. ASSUME NEW k \in DOMAIN tasks, k # i
      PROVE  g[k] \in DOMAIN tasks' /\ tasks'[g[k]] = tasks[k]
  <2>1. PICK j \in DOMAIN tasks' : tasks'[j] = tasks[k] /\ k = IF j < i THEN j ELSE j + 1
    BY <1>1, <1>2
  <2>2. j = g[k]
    BY <1>1, <1>2, <2>1
  <2> QED
    BY <2>1, <2>2
<1>3. ASSUME NEW k \in DOMAIN tasks, NEW l \in DOMAIN tasks, k # i, l # i, k <= l
      PROVE  g[k] <= g[l]
  <2>1. k \in Nat /\ l \in Nat /\ i \in Nat
    BY <1>1
  <2>2. /\ g[k] = IF k < i THEN k ELSE k - 1
        /\ g[l] = IF l < i THEN l ELSE l - 1
    OBVIOUS
  <2> QED
    BY ONLY <1>3, <2>1, <2>2
<1>4. ASSUME NEW j \in DOMAIN tasks', tasks'[j].at = "announce", tasks'[j].conn = c
      PROVE  \E k \in DOMAIN tasks : Announces(k, c) /\ j = g[k]
  <2>1. PICK k \in DOMAIN tasks :
           k # i /\ tasks'[j] = tasks[k] /\ k = IF j < i THEN j ELSE j + 1
    BY <1>1
  <2>2. j = g[k]
    BY <1>1, <2>1
  <2> QED
    BY <1>4, <2>1, <2>2 DEF Announces
<1> HIDE DEF g
<1>5. \A k \in DOMAIN tasks : Announces(k, c) => k # i
  OBVIOUS
<1> QED
  BY <1>2, <1>3, <1>4, <1>5, OrderKept

(* Tasks that only get more of other kinds, or go on with a solution.       *)
LEMMA OrderInPlace ==
    ASSUME NEW c \in Conns, ClientOK(c),
           \A k \in DOMAIN tasks : Announces(k, c) => k \in DOMAIN tasks' /\ tasks'[k] = tasks[k],
           \A j \in DOMAIN tasks' : tasks'[j].at = "announce" /\ tasks'[j].conn = c =>
              j \in DOMAIN tasks /\ Announces(j, c),
           Len(storedAt') = Len(storedAt), active'[c] = active[c]
    PROVE  ClientOK(c)'
<1> DEFINE g == [k \in DOMAIN tasks |-> k]
<1>1. \A k \in DOMAIN tasks : g[k] = k
  OBVIOUS
<1> HIDE DEF g
<1> QED
  BY <1>1, OrderKept

LEMMA OrderAfterAppend ==
    ASSUME TypeInv, NEW c \in Conns, ClientOK(c), NEW task \in TaskType,
           task.at # "announce", tasks' = Append(tasks, task),
           Len(storedAt') = Len(storedAt), active'[c] = active[c]
    PROVE  ClientOK(c)'
<1>1. /\ DOMAIN tasks = 1..Len(tasks) /\ Len(tasks) \in Nat
      /\ DOMAIN tasks' = 1 .. Len(tasks) + 1
      /\ \A j \in DOMAIN tasks : tasks'[j] = tasks[j]
      /\ tasks'[Len(tasks) + 1] = task
  BY AfterAppend DEF TypeInv
<1>2. \A k \in DOMAIN tasks : k \in DOMAIN tasks' /\ tasks'[k] = tasks[k]
  BY <1>1
<1>3. ASSUME NEW j \in DOMAIN tasks', tasks'[j].at = "announce", tasks'[j].conn = c
      PROVE  j \in DOMAIN tasks /\ Announces(j, c)
  <2>1. j # Len(tasks) + 1
    BY <1>1, <1>3
  <2>2. j \in DOMAIN tasks
    BY <1>1, <2>1
  <2> QED
    BY <1>1, <1>3, <2>2 DEF Announces
<1> QED
  BY <1>2, <1>3, OrderInPlace

LEMMA OrderAfterGoesOn ==
    ASSUME TypeInv, NEW c \in Conns, ClientOK(c), NEW i \in DOMAIN tasks,
           NEW at \in {"save", "finalize"}, Of(i).at \in {"submit", "save"}, GoesOn(i, at),
           Len(storedAt') = Len(storedAt), active'[c] = active[c]
    PROVE  ClientOK(c)'
<1>1. tasks[i] \in SolutionTask
  BY TaskTyped DEF Of
<1>2. /\ DOMAIN tasks' = DOMAIN tasks
      /\ \A j \in DOMAIN tasks : j # i => tasks'[j] = tasks[j]
      /\ tasks'[i].at = at
  BY <1>1 DEF GoesOn, TypeInv, SolutionTask
<1>3. ~Announces(i, c) /\ tasks'[i].at # "announce"
  BY <1>1, <1>2 DEF SolutionTask, Announces
<1>4. \A k \in DOMAIN tasks : Announces(k, c) => k \in DOMAIN tasks' /\ tasks'[k] = tasks[k]
  BY <1>2, <1>3
<1>5. \A j \in DOMAIN tasks' : tasks'[j].at = "announce" /\ tasks'[j].conn = c =>
         j \in DOMAIN tasks /\ Announces(j, c)
  BY <1>2, <1>3 DEF Announces
<1> QED
  BY <1>4, <1>5, OrderInPlace

(* The clients a template is sent to have it announced last, the others are *)
(* told nothing new.                                                        *)
LEMMA OrderAfterSend ==
    ASSUME TypeInv, NEW conns \in SUBSET Conns, NEW t \in Nat \ {0}, SendTemplate(conns, t),
           Len(storedAt') = t, ~crashed', NEW c \in Conns,
           \/ c \in conns
           \/ ClientOK(c) /\ Len(storedAt') = Len(storedAt) /\ active'[c] = active[c]
    PROVE  ClientOK(c)'
<1>1. /\ DOMAIN tasks = 1..Len(tasks) /\ Len(tasks) \in Nat
      /\ tasks' \in Seq(TaskType)
      /\ \A j \in DOMAIN tasks : j \in DOMAIN tasks' /\ tasks'[j] = tasks[j]
      /\ \A j \in DOMAIN tasks' \ DOMAIN tasks :
            j > Len(tasks) /\ tasks'[j] \in Announcements(conns, t)
      /\ \A s \in Announcements(conns, t) : \E j \in DOMAIN tasks' : j > Len(tasks) /\ tasks'[j] = s
  BY AfterSend
<1>2. DOMAIN tasks' \subseteq Nat
  BY <1>1, LenProperties
<1>3. CASE c \in conns
  <2>1. [at |-> "announce", conn |-> c, template |-> t] \in Announcements(conns, t)
    BY <1>3 DEF Announcements
  <2>2. PICK l \in DOMAIN tasks' : l > Len(tasks) /\ tasks'[l] = [at |-> "announce", conn |-> c, template |-> t]
    BY <1>1, <2>1
  <2>3. ASSUME NEW i \in DOMAIN tasks', tasks'[i].at = "announce", tasks'[i].conn = c
        PROVE  \E j \in DOMAIN tasks' :
                  /\ j >= i /\ tasks'[j].at = "announce" /\ tasks'[j].conn = c
                  /\ tasks'[j].template = t
    <3>1. CASE i \in DOMAIN tasks
      <4>1. l >= i
        BY <1>1, <1>2, <2>2, <3>1
      <4> QED
        BY <2>2, <4>1
    <3>2. CASE i \notin DOMAIN tasks
      <4>1. tasks'[i].template = t
        BY <1>1, <3>2 DEF Announcements
      <4>2. i >= i
        BY <1>2
      <4> QED
        BY <2>3, <4>1, <4>2
    <3> QED
      BY <3>1, <3>2
  <2>4. ~\A i \in DOMAIN tasks' : ~(tasks'[i].at = "announce" /\ tasks'[i].conn = c)
    BY <2>2
  <2> QED
    BY <2>3, <2>4 DEF ClientOK, Announces
<1>4. CASE c \notin conns
  <2>1. ASSUME NEW j \in DOMAIN tasks', tasks'[j].at = "announce", tasks'[j].conn = c
        PROVE  j \in DOMAIN tasks /\ Announces(j, c)
    <3>1. j \in DOMAIN tasks
      BY <1>1, <1>4, <2>1 DEF Announcements
    <3> QED
      BY <1>1, <2>1, <3>1 DEF Announces
  <2> QED
    BY <1>1, <1>4, <2>1, OrderInPlace
<1> QED
  BY <1>3, <1>4

(* NewTemplate is written, SetNewPrevHash follows.                          *)
LEMMA OrderAfterTell ==
    ASSUME TypeInv, NEW i \in DOMAIN tasks, TellTemplate(i), NEW c \in Conns, ClientOK(c)
    PROVE  ClientOK(c)'
<1>1. Len(storedAt') = Len(storedAt)
  BY DEF TellTemplate, Elsewhere, provider
<1>2. tasks[i] \in WriteTask /\ Of(i) = tasks[i]
  BY TaskTyped DEF TellTemplate, FirstWrite, Of
<1>3. CASE Of(i).at # "announce"
  <2>1. Done(i) /\ active' = active
    BY <1>3 DEF TellTemplate
  <2>2. ~Announces(i, c)
    BY <1>2, <1>3 DEF Announces
  <2> QED
    BY <1>1, <2>1, <2>2, OrderAfterDone
<1>4. CASE Of(i).at = "announce"
  <2> DEFINE told == [Of(i) EXCEPT !.at = "told"]
             rest == RemoveAt(tasks, i)
             g == [k \in DOMAIN tasks |-> IF k < i THEN k ELSE k - 1]
  <2>1. /\ tasks' = Append(rest, told) /\ tasks \in Seq(TaskType)
        /\ active' = [active EXCEPT ![tasks[i].conn] = tasks[i].template]
    BY <1>2, <1>4 DEF TellTemplate, TypeInv
  <2>2. told \in TaskType /\ told.at = "told"
    BY <1>2 DEF TaskType, WriteTask
  <2>3. /\ rest \in Seq(TaskType)
        /\ \A j \in DOMAIN rest :
              \E k \in DOMAIN tasks : /\ k # i /\ rest[j] = tasks[k]
                                      /\ k = IF j < i THEN j ELSE j + 1
        /\ \A k \in DOMAIN tasks : k # i =>
              \E j \in DOMAIN rest : /\ rest[j] = tasks[k]
                                     /\ k = IF j < i THEN j ELSE j + 1
    BY <2>1, AfterRemove
  <2>4. DOMAIN tasks = 1..Len(tasks) /\ Len(tasks) \in Nat
    BY <2>1, LenProperties
  <2> HIDE DEF told, rest
  <2>5. /\ DOMAIN rest = 1..Len(rest) /\ Len(rest) \in Nat
        /\ DOMAIN tasks' = 1 .. Len(rest) + 1
        /\ \A j \in DOMAIN rest : tasks'[j] = rest[j]
        /\ tasks'[Len(rest) + 1] = told
    BY <2>1, <2>2, <2>3, AfterAppend
  <2>6. ASSUME NEW k \in DOMAIN tasks, k # i
        PROVE  g[k] \in DOMAIN tasks' /\ tasks'[g[k]] = tasks[k]
    <3>1. PICK j \in DOMAIN rest : rest[j] = tasks[k] /\ k = IF j < i THEN j ELSE j + 1
      BY <2>3, <2>6
    <3>2. j = g[k]
      BY <2>4, <2>5, <2>6, <3>1
    <3>3. j \in DOMAIN tasks' /\ tasks'[j] = rest[j]
      BY <2>5
    <3> QED
      BY <3>1, <3>2, <3>3
  <2>7. ASSUME NEW k \in DOMAIN tasks, NEW l \in DOMAIN tasks, k # i, l # i, k <= l
        PROVE  g[k] <= g[l]
    BY <2>4, <2>7
  <2>8. ASSUME NEW j \in DOMAIN tasks', tasks'[j].at = "announce", tasks'[j].conn = c
        PROVE  \E k \in DOMAIN tasks : Announces(k, c) /\ j = g[k] /\ k # i
    <3>1. j \in DOMAIN rest
      BY <2>2, <2>5, <2>8
    <3>2. PICK k \in DOMAIN tasks :
             k # i /\ rest[j] = tasks[k] /\ k = IF j < i THEN j ELSE j + 1
      BY <2>3, <3>1
    <3>3. j = g[k]
      BY <2>4, <2>5, <3>1, <3>2
    <3>4. tasks'[j] = tasks[k]
      BY <2>5, <3>1, <3>2
    <3> QED
      BY <2>8, <3>2, <3>3, <3>4 DEF Announces
  <2> HIDE DEF g
  <2>9. CASE tasks[i].conn # c
    <3>1. active'[c] = active[c]
      BY <2>1, <2>9 DEF TypeInv
    <3>2. \A k \in DOMAIN tasks : Announces(k, c) => k # i
      BY <2>9 DEF Announces
    <3> QED
      BY <1>1, <2>6, <2>7, <2>8, <3>1, <3>2, OrderKept
  <2>10. CASE tasks[i].conn = c
    <3>1. active'[c] = tasks[i].template
      BY <2>1, <2>10 DEF TypeInv
    <3>2. Announces(i, c)
      BY <1>2, <1>4, <2>10 DEF Announces
    <3>3. \A k \in DOMAIN tasks : Announces(k, c) => k >= i
      <4>1. \A k \in 1..(i - 1) : tasks[k].at = "announce" => tasks[k].conn # c
        BY <1>2, <2>10 DEF TellTemplate, FirstWrite
      <4> QED
        BY <2>4, <4>1 DEF Announces
    <3>4. ASSUME \A j \in DOMAIN tasks' : ~(tasks'[j].at = "announce" /\ tasks'[j].conn = c)
          PROVE  active'[c] = Len(storedAt')
      <4>1. PICK l \in DOMAIN tasks :
               l >= i /\ Announces(l, c) /\ tasks[l].template = Len(storedAt)
        BY <3>2 DEF ClientOK
      <4>2. l = i
        BY <2>6, <3>4, <4>1 DEF Announces
      <4> QED
        BY <1>1, <3>1, <4>1, <4>2
    <3>5. ASSUME NEW j \in DOMAIN tasks', tasks'[j].at = "announce", tasks'[j].conn = c
          PROVE  \E m \in DOMAIN tasks' :
                    /\ m >= j /\ tasks'[m].at = "announce" /\ tasks'[m].conn = c
                    /\ tasks'[m].template = Len(storedAt')
      <4>1. PICK k \in DOMAIN tasks : Announces(k, c) /\ j = g[k] /\ k # i
        BY <2>8, <3>5
      <4>2. PICK l \in DOMAIN tasks :
               l >= k /\ Announces(l, c) /\ tasks[l].template = Len(storedAt)
        BY <4>1 DEF ClientOK
      <4>3. k >= i
        BY <3>3, <4>1
      <4>4. l # i
        BY <2>4, <4>1, <4>2, <4>3
      <4>5. g[k] <= g[l]
        BY <2>7, <4>1, <4>2, <4>4
      <4>6. g[l] \in DOMAIN tasks' /\ tasks'[g[l]] = tasks[l]
        BY <2>6, <4>4
      <4>7. g[l] >= j
        BY <4>1, <4>5
      <4> QED
        BY <1>1, <4>2, <4>6, <4>7 DEF Announces
    <3> QED
      BY <3>4, <3>5 DEF ClientOK, Announces
  <2> QED
    BY <2>9, <2>10
<1> QED
  BY <1>3, <1>4

LEMMA StepOrderInv ==
    ASSUME TypeInv, OrderInv, Next
    PROVE  OrderInv'
<1> SUFFICES ASSUME ~crashed', NEW c \in subscribed' PROVE ClientOK(c)'
  BY DEF OrderInv
<1>1. ~crashed /\ c \in Conns
  BY Frames, SwitchSteps
<1>2. c \in subscribed => ClientOK(c)
  BY <1>1 DEF OrderInv
<1>3. ASSUME UNCHANGED <<tasks, active, storedAt>>, c \in subscribed PROVE ClientOK(c)'
  BY <1>2, <1>3 DEF ClientOK, Announces
<1>4. ASSUME NEW d \in Conns, ProvideTransactions(d) PROVE ClientOK(c)'
  <2>1. UNCHANGED <<active, storedAt, subscribed>>
    BY <1>4 DEF ProvideTransactions, Elsewhere, provider, tdp
  <2>2. PICK r \in ReqIds : ProvideUnasked(d, r) \/ ProvideWrong(d, r) \/ ProvideRight(d, r)
    BY <1>4 DEF ProvideTransactions
  <2>3. CASE ProvideUnasked(d, r) \/ ProvideWrong(d, r)
    BY <1>3, <2>1, <2>3 DEF ProvideUnasked, ProvideWrong
  <2>4. CASE ProvideRight(d, r)
    <3> DEFINE task == [at |-> "mempool", conn |-> d, req |-> r, was |-> pending[d][r]]
    <3>1. tasks' = Append(tasks, task)
      BY <2>4 DEF ProvideRight
    <3>2. task \in TaskType /\ task.at # "announce"
      BY <2>4 DEF ProvideRight, TypeInv, MempoolTask, TaskType
    <3> HIDE DEF task
    <3> QED
      BY <1>1, <1>2, <2>1, <3>1, <3>2, OrderAfterAppend
  <2> QED
    BY <2>2, <2>3, <2>4
<1>5. ASSUME NEW d \in Conns, PushSolution(d) \/ SubmitSolution(d) PROVE ClientOK(c)'
  <2>1. UNCHANGED <<active, storedAt, subscribed>>
    BY <1>5 DEF PushSolution, SubmitSolution, Elsewhere, provider, tdp
  <2>2. PICK solution \in SolutionType, snapshot \in Nat, job \in Nat :
           Submits(d, solution, snapshot, job)
    BY <1>5, SolutionOrigins
  <2> DEFINE task == [at |-> "submit", conn |-> d, solution |-> solution, snapshot |-> snapshot]
  <2>3. tasks' = Append(tasks, task)
    BY <2>2 DEF Submits
  <2>4. task \in TaskType /\ task.at # "announce"
    BY DEF SolutionTask, TaskType
  <2> HIDE DEF task
  <2> QED
    BY <1>1, <1>2, <2>1, <2>3, <2>4, OrderAfterAppend
<1>6. Len(storedAt) \in Nat \ {0} /\ Len(storedAt) + 1 \in Nat \ {0} /\ storedAt \in Seq(Nat)
      /\ now \in Nat
  BY StoredSteps, DeclaredWorkAssumption DEF TypeInv
<1>7. ASSUME NEW d \in Conns, SubscribeTemplates(d) PROVE ClientOK(c)'
  <2>1. /\ storedAt' = [storedAt EXCEPT ![Len(storedAt)] = now]
        /\ SendTemplate({d}, Len(storedAt))
        /\ subscribed' = subscribed \cup {d} /\ active' = active
    BY <1>7 DEF SubscribeTemplates, Emitted
  <2>2. Len(storedAt') = Len(storedAt)
    <3>1. Len(storedAt) \in 1..Len(storedAt)
      BY <1>6
    <3> QED
      BY <1>6, <2>1, <3>1, ExceptSeq
  <2>3. {d} \in SUBSET Conns /\ (c \in {d} \/ c \in subscribed)
    BY <2>1
  <2> QED
    BY <1>1, <1>2, <1>6, <2>1, <2>2, <2>3, OrderAfterSend
<1>8. ASSUME NewTemplate PROVE ClientOK(c)'
  <2>1. /\ storedAt' = Append(storedAt, now)
        /\ SendTemplate(subscribed, Len(storedAt) + 1)
        /\ subscribed' = subscribed /\ subscribed \in SUBSET Conns
    BY <1>8 DEF NewTemplate, Emitted, TypeInv
  <2>2. Len(storedAt') = Len(storedAt) + 1
    BY <1>6, <2>1, AppendProperties
  <2> QED
    BY <1>1, <1>6, <2>1, <2>2, OrderAfterSend
<1>9. ASSUME NEW i \in DOMAIN tasks, Wakes(i) PROVE ClientOK(c)'
  <2>1. CASE TellTemplate(i)
    <3>1. c \in subscribed
      BY <2>1 DEF TellTemplate
    <3> QED
      BY <1>1, <1>2, <2>1, <3>1, OrderAfterTell
  <2>2. CASE TellFails(i)
    BY <2>2 DEF TellFails
  <2>3. CASE Provided(i) \/ ProvidedInVain(i) \/ Finalize(i)
    <3>1. /\ UNCHANGED <<active, storedAt>> /\ c \in subscribed
          /\ Of(i).at \in {"mempool", "finalize"} /\ Done(i)
      BY <2>3 DEF Provided, ProvidedInVain, Finalize, Elsewhere, provider, tdp
    <3>2. ~Announces(i, c)
      BY <3>1 DEF Of, Announces
    <3> QED
      BY <1>1, <1>2, <3>1, <3>2, OrderAfterDone
  <2>4. CASE DatabaseFails(i)
    <3>1. /\ UNCHANGED <<active, storedAt>> /\ c \in subscribed
          /\ Of(i).at \in {"save", "finalize"} /\ Done(i)
      BY <2>4 DEF DatabaseFails, Closes, Elsewhere, provider
    <3>2. ~Announces(i, c)
      BY <3>1 DEF Of, Announces
    <3> QED
      BY <1>1, <1>2, <3>1, <3>2, OrderAfterDone
  <2>5. CASE NodeAnswers(i)
    <3>1. /\ UNCHANGED <<active, storedAt>> /\ c \in subscribed
          /\ Of(i).at = "submit" /\ GoesOn(i, "save")
      BY <2>5 DEF NodeAnswers, Elsewhere, provider, tdp
    <3> QED
      BY <1>1, <1>2, <3>1, OrderAfterGoesOn
  <2>6. CASE SaveBlock(i)
    <3>1. /\ UNCHANGED <<active, storedAt>> /\ c \in subscribed
          /\ Of(i).at = "save"
      BY <2>6 DEF SaveBlock, Elsewhere, provider, tdp
    <3>2. CASE GoesOn(i, "finalize")
      BY <1>1, <1>2, <3>1, <3>2, OrderAfterGoesOn
    <3>3. CASE Done(i)
      <4>1. ~Announces(i, c)
        BY <3>1 DEF Of, Announces
      <4> QED
        BY <1>1, <1>2, <3>1, <3>3, <4>1, OrderAfterDone
    <3> QED
      BY <2>6, <3>2, <3>3 DEF SaveBlock
  <2> QED
    BY <1>9, <2>1, <2>2, <2>3, <2>4, <2>5, <2>6 DEF Wakes
<1>10. ASSUME NEW d \in Conns, Handles(d) PROVE ClientOK(c)'
  <2>1. CASE Negotiate(d) \/ AllocateToken(d) \/ DeclareMiningJob(d) \/ AskTransactions(d)
             \/ RequestTransactionData(d) \/ Close(d)
    <3>1. UNCHANGED <<tasks, active, storedAt>> /\ c \in subscribed
      BY <2>1 DEF Negotiate, AllocateToken, DeclareMiningJob, AskTransactions,
                  RequestTransactionData, Close, Closes, Elsewhere, provider, tdp
    <3> QED
      BY <1>3, <3>1
  <2> QED
    BY <1>4, <1>5, <1>7, <1>10, <2>1 DEF Handles
<1>11. CASE SetCustomMiningJob \/ Tick
  BY <1>3, <1>11 DEF SetCustomMiningJob, Tick, Elsewhere, provider, tdp
<1> QED
  BY <1>8, <1>9, <1>10, <1>11 DEF Next

-----------------------------------------------------------------------------
Inv ==
    /\ TypeInv /\ RegistryInv /\ LatestInv /\ UsedInv /\ BlocksInv
    /\ AskedInv /\ ToldInv /\ OrderInv

LEMMA InitInv == Init => Inv
<1> SUFFICES ASSUME Init PROVE Inv
  OBVIOUS
<1> USE DEF Init, provider
<1> DEFINE IsEmpty(s, T) == s \in Seq(T) /\ Len(s) = 0 /\ DOMAIN s = {}
<1>0. ASSUME NEW T PROVE IsEmpty(<< >>, T)
  BY EmptySeq
<1>1. /\ IsEmpty(tokens, TokenType) /\ IsEmpty(jobs, JobType) /\ IsEmpty(tasks, TaskType)
      /\ storedAt = <<0>> /\ Len(storedAt) = 1 /\ storedAt \in Seq(Nat)
  <2>1. /\ tokens = << >> /\ jobs = << >> /\ tasks = << >> /\ storedAt = <<0>>
    OBVIOUS
  <2>2. <<0>> \in Seq(Nat) /\ Len(<<0>>) = 1
    OBVIOUS
  <2> HIDE DEF IsEmpty
  <2>3. IsEmpty(<< >>, TokenType) /\ IsEmpty(<< >>, JobType) /\ IsEmpty(<< >>, TaskType)
    BY <1>0
  <2> QED
    BY ONLY <2>1, <2>2, <2>3
<1>2. /\ aux \in AuxType /\ aux.used = {} /\ aux.built = {} /\ aux.asked = {}
      /\ ~aux.twice /\ ~aux.unknown /\ ~aux.denied
  BY DEF AuxType
<1>3. TypeInv
  <2>1. /\ now \in 0..MaxTime
        /\ config \in [mode : {"solo", "pplns"}, address : BOOLEAN, bare : SUBSET (1..MaxTemplates)]
        /\ kind \in [Conns -> {"jdp", "tdp"}]
    BY DeclaredWorkAssumption
  <2>2. /\ open \subseteq Conns /\ subscribed \subseteq open /\ txData \subseteq Conns
        /\ finalized = {} /\ crashed \in BOOLEAN
    BY Zenon
  <2>3. msgs \in Nat
    OBVIOUS
  <2>4. /\ pending \in [Conns -> [ReqIds -> EntryType \cup {NoPending}]]
        /\ latestJob \in [Conns -> 0..Len(jobs)]
        /\ served \in [Conns -> SUBSET Nat] /\ active \in [Conns -> Nat]
        /\ submitted \in [Conns -> SUBSET SolutionType]
    BY <1>1
  <2> QED
    BY <1>1, <1>2, <2>1, <2>2, <2>3, <2>4 DEF TypeInv
<1>4. RegistryInv /\ LatestInv /\ UsedInv /\ BlocksInv
  BY <1>1, <1>2 DEF RegistryInv, LatestInv, UsedInv, BlocksInv
<1>5. AskedInv /\ ToldInv /\ OrderInv
  BY <1>1, <1>2 DEF AskedInv, AskedOK, ToldInv, OrderInv
<1> QED
  BY <1>3, <1>4, <1>5 DEF Inv

LEMMA StepInv == Inv /\ [Next]_vars => Inv'
<1> SUFFICES ASSUME Inv, [Next]_vars PROVE Inv'
  OBVIOUS
<1>1. CASE Next
  BY <1>1, StepTypeInv, StepRegistryInv, StepLatestInv, StepUsedInv, StepBlocksInv,
     StepAskedInv, StepToldInv, StepOrderInv DEF Inv
<1>2. CASE UNCHANGED vars
  <2> USE <1>2 DEF Inv, vars, provider, registry, jdp, tdp, found
  <2>1. TypeInv'
    BY DEF TypeInv
  <2>2. RegistryInv' /\ LatestInv' /\ UsedInv'
    BY DEF RegistryInv, TokenOK, EntryOK, JobOK, LatestInv, UsedInv
  <2>3. BlocksInv'
    BY DEF BlocksInv, BuiltOK, Booked
  <2>4. AskedInv' /\ ToldInv'
    BY DEF AskedInv, AskedOK, Asked, ToldInv
  <2>5. OrderInv'
    BY DEF OrderInv, ClientOK, Announces
  <2> QED
    BY <2>1, <2>2, <2>3, <2>4, <2>5
<1> QED
  BY <1>1, <1>2

LEMMA InvariantHolds == Spec => []Inv
BY InitInv, StepInv, PTL DEF Spec

LEMMA InvImpliesTypeOK == Inv => TypeOK
<1> SUFFICES ASSUME Inv PROVE TypeOK
  OBVIOUS
<1>1. TypeInv /\ Len(storedAt) \in Nat \ {0} /\ DOMAIN tokens = 1..Len(tokens)
      /\ Len(tokens) \in Nat
  BY LenProperties DEF Inv, TypeInv
<1>2. ASSUME NEW j \in DOMAIN jobs
      PROVE  jobs[j].token \in DOMAIN tokens /\ jobs[j].template \in 1..Emitted
  <2>1. jobs[j] \in JobType /\ JobOK(jobs[j])
    BY <1>1, ElementOfSeq, LenProperties DEF Inv, TypeInv, RegistryInv
  <2> QED
    BY <1>1, <2>1 DEF JobOK, JobType, Emitted
<1>3. ASSUME NEW c \in Conns
      PROVE  /\ latestJob[c] # 0 => jobs[latestJob[c]].conn = c
             /\ served[c] \cup {active[c]} \subseteq 0..Emitted
  BY <1>1 DEF Inv, LatestInv, ToldInv, Emitted
<1>4. ASSUME NEW c \in Conns, NEW r \in ReqIds
      PROVE  pending[c][r].token \in 0..Len(tokens)
  BY <1>1 DEF Inv, RegistryInv, EntryOK, NoPending
<1>5. ASSUME NEW i \in DOMAIN tasks
      PROVE  tasks[i].at \in {"mempool", "submit", "save", "finalize", "announce", "told"}
  BY <1>1, TaskTyped DEF TaskType, MempoolTask, SolutionTask, WriteTask
<1> QED
  BY <1>1, <1>2, <1>3, <1>4, <1>5 DEF TypeOK, TypeInv

(* A custom job is used only while the template it was checked against was  *)
(* the latest at most two lifetimes of a token ago (SetCustomMiningJob and  *)
(* declareJob, which each look at one lifetime), and provided transactions  *)
(* are answered from the declaration they belong to, however many clients   *)
(* declare and whatever the node's checks take.                             *)
THEOREM JobsAreYoung == Spec => []JobsInv
<1>1. Inv => JobsInv
  <2> SUFFICES ASSUME Inv PROVE JobsInv
    OBVIOUS
  <2>1. CustomJobIsYoung
    BY DEF Inv, UsedInv, CustomJobIsYoung
  <2>2. ProvidedIsKnown
    BY DEF Inv, AskedInv, AskedOK, ProvidedIsKnown
  <2> QED
    BY <2>1, <2>2, InvImpliesTypeOK DEF JobsInv
<1> QED
  BY <1>1, InvariantHolds, PTL

(* handlePushSolution: what is pushed becomes a block of the job it was     *)
(* mined on or of a later one of the same client, and the snapshot that is  *)
(* finalized for it is the one whose outputs its token demanded, unless a   *)
(* template came between the token and the declaration.                     *)
THEOREM PushesAreBooked == Spec => []PushedIsBooked
<1>1. Inv => PushedIsBooked
  <2> SUFFICES ASSUME Inv PROVE PushedIsBooked
    OBVIOUS
  <2>1. PushBuildsLatest
    BY DEF Inv, BlocksInv, BuiltOK, PushBuildsLatest
  <2>2. ASSUME NEW f \in finalized
        PROVE  \/ kind[f.conn] = "tdp" /\ f.snapshot = f.solution.on
               \/ kind[f.conn] = "jdp" /\
                    \E b \in aux.built :
                       /\ b.conn = f.conn /\ b.solution = f.solution
                       /\ LET token == tokens[jobs[b.job].token]
                          IN  f.snapshot = token.outputs \/ TokenIsOlder(jobs[b.job])
    <3>1. Booked(f) /\ kind[f.conn] \in {"jdp", "tdp"} /\ f.snapshot # 0
      BY DEF Inv, BlocksInv, TypeInv
    <3>2. CASE kind[f.conn] = "tdp"
      BY <3>1, <3>2 DEF Booked
    <3>3. CASE kind[f.conn] = "jdp"
      <4>1. PICK b \in aux.built :
               b.conn = f.conn /\ b.solution = f.solution /\ f.snapshot = jobs[b.job].template
        BY <3>1, <3>3 DEF Booked
      <4>2. b.job \in DOMAIN jobs
        BY <3>3, <4>1 DEF Inv, BlocksInv, BuiltOK
      <4> DEFINE job == jobs[b.job]
      <4>3. JobOK(job) /\ job \in JobType
        BY <4>2, ElementOfSeq, LenProperties DEF Inv, RegistryInv, TypeInv
      <4> HIDE DEF job
      <4>4. TokenOK(job.token) /\ tokens[job.token] \in TokenType
        BY <4>3, ElementOfSeq, LenProperties DEF Inv, RegistryInv, JobOK, TypeInv
      <4>5. tokens[job.token].outputs = job.template \/ TokenIsOlder(job)
        BY <4>3, <4>4 DEF TokenOK, JobOK, TokenIsOlder, TokenType, JobType
      <4> QED
        BY <3>3, <4>1, <4>5 DEF job
    <3> QED
      BY <3>1, <3>2, <3>3
  <2> QED
    BY <2>1, <2>2 DEF PushedIsBooked, FinalizedIsPaid
<1> QED
  BY <1>1, InvariantHolds, PTL

(* submittedSolutions is written before submitblock is awaited: no          *)
(* connection has a solution submitted to the node twice.                   *)
THEOREM SolutionsGoOnce == Spec => []SubmittedOnce
<1>1. Inv => SubmittedOnce
  BY DEF Inv, BlocksInv, SubmittedOnce
<1> QED
  BY <1>1, InvariantHolds, PTL

(* sendTemplate: when all is written a subscribed client is on the last     *)
(* template, however its frames and new templates overlap, and what it was  *)
(* told of can be asked for and solved.                                     *)
THEOREM ClientsHaveTemplates == Spec => []TemplatesReachClient
<1>1. Inv => TemplatesReachClient
  <2> SUFFICES ASSUME Inv PROVE TemplatesReachClient
    OBVIOUS
  <2>1. ClientOnLatest
    BY DEF Inv, OrderInv, ClientOK, Announces, ClientOnLatest, Emitted
  <2>2. ToldIsAvailable
    BY DEF Inv, ToldInv, ToldIsAvailable
  <2> QED
    BY <2>1, <2>2 DEF TemplatesReachClient
<1> QED
  BY <1>1, InvariantHolds, PTL
=============================================================================
