------------------------ MODULE StratumV2SessionProofs ------------------------
(***************************************************************************)
(* Invariants of StratumV2Session, for every set of connections,           *)
(* difficulties and amounts of work, and every bound.                      *)
(*                                                                         *)
(* The inductive invariant is HoldsInv /\ LogInv /\ HeightsOK.  Of one     *)
(* session at a time HoldsInv says that its row is there when something needs it        *)
(* (RowOK), that a channel's difficulties were told (ToldOK), that its     *)
(* jobs' numbers differ, those still to be recorded included (Counted,     *)
(* Apart), so that what was accepted is remembered as long as its job is   *)
(* found (Remembered), and which are of the block (CurrentOK); what a      *)
(* session that ended has left (Ended); and which channels it may still    *)
(* be about to open (Known).  PoolOK relates the sessions by the prefixes  *)
(* of their channels.  LogInv follows an accepted share: it waits for one  *)
(* write or call, is recorded, or is dropped (Books).                      *)
(*                                                                         *)
(* Most steps change a session in a way the books do not notice (Quietly)  *)
(* and add work to it (Grown) or take it away (Emptied); what they leave   *)
(* alone is shown once for each of these.                                  *)
(***************************************************************************)
EXTENDS StratumV2Session, SequenceTheorems, FiniteSetTheorems, TLAPS

(* The types, of a session and of the variables.                            *)
ThenType == [kind : {"open"}, first : BOOLEAN] \cup [kind : {"fan", "retarget"}, after : Nat]
Act2Task == [at : {"act2"}]
OpenedTask == [at : {"opened"}, ch : Nat, first : BOOLEAN]
JobTask == [at : {"job", "active"}, ch : Nat, n : Nat \ {0}, template : 1..MaxTemplates,
            prev : BOOLEAN, then : ThenType]
TargetTask == [at : {"target"}, ch : Nat]
ReplyTask == [at : {"replied"}, share : ShareType]
TaskType == Act2Task \cup OpenedTask \cup JobTask \cup TargetTask \cup ReplyTask
WriteType == [task : TaskType, fails : BOOLEAN]

ShareCall == [at : {"node", "save", "record", "touch"}, share : ShareType]
CallType == ShareCall \cup [at : {"delete"}, share : {0}]
OpeningType == [ch : Nat, first : BOOLEAN]

ChanType ==
    [type : {"standard", "extended"}, diff : Nat, held : SUBSET JobType, on : 0..MaxTemplates,
     hashes : SUBSET ((Nat \ {0}) \X Work), told : SUBSET Nat, sent : SUBSET (Nat \ {0}),
     works : 0..MaxTemplates, prev : 0..MaxTemplates]
ChansType == UNION {[D -> ChanType] : D \in SUBSET Nat}
Registered == [n : Nat \ {0}, template : 1..MaxTemplates]

Shakes == {"act1", "answering", "done"}
Sockets == {"open", "destroyed"}
RowStates == {"none", "inserting", "have", "failed"}

SessType ==
    [mode : PayoutModes, handshake : Shakes, socket : Sockets, destroyed : BOOLEAN,
     workSelection : BOOLEAN, diff : Nat, row : RowStates, stream : BOOLEAN,
     chans : ChansType, jobs : SUBSET Registered, made : Nat, openings : Seq(OpeningType),
     writes : Seq(WriteType), calls : Seq(CallType), more : BOOLEAN, msgs : Nat,
     accepted : SUBSET ShareType, stale : SUBSET ShareType, forgot : BOOLEAN,
     overtaken : BOOLEAN, early : BOOLEAN, missed : BOOLEAN, racing : BOOLEAN]

-----------------------------------------------------------------------------
(* Sequences and sets. *)

(* What is left when the i-th element of a sequence is gone.               *)
LEMMA RemoveAtProperties ==
    ASSUME NEW S, NEW seq \in Seq(S), NEW i \in DOMAIN seq
    PROVE  /\ RemoveAt(seq, i) \in Seq(S)
           /\ Len(RemoveAt(seq, i)) = Len(seq) - 1
           /\ \A j \in 1 .. Len(seq) - 1 :
                 RemoveAt(seq, i)[j] = IF j < i THEN seq[j] ELSE seq[j + 1]
<1> DEFINE n == Len(seq)
           front == SubSeq(seq, 1, i - 1)
           rest == SubSeq(seq, i + 1, n)
<1>1. /\ n \in Nat /\ i \in 1..n
      /\ \A j \in 1..n : seq[j] \in S
  BY LenProperties, ElementOfSeq
<1>2. /\ front \in Seq(S) /\ Len(front) = i - 1
      /\ \A j \in 1 .. i - 1 : front[j] = seq[j]
  <2>1. \A j \in 1 .. i - 1 : seq[j] \in S
    BY <1>1
  <2>2. /\ front \in Seq(S)
        /\ Len(front) = IF 1 <= i - 1 THEN i - 1 - 1 + 1 ELSE 0
        /\ \A j \in 1 .. i - 1 - 1 + 1 : front[j] = seq[1 + j - 1]
    BY <1>1, <2>1, SubSeqProperties
  <2> QED
    BY <1>1, <2>2
<1>3. /\ rest \in Seq(S) /\ Len(rest) = n - i
      /\ \A j \in 1 .. n - i : rest[j] = seq[i + j]
  <2>1. \A j \in i + 1 .. n : seq[j] \in S
    BY <1>1
  <2>2. /\ rest \in Seq(S)
        /\ Len(rest) = IF i + 1 <= n THEN n - (i + 1) + 1 ELSE 0
        /\ \A j \in 1 .. n - (i + 1) + 1 : rest[j] = seq[i + 1 + j - 1]
    BY <1>1, <2>1, SubSeqProperties
  <2> QED
    BY <1>1, <2>2
<1> HIDE DEF n, front, rest
<1>4. /\ front \o rest \in Seq(S) /\ Len(front \o rest) = n - 1
      /\ \A j \in 1 .. n - 1 : (front \o rest)[j] =
            IF j <= i - 1 THEN front[j] ELSE rest[j - (i - 1)]
  <2>1. /\ front \o rest \in Seq(S)
        /\ Len(front \o rest) = Len(front) + Len(rest)
        /\ \A j \in 1 .. Len(front) + Len(rest) : (front \o rest)[j] =
              IF j <= Len(front) THEN front[j] ELSE rest[j - Len(front)]
    BY <1>2, <1>3, ConcatProperties
  <2>2. Len(front) + Len(rest) = n - 1
    BY <1>1, <1>2, <1>3
  <2> QED
    BY <1>2, <2>1, <2>2
<1>5. ASSUME NEW j \in 1 .. n - 1
      PROVE  (front \o rest)[j] = IF j < i THEN seq[j] ELSE seq[j + 1]
  <2>1. CASE j < i
    BY <1>1, <1>2, <1>4, <2>1
  <2>2. CASE ~(j < i)
    <3>1. ~(j <= i - 1) /\ j - (i - 1) \in 1 .. n - i
      BY <1>1, <2>2
    <3>2. (front \o rest)[j] = seq[i + (j - (i - 1))]
      BY <1>3, <1>4, <3>1
    <3>3. i + (j - (i - 1)) = j + 1
      BY <1>1
    <3> QED
      BY <2>2, <3>2, <3>3
  <2> QED
    BY <2>1, <2>2
<1> QED
  BY <1>4, <1>5 DEF RemoveAt, front, rest, n

(* The elements that are left are those of the other places, in order.     *)
LEMMA AfterRemove ==
    ASSUME NEW S, NEW seq \in Seq(S), NEW i \in DOMAIN seq
    PROVE  /\ RemoveAt(seq, i) \in Seq(S)
           /\ \A j \in DOMAIN RemoveAt(seq, i) :
                 \E k \in DOMAIN seq : /\ k # i /\ RemoveAt(seq, i)[j] = seq[k]
                                       /\ k = IF j < i THEN j ELSE j + 1
           /\ \A k \in DOMAIN seq : k # i =>
                 \E j \in DOMAIN RemoveAt(seq, i) :
                    /\ RemoveAt(seq, i)[j] = seq[k]
                    /\ k = IF j < i THEN j ELSE j + 1
<1> DEFINE rest == RemoveAt(seq, i)
<1>1. Len(seq) \in Nat /\ DOMAIN seq = 1..Len(seq)
  BY LenProperties
<1>2. /\ rest \in Seq(S) /\ Len(rest) = Len(seq) - 1
      /\ \A j \in 1 .. Len(seq) - 1 :
            rest[j] = IF j < i THEN seq[j] ELSE seq[j + 1]
  BY RemoveAtProperties
<1>3. DOMAIN rest = 1 .. Len(seq) - 1
  BY <1>2, LenProperties
<1> HIDE DEF rest
<1>4. ASSUME NEW j \in DOMAIN rest
      PROVE  \E k \in DOMAIN seq : /\ k # i /\ rest[j] = seq[k]
                                   /\ k = IF j < i THEN j ELSE j + 1
  BY <1>1, <1>2, <1>3
<1>5. ASSUME NEW k \in DOMAIN seq, k # i
      PROVE  \E j \in DOMAIN rest : /\ rest[j] = seq[k]
                                    /\ k = IF j < i THEN j ELSE j + 1
  <2>1. CASE k < i
    BY <1>1, <1>2, <1>3, <2>1
  <2>2. CASE k > i
    <3>1. k - 1 \in DOMAIN rest /\ rest[k - 1] = seq[k - 1 + 1]
      BY <1>1, <1>2, <1>3, <2>2
    <3> QED
      BY <1>1, <2>2, <3>1
  <2> QED
    BY <1>1, <1>5, <2>1, <2>2
<1> QED
  BY <1>2, <1>4, <1>5 DEF rest

LEMMA AfterAppend ==
    ASSUME NEW S, NEW seq \in Seq(S), NEW e \in S
    PROVE  /\ Append(seq, e) \in Seq(S)
           /\ DOMAIN seq = 1..Len(seq) /\ Len(seq) \in Nat
           /\ Len(Append(seq, e)) = Len(seq) + 1
           /\ DOMAIN Append(seq, e) = 1 .. Len(seq) + 1
           /\ \A j \in DOMAIN seq : Append(seq, e)[j] = seq[j]
           /\ Append(seq, e)[Len(seq) + 1] = e
BY AppendProperties, LenProperties

(* A set of naturals that is not empty has a least element. *)
LEMMA LeastOf ==
    ASSUME NEW T \in SUBSET Nat, T # {}
    PROVE  Min(T) \in T /\ \A y \in T : Min(T) <= y
<1> DEFINE F == {0..n : n \in T}
<1>1. F \subseteq FiniteSubsetsOf(Nat) /\ F # {}
  <2>1. \A n \in Nat : IsFiniteSet(0..n) /\ 0..n \subseteq Nat
    BY FS_Interval
  <2> QED
    BY <2>1 DEF FiniteSubsetsOf
<1>2. PICK m \in F : \A y \in F : ~(<<y, m>> \in StrictSubsetOrdering(Nat))
  BY <1>1, FS_StrictSubsetOrderingWellFounded, WFMin
<1>3. PICK x \in T : m = 0..x
  OBVIOUS
<1>4. ASSUME NEW y \in T PROVE x <= y
  <2> SUFFICES ASSUME y < x PROVE FALSE
    OBVIOUS
  <2>1. 0..y \subseteq 0..x /\ 0..y # 0..x /\ 0..x \subseteq Nat
    <3>1. x \in 0..x /\ x \notin 0..y
      OBVIOUS
    <3> QED
      BY <3>1
  <2>2. <<0..y, m>> \in StrictSubsetOrdering(Nat)
    BY <1>3, <2>1 DEF StrictSubsetOrdering
  <2> QED
    BY <1>2, <2>2
<1> QED
  BY <1>4 DEF Min

-----------------------------------------------------------------------------
(* What the methods do to a session. *)

(* All but the channels, the jobs and the writes.                           *)
Rest(s, t) ==
    /\ t.mode = s.mode /\ t.handshake = s.handshake /\ t.socket = s.socket
    /\ t.destroyed = s.destroyed /\ t.workSelection = s.workSelection /\ t.diff = s.diff
    /\ t.row = s.row /\ t.openings = s.openings /\ t.calls = s.calls /\ t.more = s.more
    /\ t.msgs = s.msgs /\ t.accepted = s.accepted /\ t.stale = s.stale
    /\ t.forgot = s.forgot /\ t.overtaken = s.overtaken /\ t.racing = s.racing

Flags(s, t) == t.stream = s.stream /\ t.early = s.early /\ t.missed = s.missed
Jobs(s, t) == t.jobs = s.jobs /\ t.made = s.made

LEMMA ChansOf ==
    ASSUME NEW s \in SessType
    PROVE  /\ Open(s) \in SUBSET Nat /\ s.chans \in [Open(s) -> ChanType]
           /\ \A ch \in Open(s) : s.chans[ch] \in ChanType
<1>1. s.chans \in ChansType
  BY DEF SessType
<1>2. PICK D \in SUBSET Nat : s.chans \in [D -> ChanType]
  BY <1>1 DEF ChansType
<1> QED
  BY <1>2 DEF Open

LEMMA IsChans ==
    ASSUME NEW D \in SUBSET Nat, NEW f \in [D -> ChanType]
    PROVE  f \in ChansType /\ DOMAIN f = D
BY DEF ChansType

LEMMA SetChans ==
    ASSUME NEW s \in SessType, NEW f \in ChansType
    PROVE  LET t == [s EXCEPT !.chans = f]
           IN  /\ t \in SessType /\ Rest(s, t) /\ Flags(s, t) /\ Jobs(s, t)
               /\ t.chans = f /\ t.writes = s.writes
BY ZenonT(60) DEF SessType, Rest, Flags, Jobs

LEMMA WithEffect ==
    ASSUME NEW s \in SessType, NEW ch \in Open(s), NEW chan \in ChanType
    PROVE  LET t == With(s, ch, chan)
           IN  /\ t \in SessType /\ Rest(s, t) /\ Flags(s, t) /\ Jobs(s, t)
               /\ t.writes = s.writes /\ Open(t) = Open(s) /\ t.chans[ch] = chan
               /\ \A d \in Open(s) : d # ch => t.chans[d] = s.chans[d]
<1> DEFINE f == [s.chans EXCEPT ![ch] = chan]
           t == [s EXCEPT !.chans = f]
<1>1. f \in [Open(s) -> ChanType] /\ f[ch] = chan /\ \A d \in Open(s) : d # ch => f[d] = s.chans[d]
  BY ChansOf
<1>2. f \in ChansType /\ DOMAIN f = Open(s)
  BY <1>1, ChansOf, IsChans
<1>3. With(s, ch, chan) = t
  BY DEF With
<1> HIDE DEF f
<1>4. /\ t \in SessType /\ Rest(s, t) /\ Flags(s, t) /\ Jobs(s, t)
      /\ t.chans = f /\ t.writes = s.writes
  BY <1>2, SetChans
<1> QED
  BY <1>1, <1>2, <1>3, <1>4 DEF Open

LEMMA WriteEffect ==
    ASSUME NEW s \in SessType, NEW task \in TaskType
    PROVE  LET t == Write(s, task)
           IN  /\ t \in SessType /\ Rest(s, t) /\ Flags(s, t) /\ Jobs(s, t)
               /\ t.chans = s.chans /\ Open(t) = Open(s)
               /\ t.writes = Append(s.writes, [task |-> task, fails |-> FALSE])
<1> DEFINE w == [task |-> task, fails |-> FALSE]
<1>1. w \in WriteType
  BY DEF WriteType
<1>2. s.writes \in Seq(WriteType)
  BY DEF SessType
<1>3. Append(s.writes, w) \in Seq(WriteType)
  BY <1>1, <1>2, AppendProperties
<1>4. Write(s, task) = [s EXCEPT !.writes = Append(s.writes, w)]
  BY DEF Write
<1>5. \A q \in Seq(WriteType) :
         LET t == [s EXCEPT !.writes = q]
         IN  /\ t \in SessType /\ Rest(s, t) /\ Flags(s, t) /\ Jobs(s, t)
             /\ t.chans = s.chans /\ t.writes = q
  BY ZenonT(60) DEF SessType, Rest, Flags, Jobs
<1> HIDE DEF w
<1>6. LET t == Write(s, task)
      IN  /\ t \in SessType /\ Rest(s, t) /\ Flags(s, t) /\ Jobs(s, t)
          /\ t.chans = s.chans /\ t.writes = Append(s.writes, w)
  BY <1>3, <1>4, <1>5
<1> QED
  BY <1>6 DEF Open, w

(* The session once a job has been made. *)
Job(s, template) ==
    [n |-> s.made + 1, template |-> template]

JobSent(ch, n, template, prev, then) ==
    [at |-> "job", ch |-> ch, n |-> n, template |-> template, prev |-> prev, then |-> then]

(* A channel a job was sent on.                                             *)
SentOn(a, b, n, template, prev) ==
    /\ b.type = a.type /\ b.diff = a.diff /\ b.on = a.on /\ b.hashes = a.hashes
    /\ b.told = a.told /\ b.prev = a.prev
    /\ b.works = IF prev THEN a.works ELSE template
    /\ a.type = "extended" => b.held = a.held
    /\ a.type # "extended" =>
          \E j \in JobType : /\ j.n = n /\ j.template = template /\ j.on = template
                             /\ j.diff = a.diff /\ ~j.retired /\ ~j.custom
                             /\ b.held = a.held \cup {j}

LEMMA SendJobEffect ==
    ASSUME NEW s \in SessType, NEW ch \in Nat, NEW template \in 1..MaxTemplates,
           NEW prev \in BOOLEAN, NEW then \in ThenType
    PROVE  LET t == SendJob(s, ch, template, prev, then)
               n == s.made + 1
               task == JobSent(ch, n, template, prev, then)
           IN  /\ t \in SessType /\ Rest(s, t) /\ Flags(s, t) /\ t.made = n
               /\ Open(t) = Open(s) /\ n \in Nat \ {0} /\ task \in JobTask
               /\ t.writes = Append(s.writes, [task |-> task, fails |-> FALSE])
               /\ \A d \in Open(s) : d # ch => t.chans[d] = s.chans[d]
               /\ ch \in Open(s) => SentOn(s.chans[ch], t.chans[ch], n, template, prev)
<1> DEFINE n == s.made + 1
           job == [n |-> n, template |-> template, diff |-> s.chans[ch].diff,
                   on |-> template, current |-> template > Latest \/ infos[template] = LastBlock,
                   retired |-> FALSE, custom |-> FALSE]
           chan == [s.chans[ch] EXCEPT !.sent = @ \cup {n},
                                       !.held = IF Extended(s, ch) THEN @ ELSE @ \cup {job},
                                       !.works = IF prev THEN @ ELSE template]
           r == [s EXCEPT !.made = n, !.jobs = @ \cup {[n |-> n, template |-> template]}]
           u == IF ch \in Open(s) THEN With(r, ch, chan) ELSE r
           task == JobSent(ch, n, template, prev, then)
<1>1. n \in Nat \ {0}
  BY DEF SessType
<1>2. SendJob(s, ch, template, prev, then) = Write(u, task)
  BY DEF SendJob, JobSent
<1>3. task \in JobTask
  BY <1>1 DEF JobTask, JobSent
<1>4. /\ r \in SessType /\ Rest(s, r) /\ Flags(s, r) /\ r.made = n
      /\ r.chans = s.chans /\ r.writes = s.writes
  <2>a. [n |-> n, template |-> template] \in Registered /\ s.jobs \in SUBSET Registered
    BY <1>1 DEF SessType, Registered
  <2>b. s.jobs \cup {[n |-> n, template |-> template]} \in SUBSET Registered /\ n \in Nat
    BY <1>1, <2>a
  <2>1. PICK q \in SUBSET Registered, m \in Nat :
           q = s.jobs \cup {[n |-> n, template |-> template]} /\ m = n
    BY <2>b
  <2>2. PICK t : t = [s EXCEPT !.made = m, !.jobs = q]
    OBVIOUS
  <2>3. t \in SessType /\ t.made = m /\ t.chans = s.chans /\ t.writes = s.writes
    BY ONLY s \in SessType, q \in SUBSET Registered, m \in Nat, <2>2, ZenonT(60) DEF SessType
  <2>4. Rest(s, t)
    BY ONLY s \in SessType, <2>2, ZenonT(60) DEF SessType, Rest
  <2>5. Flags(s, t)
    BY ONLY s \in SessType, <2>2, ZenonT(60) DEF SessType, Flags
  <2>6. r = t
    BY <2>1, <2>2
  <2> QED
    BY <2>1, <2>3, <2>4, <2>5, <2>6
<1>5. ASSUME ch \in Open(s)
      PROVE  chan \in ChanType /\ SentOn(s.chans[ch], chan, n, template, prev)
  <2>1. PICK a \in ChanType : a = s.chans[ch]
    BY <1>5, ChansOf
  <2>2. PICK j \in JobType : j = job
    <3>1. a.diff \in Nat
      BY DEF ChanType
    <3>2. (template > Latest \/ infos[template] = LastBlock) \in BOOLEAN
      OBVIOUS
    <3>3. job \in JobType
      BY <1>1, <2>1, <3>1, <3>2 DEF JobType
    <3> QED
      BY <3>3
  <2>3. j.n = n /\ j.template = template /\ j.on = template /\ j.diff = a.diff /\ ~j.retired /\ ~j.custom
    BY <2>1, <2>2
  <2>4. chan = [a EXCEPT !.sent = @ \cup {n},
                         !.held = IF a.type = "extended" THEN @ ELSE @ \cup {j},
                         !.works = IF prev THEN @ ELSE template]
    BY <2>1, <2>2 DEF Extended
  <2> HIDE DEF job, chan
  <2>5. /\ a.sent \cup {n} \in SUBSET (Nat \ {0})
        /\ (IF a.type = "extended" THEN a.held ELSE a.held \cup {j}) \in SUBSET JobType
        /\ (IF prev THEN a.works ELSE template) \in 0..MaxTemplates
    BY <1>1, StratumV2SessionAssumption DEF ChanType
  <2>6. PICK x \in SUBSET (Nat \ {0}), y \in SUBSET JobType, z \in 0..MaxTemplates :
           /\ x = a.sent \cup {n}
           /\ y = (IF a.type = "extended" THEN a.held ELSE a.held \cup {j})
           /\ z = (IF prev THEN a.works ELSE template)
    BY <2>5
  <2>8. chan = [a EXCEPT !.sent = x, !.held = y, !.works = z]
    BY <2>4, <2>6
  <2>7. /\ chan \in ChanType
        /\ chan.type = a.type /\ chan.diff = a.diff /\ chan.on = a.on /\ chan.hashes = a.hashes
        /\ chan.told = a.told /\ chan.prev = a.prev /\ chan.works = z /\ chan.held = y
    BY ONLY a \in ChanType, x \in SUBSET (Nat \ {0}), y \in SUBSET JobType,
            z \in 0..MaxTemplates, <2>8, ZenonT(60) DEF ChanType
  <2> QED
    BY <2>1, <2>3, <2>6, <2>7 DEF SentOn
<1> HIDE DEF n, chan, r, task
<1>6. /\ u \in SessType /\ Rest(s, u) /\ Flags(s, u) /\ u.made = n
      /\ Open(u) = Open(s) /\ u.writes = s.writes
      /\ \A d \in Open(s) : d # ch => u.chans[d] = s.chans[d]
      /\ ch \in Open(s) => u.chans[ch] = chan
  <2>1. Open(r) = Open(s)
    BY <1>4 DEF Open
  <2>2. CASE ch \in Open(s)
    BY <1>4, <1>5, <2>1, <2>2, WithEffect DEF Rest, Flags, Jobs
  <2>3. CASE ch \notin Open(s)
    BY <1>4, <2>1, <2>3
  <2> QED
    BY <2>2, <2>3
<1> HIDE DEF u
<1>7. LET t == Write(u, task)
      IN  /\ t \in SessType /\ Rest(u, t) /\ Flags(u, t) /\ Jobs(u, t)
          /\ t.chans = u.chans /\ Open(t) = Open(u)
          /\ t.writes = Append(u.writes, [task |-> task, fails |-> FALSE])
  BY <1>3, <1>6, WriteEffect DEF TaskType
<1>8. PICK t : t = Write(u, task)
  OBVIOUS
<1>9. /\ t \in SessType /\ Rest(s, t) /\ Flags(s, t) /\ t.made = n
      /\ Open(t) = Open(s)
      /\ t.writes = Append(s.writes, [task |-> task, fails |-> FALSE])
      /\ \A d \in Open(s) : d # ch => t.chans[d] = s.chans[d]
      /\ ch \in Open(s) => SentOn(s.chans[ch], t.chans[ch], n, template, prev)
  BY <1>5, <1>6, <1>7, <1>8 DEF Rest, Flags, Jobs
<1> QED
  BY <1>1, <1>2, <1>3, <1>8, <1>9 DEF n, task

-----------------------------------------------------------------------------
(* What is so of one session: its row and its channels' difficulties, the   *)
(* numbers of its jobs, and which of them are of the block.  h stands for   *)
(* infos, what the mining info said at each template emitted so far.        *)

At(h, t) == t # 0 /\ h[t] = h[Len(h)]

Task(s, i) == s.writes[i].task

RowOK(s) ==
    /\ s.openings # << >> => s.row = "inserting"
    /\ s.row = "none" => Open(s) = {}
    /\ s.row = "inserting" =>
          \A ch \in Open(s) : \E k \in DOMAIN s.openings : s.openings[k].ch = ch
    /\ s.stream => s.row = "have"
    /\ \A i \in DOMAIN s.writes : Task(s, i).at # "act2" => s.row = "have"
    /\ s.calls # << >> => s.row = "have"

(* A channel's difficulty, once the row is there, and those of its jobs were *)
(* told.                                                                     *)
Told(s, chan) ==
    /\ s.row = "have" => chan.diff \in chan.told
    /\ s.row # "have" => chan.told = {}
    /\ \A j \in chan.held : j.diff \in chan.told
ToldOK(s) == \A ch \in Open(s) : Told(s, s.chans[ch])

(* The jobs' numbers differ, also from those still to be recorded, and what  *)
(* was accepted is remembered while its job can be found.                    *)
Unrecorded(s, i) ==
    /\ Task(s, i).at = "job" /\ Task(s, i).ch \in Open(s) /\ Extended(s, Task(s, i).ch)
Unused(s, n) ==
    /\ \A ch \in Open(s) : \A j \in s.chans[ch].held : j.n # n
    /\ \A share \in s.accepted : share.job.n # n
Counted(s) ==
    /\ \A ch \in Open(s) : \A j \in s.chans[ch].held : j.n <= s.made
    /\ \A share \in s.accepted : share.job.n <= s.made
    /\ \A i \in DOMAIN s.writes : Task(s, i).at = "job" => Task(s, i).n <= s.made
Apart(s) ==
    /\ \A ch, d \in Open(s) : \A j \in s.chans[ch].held, k \in s.chans[d].held :
          j.n = k.n => ch = d
    /\ \A i \in DOMAIN s.writes : Unrecorded(s, i) => Unused(s, Task(s, i).n)
    /\ \A i, k \in DOMAIN s.writes :
          Task(s, i).at = "job" /\ Task(s, k).at = "job" /\ i # k => Task(s, i).n # Task(s, k).n
Remembered(s) ==
    \A share \in s.accepted : \A ch \in Open(s) : \A j \in s.chans[ch].held :
        j.n = share.job.n /\ ~j.retired => s.forgot \/ <<j.n, share.work>> \in s.chans[ch].hashes

(* A job of an extended channel that is neither retired nor custom was       *)
(* recorded as one of the block only if it is, one of a standard channel is  *)
(* of the block its template is of.                                          *)
Current(s, chan, h) ==
    /\ chan.on <= Len(h)
    /\ \A j \in chan.held :
          /\ chan.type = "extended" /\ j.current /\ ~j.retired /\ ~j.custom
                => s.stream /\ At(h, j.on)
          /\ chan.type # "extended" => j.on = j.template /\ ~j.retired /\ ~j.custom
          /\ j.template <= Len(h) /\ j.on <= Len(h)
CurrentOK(s, h) ==
    /\ \A ch \in Open(s) : Current(s, s.chans[ch], h)
    /\ \A share \in s.accepted : share.job.template <= Len(h)
    /\ \A share \in s.stale : share.job.custom \/ ~share.job.current
    /\ \A i \in DOMAIN s.writes :
          Task(s, i).at \in {"job", "active"} => Task(s, i).template <= Len(h)

SessOK(s, h) ==
    /\ RowOK(s) /\ ToldOK(s) /\ Counted(s) /\ Apart(s) /\ Remembered(s) /\ CurrentOK(s, h)

LEMMA WritesTyped ==
    ASSUME NEW s \in SessType
    PROVE  /\ s.writes \in Seq(WriteType) /\ DOMAIN s.writes = 1..Len(s.writes)
           /\ Len(s.writes) \in Nat
           /\ \A i \in DOMAIN s.writes : s.writes[i] \in WriteType /\ Task(s, i) \in TaskType
<1>1. s.writes \in Seq(WriteType)
  BY DEF SessType
<1>2. \A i \in DOMAIN s.writes : s.writes[i] \in WriteType
  BY <1>1, ElementOfSeq, LenProperties
<1> QED
  BY <1>1, <1>2, LenProperties DEF WriteType, Task

(* t has the writes of s and one of task. *)
Appended(s, t, task) ==
    /\ \A i \in DOMAIN s.writes : i \in DOMAIN t.writes /\ t.writes[i] = s.writes[i]
    /\ Len(s.writes) + 1 \in DOMAIN t.writes
    /\ t.writes[Len(s.writes) + 1] = [task |-> task, fails |-> FALSE]
    /\ \A i \in DOMAIN t.writes : i \in DOMAIN s.writes \/ i = Len(s.writes) + 1
    /\ Len(s.writes) + 1 \notin DOMAIN s.writes
    /\ Len(t.writes) = Len(s.writes) + 1

LEMMA AppendedTask ==
    ASSUME NEW s \in SessType, NEW t, NEW task \in TaskType,
           t.writes = Append(s.writes, [task |-> task, fails |-> FALSE])
    PROVE  /\ Appended(s, t, task)
           /\ Task(t, Len(s.writes) + 1) = task
           /\ \A i \in DOMAIN s.writes : Task(t, i) = Task(s, i)
<1>1. [task |-> task, fails |-> FALSE] \in WriteType
  BY DEF WriteType
<1>2. /\ DOMAIN s.writes = 1..Len(s.writes) /\ Len(s.writes) \in Nat
      /\ Len(t.writes) = Len(s.writes) + 1
      /\ DOMAIN t.writes = 1 .. Len(s.writes) + 1
      /\ \A j \in DOMAIN s.writes : t.writes[j] = s.writes[j]
      /\ t.writes[Len(s.writes) + 1] = [task |-> task, fails |-> FALSE]
  BY <1>1, WritesTyped, AfterAppend
<1> QED
  BY <1>2 DEF Appended, Task

LEMMA SendJobOK ==
    ASSUME NEW s \in SessType, NEW ch \in Nat, NEW template \in 1..MaxTemplates,
           NEW prev \in BOOLEAN, NEW then \in ThenType, NEW h \in Seq(Nat),
           SessOK(s, h), s.row = "have", template <= Len(h)
    PROVE  SessOK(SendJob(s, ch, template, prev, then), h)
<1>a. PICK n, task, k : /\ n = s.made + 1 /\ task = JobSent(ch, n, template, prev, then)
                        /\ k = Len(s.writes) + 1
  OBVIOUS
<1>1. PICK t : t = SendJob(s, ch, template, prev, then)
  OBVIOUS
<1>2. /\ t \in SessType /\ Rest(s, t) /\ Flags(s, t) /\ t.made = n
      /\ Open(t) = Open(s) /\ n \in Nat \ {0} /\ task \in TaskType
      /\ t.writes = Append(s.writes, [task |-> task, fails |-> FALSE])
      /\ \A d \in Open(s) : d # ch => t.chans[d] = s.chans[d]
      /\ ch \in Open(s) => SentOn(s.chans[ch], t.chans[ch], n, template, prev)
  BY <1>a, <1>1, SendJobEffect DEF TaskType
<1>3. /\ Appended(s, t, task) /\ Task(t, k) = task
      /\ \A i \in DOMAIN s.writes : Task(t, i) = Task(s, i)
  <2>1. /\ Appended(s, t, task) /\ Task(t, Len(s.writes) + 1) = task
        /\ \A i \in DOMAIN s.writes : Task(t, i) = Task(s, i)
    BY ONLY <1>2, s \in SessType, AppendedTask
  <2> QED
    BY <1>a, <2>1
<1>4. task.at = "job" /\ task.n = n /\ task.ch = ch /\ task.template = template
  BY <1>a DEF JobSent
<1>5. s.made \in Nat /\ n = s.made + 1 /\ k \notin DOMAIN s.writes
  <2>1. DOMAIN s.writes = 1..Len(s.writes) /\ Len(s.writes) \in Nat
    BY WritesTyped
  <2> QED
    BY <1>a, <2>1 DEF SessType
<1>6. ASSUME NEW d \in Open(s)
      PROVE  /\ t.chans[d].type = s.chans[d].type /\ t.chans[d].diff = s.chans[d].diff
             /\ t.chans[d].on = s.chans[d].on
             /\ t.chans[d].told = s.chans[d].told /\ t.chans[d].hashes = s.chans[d].hashes
             /\ \/ t.chans[d].held = s.chans[d].held
                \/ /\ d = ch /\ s.chans[d].type # "extended"
                   /\ \E j \in JobType : /\ j.n = n /\ j.template = template /\ j.on = template
                                         /\ j.diff = s.chans[d].diff /\ ~j.retired /\ ~j.custom
                                         /\ t.chans[d].held = s.chans[d].held \cup {j}
  BY <1>2 DEF SentOn
<1>7. ASSUME NEW d \in Open(s), NEW j \in t.chans[d].held
      PROVE  \/ j \in s.chans[d].held
             \/ /\ d = ch /\ s.chans[d].type # "extended"
                /\ j.n = n /\ j.template = template /\ j.on = template
                /\ j.diff = s.chans[d].diff /\ ~j.retired /\ ~j.custom
  BY <1>6
<1>8. \A i \in DOMAIN t.writes : i \in DOMAIN s.writes \/ i = k
  BY <1>a, <1>3 DEF Appended
<1>9. \A d \in Open(s) : \A j \in s.chans[d].held : j \in JobType /\ j.n \in Nat /\ j.n <= s.made
  BY ChansOf DEF ChanType, JobType, SessOK, Counted
<1>10. \A share \in s.accepted : share.job.n \in Nat /\ share.job.n <= s.made
  BY DEF SessType, ShareType, JobType, SessOK, Counted
<1>11. \A i \in DOMAIN s.writes : Task(s, i).at = "job" => Task(s, i).n \in Nat /\ Task(s, i).n <= s.made
  <2>1. ASSUME NEW i \in DOMAIN s.writes, Task(s, i).at = "job" PROVE Task(s, i).n \in Nat
    BY <2>1, WritesTyped DEF TaskType, JobTask, Act2Task, OpenedTask, TargetTask, ReplyTask
  <2> QED
    BY <2>1 DEF SessOK, Counted
<1>12. RowOK(t)
  BY <1>2, <1>3, <1>8 DEF RowOK, SessOK, Rest, Flags
<1>13. ToldOK(t)
  <2> SUFFICES ASSUME NEW d \in Open(s) PROVE Told(t, t.chans[d])
    BY <1>2 DEF ToldOK
  <2>1. Told(s, s.chans[d]) /\ t.row = "have"
    BY <1>2 DEF SessOK, ToldOK, Rest
  <2> QED
    BY <1>6, <1>7, <2>1 DEF Told
<1>14. Counted(t)
  <2>0. s.made \in Nat /\ s.made <= t.made /\ n <= t.made /\ t.made \in Nat
    BY <1>2, <1>5
  <2>1. ASSUME NEW d \in Open(t), NEW j \in t.chans[d].held
        PROVE  j.n <= t.made
    <3>1. d \in Open(s)
      BY <1>2
    <3>2. CASE j \in s.chans[d].held
      <4>1. j.n \in Nat /\ j.n <= s.made
        BY ONLY <1>9, <3>1, <3>2
      <4> QED
        BY ONLY <2>0, <4>1
    <3>3. CASE j \notin s.chans[d].held
      <4>1. j.n = n
        BY ONLY <1>7, <2>1, <3>1, <3>3
      <4> QED
        BY ONLY <2>0, <4>1
    <3> QED
      BY <3>2, <3>3
  <2>2. ASSUME NEW share \in t.accepted
        PROVE  share.job.n <= t.made
    <3>1. share.job.n \in Nat /\ share.job.n <= s.made
      BY <1>2, <1>10 DEF Rest
    <3> QED
      BY ONLY <2>0, <3>1
  <2>3. ASSUME NEW i \in DOMAIN t.writes, Task(t, i).at = "job"
        PROVE  Task(t, i).n <= t.made
    <3>1. CASE i = k
      BY ONLY <1>3, <1>4, <2>0, <3>1
    <3>2. CASE i \in DOMAIN s.writes
      <4>1. Task(t, i) = Task(s, i)
        BY ONLY <1>3, <3>2
      <4>2. Task(s, i).n \in Nat /\ Task(s, i).n <= s.made
        BY ONLY <1>11, <2>3, <3>2, <4>1
      <4> QED
        BY ONLY <2>0, <4>1, <4>2
    <3> QED
      BY <1>8, <3>1, <3>2
  <2> QED
    BY <2>1, <2>2, <2>3 DEF Counted
<1>15. Apart(t)
  <2>1. ASSUME NEW c \in Open(t), NEW d \in Open(t), NEW i \in t.chans[c].held, NEW j \in t.chans[d].held,
               i.n = j.n
        PROVE  c = d
    <3>1. c \in Open(s) /\ d \in Open(s)
      BY <1>2
    <3>2. CASE i \in s.chans[c].held /\ j \in s.chans[d].held
      BY <2>1, <3>1, <3>2 DEF SessOK, Apart
    <3>3. CASE i \notin s.chans[c].held
      <4>1. c = ch /\ i.n = n
        BY <1>7, <3>1, <3>3
      <4>2. j \notin s.chans[d].held
        <5> SUFFICES ASSUME j \in s.chans[d].held PROVE FALSE
          OBVIOUS
        <5>1. j.n \in Nat /\ j.n <= s.made
          BY <1>9, <3>1
        <5>2. j.n = s.made + 1
          BY <1>5, <2>1, <4>1
        <5> QED
          BY ONLY <1>5, <5>1, <5>2
      <4>3. d = ch
        BY ONLY <1>7, <2>1, <3>1, <4>2
      <4> QED
        BY ONLY <4>1, <4>3
    <3>4. CASE j \notin s.chans[d].held
      <4>1. d = ch /\ j.n = n
        BY <1>7, <3>1, <3>4
      <4>2. i \notin s.chans[c].held
        <5> SUFFICES ASSUME i \in s.chans[c].held PROVE FALSE
          OBVIOUS
        <5>1. i.n \in Nat /\ i.n <= s.made
          BY <1>9, <3>1
        <5>2. i.n = s.made + 1
          BY <1>5, <2>1, <4>1
        <5> QED
          BY ONLY <1>5, <5>1, <5>2
      <4>3. c = ch
        BY ONLY <1>7, <2>1, <3>1, <4>2
      <4> QED
        BY ONLY <4>1, <4>3
    <3> QED
      BY <3>2, <3>3, <3>4
  <2>2. ASSUME NEW i \in DOMAIN t.writes, Unrecorded(t, i)
        PROVE  Unused(t, Task(t, i).n)
    <3>1. CASE i = k
      <4>1. Task(t, i).n = n /\ ch \in Open(s) /\ s.chans[ch].type = "extended"
        <5>1. Task(t, i) = task /\ task.at = "job" /\ task.n = n /\ task.ch = ch
          BY ONLY <1>3, <1>4, <3>1
        <5>2. task.ch \in Open(t) /\ t.chans[task.ch].type = "extended"
          BY ONLY <2>2, <5>1 DEF Unrecorded, Extended
        <5> QED
          BY ONLY <1>2, <1>6, <5>1, <5>2
      <4>2. ASSUME NEW d \in Open(s), NEW j \in t.chans[d].held
            PROVE  j.n # n
        <5>1. j \in s.chans[d].held
          BY ONLY <1>7, d \in Open(s), j \in t.chans[d].held, <4>1
        <5>2. j.n \in Nat /\ j.n <= s.made
          BY ONLY <1>9, d \in Open(s), <5>1
        <5> QED
          BY ONLY <1>5, <5>2
      <4>3. \A share \in s.accepted : share.job.n # n
        BY <1>5, <1>10
      <4> QED
        BY <1>2, <4>1, <4>2, <4>3 DEF Unused, Rest
    <3>2. CASE i \in DOMAIN s.writes
      <4>1. Task(t, i) = Task(s, i)
        BY <1>3, <3>2
      <4>a. /\ Task(s, i).at = "job" /\ Task(s, i).ch \in Open(s)
            /\ t.chans[Task(s, i).ch].type = "extended"
        BY ONLY <1>2, <2>2, <4>1 DEF Unrecorded, Extended
      <4>b. Unrecorded(s, i)
        BY ONLY <1>6, <3>2, <4>a DEF Unrecorded, Extended
      <4>c. Task(s, i).n \in Nat /\ Task(s, i).n <= s.made
        BY ONLY <1>11, <3>2, <4>a
      <4>2. Unrecorded(s, i) /\ Task(s, i).n # n
        BY ONLY <1>5, <4>b, <4>c
      <4>3. Unused(s, Task(s, i).n)
        BY <3>2, <4>2 DEF SessOK, Apart
      <4>4. \A d \in Open(s) : \A j \in t.chans[d].held : j.n # Task(s, i).n
        BY <1>7, <4>2, <4>3 DEF Unused
      <4> QED
        BY <1>2, <4>1, <4>3, <4>4 DEF Unused, Rest
    <3> QED
      BY <1>8, <3>1, <3>2
  <2>3. ASSUME NEW i \in DOMAIN t.writes, NEW j \in DOMAIN t.writes,
               Task(t, i).at = "job", Task(t, j).at = "job", i # j
        PROVE  Task(t, i).n # Task(t, j).n
    <3>1. CASE i \in DOMAIN s.writes /\ j \in DOMAIN s.writes
      BY <1>3, <2>3, <3>1 DEF SessOK, Apart
    <3>2. CASE i = k
      BY <1>3, <1>4, <1>5, <1>8, <1>11, <2>3, <3>2
    <3>3. CASE j = k
      BY <1>3, <1>4, <1>5, <1>8, <1>11, <2>3, <3>3
    <3> QED
      BY <1>8, <3>1, <3>2, <3>3
  <2> QED
    BY <2>1, <2>2, <2>3 DEF Apart
<1>16. Remembered(t)
  <2> SUFFICES ASSUME NEW share \in s.accepted, NEW d \in Open(s), NEW j \in t.chans[d].held,
                      j.n = share.job.n, ~j.retired
               PROVE  s.forgot \/ <<j.n, share.work>> \in s.chans[d].hashes
    BY <1>2, <1>6 DEF Remembered, Rest
  <2>1. j \in s.chans[d].held
    BY <1>5, <1>7, <1>10
  <2> QED
    BY <2>1 DEF SessOK, Remembered
<1>17. CurrentOK(t, h)
  <2>1. ASSUME NEW d \in Open(s) PROVE Current(t, t.chans[d], h)
    <3>1. Current(s, s.chans[d], h) /\ t.stream = s.stream
      BY <1>2 DEF SessOK, CurrentOK, Flags
    <3> QED
      BY <1>6, <1>7, <3>1 DEF Current
  <2>2. \A i \in DOMAIN t.writes :
           Task(t, i).at \in {"job", "active"} => Task(t, i).template <= Len(h)
    BY <1>3, <1>4, <1>8 DEF SessOK, CurrentOK
  <2> QED
    BY <1>2, <2>1, <2>2 DEF SessOK, CurrentOK, Rest
<1> QED
  BY <1>1, <1>12, <1>13, <1>14, <1>15, <1>16, <1>17 DEF SessOK

-----------------------------------------------------------------------------
(* What takes from a session, or leaves it as it is.                        *)

(* A channel's jobs may go or be retired, its submissions are forgotten only *)
(* with them or because they are too many.                                  *)
Weaker(a, b, forgot) ==
    /\ b.type = a.type /\ b.diff = a.diff /\ b.told = a.told /\ b.on = a.on
    /\ \A j \in b.held : \E k \in a.held :
          /\ k.n = j.n /\ k.template = j.template /\ k.diff = j.diff /\ k.on = j.on
          /\ k.current = j.current /\ k.custom = j.custom
          /\ ~j.retired => k = j
          /\ j.retired => k = j \/ a.type = "extended"
    /\ a.hashes \subseteq b.hashes \/ (\A j \in b.held : j.retired) \/ forgot

(* The tasks of t are some of those of s. *)
Renamed(s, t, f) ==
    /\ \A i \in DOMAIN t.writes : f[i] \in DOMAIN s.writes /\ Task(t, i) = Task(s, f[i])
    /\ \A i, k \in DOMAIN t.writes : i # k => f[i] # f[k]

Fewer(s, t) ==
    /\ t.row = s.row /\ t.openings = s.openings
    /\ t.made = s.made /\ t.accepted = s.accepted /\ t.stale = s.stale
    /\ s.forgot => t.forgot
    /\ t.stream => s.stream
    /\ t.stream = s.stream \/ Open(t) = {}
    /\ t.calls # << >> => s.row = "have"
    /\ Open(t) \subseteq Open(s)
    /\ \A ch \in Open(t) : Weaker(s.chans[ch], t.chans[ch], t.forgot)
    /\ \E f : Renamed(s, t, f)

LEMMA FewerOK ==
    ASSUME NEW s \in SessType, NEW t \in SessType, NEW h \in Seq(Nat),
           SessOK(s, h), Fewer(s, t)
    PROVE  SessOK(t, h)
<1>1. PICK f : Renamed(s, t, f)
  BY DEF Fewer
<1>2. ASSUME NEW ch \in Open(t)
      PROVE  ch \in Open(s) /\ Weaker(s.chans[ch], t.chans[ch], t.forgot)
  BY DEF Fewer
<1>3. ASSUME NEW i \in DOMAIN t.writes
      PROVE  f[i] \in DOMAIN s.writes /\ Task(t, i) = Task(s, f[i])
  BY <1>1 DEF Renamed
<1>4. ASSUME NEW ch \in Open(t), NEW j \in t.chans[ch].held
      PROVE  \E k \in s.chans[ch].held :
                /\ k.n = j.n /\ k.template = j.template /\ k.diff = j.diff /\ k.on = j.on
                /\ k.current = j.current /\ k.custom = j.custom
                /\ ~j.retired => k = j
                /\ j.retired => k = j \/ s.chans[ch].type = "extended"
  BY <1>2 DEF Weaker
<1>5. RowOK(t)
  <2>1. t.row = "none" => Open(t) = {}
    BY DEF Fewer, SessOK, RowOK
  <2>2. t.row = "inserting" =>
           \A ch \in Open(t) : \E k \in DOMAIN t.openings : t.openings[k].ch = ch
    BY DEF Fewer, SessOK, RowOK
  <2>3. \A i \in DOMAIN t.writes : Task(t, i).at # "act2" => t.row = "have"
    BY <1>3 DEF Fewer, SessOK, RowOK
  <2> QED
    BY <2>1, <2>2, <2>3 DEF Fewer, SessOK, RowOK
<1>6. ToldOK(t)
  <2> SUFFICES ASSUME NEW ch \in Open(t) PROVE Told(t, t.chans[ch])
    BY DEF ToldOK
  <2>1. Told(s, s.chans[ch]) /\ t.row = s.row
    BY <1>2 DEF SessOK, ToldOK, Fewer
  <2>2. t.chans[ch].diff = s.chans[ch].diff /\ t.chans[ch].told = s.chans[ch].told
    BY <1>2 DEF Weaker
  <2>3. \A j \in t.chans[ch].held : j.diff \in s.chans[ch].told
    BY <1>4, <2>1 DEF Told
  <2> QED
    BY <2>1, <2>2, <2>3 DEF Told
<1>7. Counted(t)
  <2>1. \A ch \in Open(t) : \A j \in t.chans[ch].held : j.n <= t.made
    BY <1>2, <1>4 DEF SessOK, Counted, Fewer
  <2>2. \A i \in DOMAIN t.writes : Task(t, i).at = "job" => Task(t, i).n <= t.made
    BY <1>3 DEF SessOK, Counted, Fewer
  <2> QED
    BY <2>1, <2>2 DEF SessOK, Counted, Fewer
<1>8. Apart(t)
  <2>1. ASSUME NEW c \in Open(t), NEW d \in Open(t),
               NEW i \in t.chans[c].held, NEW j \in t.chans[d].held, i.n = j.n
        PROVE  c = d
    <3>1. PICK a \in s.chans[c].held, b \in s.chans[d].held : a.n = i.n /\ b.n = j.n
      BY <1>4
    <3> QED
      BY <1>2, <2>1, <3>1 DEF SessOK, Apart
  <2>2. ASSUME NEW i \in DOMAIN t.writes, Unrecorded(t, i)
        PROVE  Unused(t, Task(t, i).n)
    <3>1. Task(t, i) = Task(s, f[i]) /\ f[i] \in DOMAIN s.writes
      BY <1>3
    <3>2. Unrecorded(s, f[i])
      BY <1>2, <2>2, <3>1 DEF Unrecorded, Extended, Weaker
    <3>3. Unused(s, Task(t, i).n)
      BY <3>1, <3>2 DEF SessOK, Apart
    <3>4. \A ch \in Open(t) : \A j \in t.chans[ch].held : j.n # Task(t, i).n
      BY <1>2, <1>4, <3>3 DEF Unused
    <3> QED
      BY <3>3, <3>4 DEF Unused, Fewer
  <2>3. ASSUME NEW i \in DOMAIN t.writes, NEW k \in DOMAIN t.writes,
               Task(t, i).at = "job", Task(t, k).at = "job", i # k
        PROVE  Task(t, i).n # Task(t, k).n
    BY <1>1, <1>3, <2>3 DEF Renamed, SessOK, Apart
  <2> QED
    BY <2>1, <2>2, <2>3 DEF Apart
<1>9. Remembered(t)
  <2> SUFFICES ASSUME NEW share \in t.accepted, NEW ch \in Open(t), NEW j \in t.chans[ch].held,
                      j.n = share.job.n, ~j.retired
               PROVE  t.forgot \/ <<j.n, share.work>> \in t.chans[ch].hashes
    BY DEF Remembered
  <2>1. j \in s.chans[ch].held
    BY <1>4
  <2>2. s.forgot \/ <<j.n, share.work>> \in s.chans[ch].hashes
    BY <1>2, <2>1 DEF SessOK, Remembered, Fewer
  <2> QED
    BY <1>2, <2>2 DEF Weaker, Fewer
<1>10. CurrentOK(t, h)
  <2>1. ASSUME NEW ch \in Open(t) PROVE Current(t, t.chans[ch], h)
    <3>1. Current(s, s.chans[ch], h) /\ t.stream = s.stream /\ t.chans[ch].type = s.chans[ch].type
          /\ t.chans[ch].on = s.chans[ch].on
      BY <1>2 DEF SessOK, CurrentOK, Fewer, Weaker
    <3> SUFFICES ASSUME NEW j \in t.chans[ch].held
                 PROVE  /\ s.chans[ch].type = "extended" /\ j.current /\ ~j.retired /\ ~j.custom
                              => s.stream /\ At(h, j.on)
                        /\ s.chans[ch].type # "extended" => j.on = j.template /\ ~j.retired /\ ~j.custom
                        /\ j.template <= Len(h) /\ j.on <= Len(h)
      BY <3>1 DEF Current
    <3> QED
      BY <1>4, <3>1 DEF Current
  <2>2. \A i \in DOMAIN t.writes :
           Task(t, i).at \in {"job", "active"} => Task(t, i).template <= Len(h)
    BY <1>3 DEF SessOK, CurrentOK
  <2> QED
    BY <2>1, <2>2 DEF SessOK, CurrentOK, Fewer
<1> QED
  BY <1>5, <1>6, <1>7, <1>8, <1>9, <1>10 DEF SessOK

LEMMA KeepsWrites ==
    ASSUME NEW s, NEW t, DOMAIN t.writes = DOMAIN s.writes,
           \A i \in DOMAIN s.writes : Task(t, i) = Task(s, i)
    PROVE  \E f : Renamed(s, t, f)
<1> DEFINE f == [i \in DOMAIN s.writes |-> i]
<1>1. Renamed(s, t, f)
  BY DEF Renamed
<1> QED
  BY <1>1

-----------------------------------------------------------------------------
(* What adds to a session.                                                  *)

(* All that SessOK reads but the channels, the writes and what was accepted. *)
Even(s, t) ==
    /\ t.row = s.row /\ t.openings = s.openings /\ t.stream = s.stream
    /\ t.calls = s.calls
    /\ s.forgot => t.forgot
SameShares(s, t) == t.accepted = s.accepted /\ t.stale = s.stale
SameTasks(s, t) == DOMAIN t.writes = DOMAIN s.writes /\ \A i \in DOMAIN s.writes : Task(t, i) = Task(s, i)

(* A frame that is not a job's.                                             *)
LEMMA WroteOK ==
    ASSUME NEW s \in SessType, NEW t \in SessType, NEW h \in Seq(Nat), NEW task \in TaskType,
           SessOK(s, h), t.row = s.row, t.openings = s.openings, t.stream = s.stream,
           t.calls = s.calls, Jobs(s, t), SameShares(s, t), t.forgot = s.forgot, t.chans = s.chans,
           t.writes = Append(s.writes, [task |-> task, fails |-> FALSE]),
           task.at # "job", task.at # "act2" => s.row = "have",
           task.at = "active" => task.template <= Len(h)
    PROVE  SessOK(t, h)
<1> DEFINE k == Len(s.writes) + 1
<1>1. /\ Task(t, k) = task
      /\ \A i \in DOMAIN s.writes : Task(t, i) = Task(s, i)
      /\ \A i \in DOMAIN t.writes : i \in DOMAIN s.writes \/ i = k
  BY AppendedTask DEF Appended
<1>2. Open(t) = Open(s)
  BY DEF Open
<1> HIDE DEF k
<1>3. RowOK(t)
  BY <1>1, <1>2 DEF RowOK, SessOK
<1>4. ToldOK(t)
  BY <1>2 DEF ToldOK, SessOK, Told
<1>5. Counted(t)
  BY <1>1, <1>2 DEF Counted, SessOK, Jobs, SameShares
<1>6. Apart(t)
  <2>1. ASSUME NEW i \in DOMAIN t.writes, Unrecorded(t, i)
        PROVE  Unused(t, Task(t, i).n)
    <3>1. i \in DOMAIN s.writes /\ Unrecorded(s, i) /\ Task(t, i) = Task(s, i)
      BY <1>1, <1>2, <2>1 DEF Unrecorded, Extended
    <3> QED
      BY <1>2, <3>1 DEF SessOK, Apart, Unused, SameShares
  <2>2. ASSUME NEW i \in DOMAIN t.writes, NEW j \in DOMAIN t.writes,
               Task(t, i).at = "job", Task(t, j).at = "job", i # j
        PROVE  Task(t, i).n # Task(t, j).n
    BY <1>1, <2>2 DEF SessOK, Apart
  <2> QED
    BY <1>2, <2>1, <2>2 DEF SessOK, Apart
<1>7. Remembered(t)
  BY <1>2 DEF SessOK, Remembered, SameShares
<1>8. CurrentOK(t, h)
  BY <1>1, <1>2 DEF SessOK, CurrentOK, Current, SameShares
<1> QED
  BY <1>3, <1>4, <1>5, <1>6, <1>7, <1>8 DEF SessOK

(* A channel is told a difficulty.                                          *)
Retold(a, b) ==
    /\ b.type = a.type /\ b.held = a.held /\ b.hashes = a.hashes /\ b.on = a.on
    /\ a.told \subseteq b.told /\ b.diff \in b.told

LEMMA RetoldOK ==
    ASSUME NEW s \in SessType, NEW t \in SessType, NEW h \in Seq(Nat),
           SessOK(s, h), t.row = "have", t.openings = << >>, t.stream = s.stream,
           Jobs(s, t), SameShares(s, t), t.forgot = s.forgot, SameTasks(s, t), Open(t) = Open(s),
           \A ch \in Open(s) : Retold(s.chans[ch], t.chans[ch])
    PROVE  SessOK(t, h)
<1>1. RowOK(t)
  BY DEF RowOK, SessOK
<1>2. ToldOK(t)
  BY DEF ToldOK, SessOK, Told, Retold
<1>3. Counted(t)
  BY DEF Counted, SessOK, Jobs, SameShares, SameTasks, Retold
<1>4. Apart(t)
  <2>1. \A c, d \in Open(t) : \A i \in t.chans[c].held, j \in t.chans[d].held : i.n = j.n => c = d
    BY DEF Retold, SessOK, Apart
  <2>2. ASSUME NEW i \in DOMAIN t.writes, Unrecorded(t, i)
        PROVE  Unused(t, Task(t, i).n)
    <3>1. i \in DOMAIN s.writes /\ Unrecorded(s, i) /\ Task(t, i) = Task(s, i)
      BY <2>2 DEF Unrecorded, Extended, SameTasks, Retold
    <3> QED
      BY <3>1 DEF SessOK, Apart, Unused, SameShares, Retold
  <2> QED
    BY <2>1, <2>2 DEF SessOK, Apart, SameTasks
<1>5. Remembered(t)
  BY DEF SessOK, Remembered, SameShares, Retold
<1>6. CurrentOK(t, h)
  BY DEF SessOK, CurrentOK, Current, SameShares, Retold, SameTasks
<1> QED
  BY <1>1, <1>2, <1>3, <1>4, <1>5, <1>6 DEF SessOK

(* A channel is opened.                                                     *)
LEMMA OpenedOK ==
    ASSUME NEW s \in SessType, NEW t \in SessType, NEW h \in Seq(Nat), NEW ch \in Nat \ Open(s),
           SessOK(s, h), t.stream = s.stream,
           Jobs(s, t), SameShares(s, t), t.forgot = s.forgot, SameTasks(s, t), t.calls = s.calls,
           Open(t) = Open(s) \cup {ch},
           \A d \in Open(s) : t.chans[d] = s.chans[d],
           t.chans[ch].held = {}, t.chans[ch].on = 0, t.chans[ch].type \in {"standard", "extended"},
           \/ /\ s.row = "have" /\ t.row = "have" /\ t.openings = s.openings
              /\ t.chans[ch].diff \in t.chans[ch].told
           \/ /\ s.row = "failed" /\ t.row = "failed" /\ t.openings = s.openings
              /\ t.chans[ch].told = {}
           \/ /\ s.row \in {"none", "inserting"} /\ t.row = "inserting"
              /\ t.chans[ch].told = {}
              /\ \E first \in BOOLEAN : t.openings = Append(s.openings, [ch |-> ch, first |-> first]),
           \A i \in DOMAIN s.writes : Task(s, i).at = "job" => Task(s, i).ch # ch
    PROVE  SessOK(t, h)
<1>1. ASSUME s.row \in {"none", "inserting"}, t.row = "inserting",
             NEW first \in BOOLEAN, t.openings = Append(s.openings, [ch |-> ch, first |-> first])
      PROVE  \A d \in Open(t) : \E k \in DOMAIN t.openings : t.openings[k].ch = d
  <2>1. [ch |-> ch, first |-> first] \in OpeningType /\ s.openings \in Seq(OpeningType)
    BY DEF OpeningType, SessType
  <2>2. /\ DOMAIN s.openings = 1..Len(s.openings) /\ Len(s.openings) \in Nat
        /\ DOMAIN t.openings = 1 .. Len(s.openings) + 1
        /\ \A j \in DOMAIN s.openings : t.openings[j] = s.openings[j]
        /\ t.openings[Len(s.openings) + 1] = [ch |-> ch, first |-> first]
    BY <1>1, <2>1, AfterAppend
  <2>3. \A d \in Open(s) : \E k \in DOMAIN s.openings : s.openings[k].ch = d
    BY <1>1 DEF SessOK, RowOK
  <2>4. ASSUME NEW d \in Open(s) PROVE \E k \in DOMAIN t.openings : t.openings[k].ch = d
    BY <2>2, <2>3
  <2>5. Len(s.openings) + 1 \in DOMAIN t.openings /\ t.openings[Len(s.openings) + 1].ch = ch
    BY <2>2
  <2> QED
    BY <2>4, <2>5
<1>2. RowOK(t)
  <2>1. RowOK(s)
    BY DEF SessOK
  <2>2. CASE t.row = "have"
    BY <2>1, <2>2 DEF RowOK
  <2>3. CASE t.row = "failed"
    BY <2>1, <2>3 DEF RowOK, SameTasks
  <2>4. CASE t.row = "inserting"
    <3>1. \A d \in Open(t) : \E k \in DOMAIN t.openings : t.openings[k].ch = d
      BY <1>1, <2>4
    <3> QED
      BY <2>1, <2>4, <3>1 DEF RowOK, SameTasks
  <2> QED
    BY <2>2, <2>3, <2>4
<1>3. ToldOK(t)
  BY DEF ToldOK, SessOK, Told
<1>4. Counted(t)
  BY DEF Counted, SessOK, Jobs, SameShares, SameTasks
<1>5. Apart(t)
  <2>1. \A c, d \in Open(t) : \A i \in t.chans[c].held, j \in t.chans[d].held : i.n = j.n => c = d
    BY DEF SessOK, Apart
  <2>2. ASSUME NEW i \in DOMAIN t.writes, Unrecorded(t, i)
        PROVE  Unused(t, Task(t, i).n)
    <3>1. i \in DOMAIN s.writes /\ Unrecorded(s, i) /\ Task(t, i) = Task(s, i)
      BY <2>2 DEF Unrecorded, Extended, SameTasks
    <3> QED
      BY <3>1 DEF SessOK, Apart, Unused, SameShares
  <2> QED
    BY <2>1, <2>2 DEF SessOK, Apart, SameTasks
<1>6. Remembered(t)
  BY DEF SessOK, Remembered, SameShares
<1>7. CurrentOK(t, h)
  BY DEF SessOK, CurrentOK, Current, SameShares, SameTasks
<1> QED
  BY <1>2, <1>3, <1>4, <1>5, <1>6, <1>7 DEF SessOK

LEMMA HeldTyped ==
    ASSUME NEW s \in SessType
    PROVE  \A ch \in Open(s) : \A j \in s.chans[ch].held :
              /\ j \in JobType /\ j.n \in Nat /\ j.template \in Nat /\ j.on \in Nat
<1> SUFFICES ASSUME NEW ch \in Open(s), NEW j \in s.chans[ch].held
             PROVE  /\ j \in JobType /\ j.n \in Nat /\ j.template \in Nat /\ j.on \in Nat
  OBVIOUS
<1>1. s.chans[ch].held \in SUBSET JobType
  BY ChansOf DEF ChanType
<1>2. j \in JobType
  BY <1>1
<1> QED
  BY <1>2, StratumV2SessionAssumption DEF JobType

(* A job is recorded.                                                       *)
LEMMA HeldOK ==
    ASSUME NEW s \in SessType, NEW t \in SessType, NEW h \in Seq(Nat), NEW ch \in Open(s),
           NEW job \in JobType,
           SessOK(s, h), t.row = s.row, t.openings = s.openings, t.stream = s.stream,
           t.calls = s.calls, SameShares(s, t), t.forgot = s.forgot, SameTasks(s, t),
           Open(t) = Open(s), \A d \in Open(s) : d # ch => t.chans[d] = s.chans[d],
           t.chans[ch].type = "extended", s.chans[ch].type = "extended",
           t.chans[ch].diff = s.chans[ch].diff, t.chans[ch].told = s.chans[ch].told,
           t.chans[ch].hashes = s.chans[ch].hashes,
           t.chans[ch].held = s.chans[ch].held \cup {job},
           s.row = "have", job.diff = s.chans[ch].diff,
           s.made <= t.made, job.n <= t.made, Unused(s, job.n),
           \A i \in DOMAIN s.writes : Task(s, i).at = "job" => Task(s, i).n # job.n,
           job.current /\ ~job.custom => s.stream /\ At(h, job.on),
           job.template <= Len(h), job.on <= Len(h), t.chans[ch].on <= Len(h)
    PROVE  SessOK(t, h)
<1>1. \A d \in Open(s) : /\ t.chans[d].type = s.chans[d].type /\ t.chans[d].diff = s.chans[d].diff
                         /\ t.chans[d].told = s.chans[d].told
                         /\ t.chans[d].hashes = s.chans[d].hashes
                         /\ \A j \in t.chans[d].held : j \in s.chans[d].held \/ (d = ch /\ j = job)
  OBVIOUS
<1>2. RowOK(t)
  BY DEF RowOK, SessOK, SameTasks
<1>3. ToldOK(t)
  <2> SUFFICES ASSUME NEW d \in Open(s) PROVE Told(t, t.chans[d])
    BY DEF ToldOK
  <2>1. Told(s, s.chans[d])
    BY DEF SessOK, ToldOK
  <2> QED
    BY <1>1, <2>1 DEF Told
<1>4. Counted(t)
  <2>1. \A d \in Open(s) : \A j \in s.chans[d].held : j.n \in Nat /\ j.n <= s.made
    BY HeldTyped DEF SessOK, Counted
  <2>2. s.made \in Nat /\ t.made \in Nat
    BY DEF SessType
  <2>3. \A d \in Open(t) : \A j \in t.chans[d].held : j.n <= t.made
    BY <1>1, <2>1, <2>2
  <2>4. \A share \in s.accepted : share.job.n \in Nat /\ share.job.n <= s.made
    BY DEF SessType, ShareType, JobType, SessOK, Counted
  <2>5. \A i \in DOMAIN s.writes : Task(s, i).at = "job" => Task(s, i).n \in Nat /\ Task(s, i).n <= s.made
    <3>1. ASSUME NEW i \in DOMAIN s.writes, Task(s, i).at = "job" PROVE Task(s, i).n \in Nat
      BY <3>1, WritesTyped DEF TaskType, JobTask, Act2Task, OpenedTask, TargetTask, ReplyTask
    <3> QED
      BY <3>1 DEF SessOK, Counted
  <2>6. \A share \in t.accepted : share.job.n <= t.made
    BY <2>2, <2>4 DEF SameShares
  <2>7. \A i \in DOMAIN t.writes : Task(t, i).at = "job" => Task(t, i).n <= t.made
    BY <2>2, <2>5 DEF SameTasks
  <2> QED
    BY <2>3, <2>6, <2>7 DEF Counted
<1>5. Apart(t)
  <2>1. ASSUME NEW c \in Open(s), NEW d \in Open(s),
               NEW i \in t.chans[c].held, NEW j \in t.chans[d].held, i.n = j.n
        PROVE  c = d
    <3>1. CASE i \in s.chans[c].held /\ j \in s.chans[d].held
      BY <2>1, <3>1 DEF SessOK, Apart
    <3>2. CASE i \notin s.chans[c].held
      BY <1>1, <2>1, <3>2 DEF Unused
    <3>3. CASE j \notin s.chans[d].held
      BY <1>1, <2>1, <3>3 DEF Unused
    <3> QED
      BY <3>1, <3>2, <3>3
  <2>2. ASSUME NEW i \in DOMAIN t.writes, Unrecorded(t, i)
        PROVE  Unused(t, Task(t, i).n)
    <3>1. i \in DOMAIN s.writes /\ Unrecorded(s, i) /\ Task(t, i) = Task(s, i)
          /\ Task(s, i).n # job.n
      BY <1>1, <2>2 DEF Unrecorded, Extended, SameTasks
    <3>2. Unused(s, Task(s, i).n)
      BY <3>1 DEF SessOK, Apart
    <3> QED
      BY <1>1, <3>1, <3>2 DEF Unused, SameShares
  <2> QED
    BY <2>1, <2>2 DEF SessOK, Apart, SameTasks
<1>6. Remembered(t)
  <2> SUFFICES ASSUME NEW share \in s.accepted, NEW d \in Open(s), NEW j \in t.chans[d].held,
                      j.n = share.job.n, ~j.retired
               PROVE  s.forgot \/ <<j.n, share.work>> \in s.chans[d].hashes
    BY <1>1 DEF Remembered, SameShares
  <2>1. j \in s.chans[d].held
    BY <1>1 DEF Unused
  <2> QED
    BY <2>1 DEF SessOK, Remembered
<1>7. CurrentOK(t, h)
  <2>1. ASSUME NEW d \in Open(s) PROVE Current(t, t.chans[d], h)
    <3>1. Current(s, s.chans[d], h)
      BY DEF SessOK, CurrentOK
    <3> QED
      BY <1>1, <3>1 DEF Current
  <2> QED
    BY <2>1 DEF SessOK, CurrentOK, SameShares, SameTasks
<1> QED
  BY <1>2, <1>3, <1>4, <1>5, <1>6, <1>7 DEF SessOK

(* A submission is accepted, that was not remembered before and is now.     *)
LEMMA AcceptedOK ==
    ASSUME NEW s \in SessType, NEW t \in SessType, NEW h \in Seq(Nat), NEW ch \in Open(s),
           NEW job \in s.chans[ch].held, NEW share \in ShareType, share.job = job,
           SessOK(s, h), Even(s, t), SameTasks(s, t), Jobs(s, t),
           Open(t) = Open(s), \A d \in Open(s) : d # ch => t.chans[d] = s.chans[d],
           t.chans[ch].type = s.chans[ch].type, t.chans[ch].held = s.chans[ch].held,
           t.chans[ch].diff = s.chans[ch].diff, t.chans[ch].told = s.chans[ch].told,
           t.chans[ch].on = s.chans[ch].on,
           t.forgot \/ t.chans[ch].hashes = s.chans[ch].hashes \cup {<<job.n, share.work>>},
           t.accepted = s.accepted \cup {share},
           t.stale \subseteq s.stale \cup {share},
           share \in t.stale => share \in s.stale \/ share.job.custom \/ ~share.job.current
    PROVE  SessOK(t, h)
<1>1. \A d \in Open(s) : /\ t.chans[d].type = s.chans[d].type /\ t.chans[d].diff = s.chans[d].diff
                         /\ t.chans[d].told = s.chans[d].told
                         /\ t.chans[d].held = s.chans[d].held /\ t.chans[d].on = s.chans[d].on
                         /\ t.forgot \/ s.chans[d].hashes \subseteq t.chans[d].hashes
  OBVIOUS
<1>2. RowOK(t)
  <2>1. /\ t.row = s.row /\ t.openings = s.openings /\ t.stream = s.stream /\ t.calls = s.calls
    BY DEF Even
  <2> QED
    BY <2>1 DEF RowOK, SessOK, SameTasks
<1>3. ToldOK(t)
  <2> SUFFICES ASSUME NEW d \in Open(s) PROVE Told(t, t.chans[d])
    BY DEF ToldOK
  <2>1. Told(s, s.chans[d])
    BY DEF SessOK, ToldOK
  <2> QED
    BY <1>1, <2>1 DEF Told, Even
<1>4. Counted(t)
  <2>1. job.n <= s.made
    BY DEF SessOK, Counted
  <2> QED
    BY <1>1, <2>1 DEF SessOK, Counted, Jobs, SameTasks
<1>5. Apart(t)
  <2>1. \A c, d \in Open(t) : \A i \in t.chans[c].held, j \in t.chans[d].held : i.n = j.n => c = d
    BY <1>1 DEF SessOK, Apart
  <2>2. ASSUME NEW i \in DOMAIN t.writes, Unrecorded(t, i)
        PROVE  Unused(t, Task(t, i).n)
    <3>1. i \in DOMAIN s.writes /\ Unrecorded(s, i) /\ Task(t, i) = Task(s, i)
      BY <1>1, <2>2 DEF Unrecorded, Extended, SameTasks
    <3>2. Unused(s, Task(s, i).n)
      BY <3>1 DEF SessOK, Apart
    <3>3. job.n # Task(s, i).n
      BY <3>2 DEF Unused
    <3> QED
      BY <1>1, <3>1, <3>2, <3>3 DEF Unused
  <2> QED
    BY <2>1, <2>2 DEF SessOK, Apart, SameTasks
<1>6. Remembered(t)
  <2> SUFFICES ASSUME NEW x \in t.accepted, NEW d \in Open(s), NEW j \in s.chans[d].held,
                      j.n = x.job.n, ~j.retired
               PROVE  t.forgot \/ <<j.n, x.work>> \in t.chans[d].hashes
    BY <1>1 DEF Remembered
  <2>1. CASE x = share
    <3>1. d = ch
      BY <2>1 DEF SessOK, Apart
    <3> QED
      BY <2>1, <3>1
  <2>2. CASE x \in s.accepted
    <3>1. s.forgot \/ <<j.n, x.work>> \in s.chans[d].hashes
      BY <2>2 DEF SessOK, Remembered
    <3>2. s.forgot => t.forgot
      BY DEF Even
    <3> QED
      BY <1>1, <3>1, <3>2
  <2> QED
    BY <2>1, <2>2
<1>7. CurrentOK(t, h)
  <2>1. ASSUME NEW d \in Open(s) PROVE Current(t, t.chans[d], h)
    <3>1. Current(s, s.chans[d], h)
      BY DEF SessOK, CurrentOK
    <3> QED
      BY <1>1, <3>1 DEF Current, Even
  <2>2. job.template <= Len(h) /\ job.on <= Len(h)
    BY DEF SessOK, CurrentOK, Current
  <2> QED
    BY <2>1, <2>2 DEF SessOK, CurrentOK, SameTasks
<1> QED
  BY <1>2, <1>3, <1>4, <1>5, <1>6, <1>7 DEF SessOK

(* The chain grows by a template, of a new block or not.                    *)
LEMMA GrownHeights ==
    ASSUME NEW h \in Seq(Nat), NEW x \in Nat, h # << >>
    PROVE  LET g == Append(h, x)
           IN  /\ g \in Seq(Nat) /\ Len(g) = Len(h) + 1 /\ Len(h) \in Nat \ {0}
               /\ \A t \in 1..Len(h) : g[t] = h[t]
               /\ g[Len(g)] = x
               /\ x = h[Len(h)] => \A t \in 0..Len(h) : At(g, t) <=> At(h, t)
<1>1. /\ Append(h, x) \in Seq(Nat) /\ DOMAIN h = 1..Len(h) /\ Len(h) \in Nat
      /\ Len(Append(h, x)) = Len(h) + 1
      /\ \A j \in DOMAIN h : Append(h, x)[j] = h[j]
      /\ Append(h, x)[Len(h) + 1] = x
  BY AfterAppend
<1>2. Len(h) # 0
  BY EmptySeq
<1> QED
  BY <1>1, <1>2 DEF At

LEMMA ChainOK ==
    ASSUME NEW s \in SessType, NEW h \in Seq(Nat), NEW x \in Nat, h # << >>,
           SessOK(s, h),
           x = h[Len(h)] \/ \A ch \in Open(s) : \A j \in s.chans[ch].held :
              s.chans[ch].type = "extended" /\ j.current /\ ~j.retired /\ ~j.custom => FALSE
    PROVE  SessOK(s, Append(h, x))
<1>1. PICK g \in Seq(Nat) : g = Append(h, x)
  BY GrownHeights
<1>2. /\ Len(g) = Len(h) + 1 /\ Len(h) \in Nat \ {0} /\ \A t \in 1..Len(h) : g[t] = h[t]
      /\ x = h[Len(h)] => \A t \in 0..Len(h) : At(g, t) <=> At(h, t)
  BY <1>1, GrownHeights
<1>3. ASSUME NEW ch \in Open(s) PROVE Current(s, s.chans[ch], g)
  <2>1. Current(s, s.chans[ch], h)
    BY DEF SessOK, CurrentOK
  <2> SUFFICES ASSUME NEW j \in s.chans[ch].held
               PROVE  /\ s.chans[ch].type = "extended" /\ j.current /\ ~j.retired /\ ~j.custom
                            => At(g, j.on)
                      /\ j.template <= Len(g) /\ j.on <= Len(g)
    <3>1. s.chans[ch].on \in Nat
      BY ChansOf, StratumV2SessionAssumption DEF ChanType
    <3> QED
      BY <1>2, <2>1, <3>1 DEF Current
  <2>2. j \in JobType /\ j.template \in Nat /\ j.on \in Nat
    BY HeldTyped
  <2>3. j.template <= Len(g) /\ j.on <= Len(g)
    BY <1>2, <2>1, <2>2 DEF Current
  <2>4. ASSUME s.chans[ch].type = "extended", j.current, ~j.retired, ~j.custom
        PROVE  At(g, j.on)
    <3>1. At(h, j.on) /\ x = h[Len(h)] /\ j.on \in 0..Len(h)
      BY <1>2, <2>1, <2>2, <2>4 DEF Current
    <3> QED
      BY <1>2, <2>2, <3>1 DEF At
  <2> QED
    BY <2>3, <2>4
<1>4. ASSUME NEW share \in s.accepted PROVE share.job.template <= Len(g)
  <2>1. share.job.template \in Nat
    BY DEF SessType, ShareType, JobType
  <2> QED
    BY <1>2, <2>1 DEF SessOK, CurrentOK
<1>5. ASSUME NEW i \in DOMAIN s.writes, Task(s, i).at \in {"job", "active"}
      PROVE  Task(s, i).template <= Len(g)
  <2>1. Task(s, i).template \in Nat
    BY <1>5, WritesTyped DEF TaskType, JobTask, Act2Task, OpenedTask, TargetTask, ReplyTask
  <2> QED
    BY <1>2, <1>5, <2>1 DEF SessOK, CurrentOK
<1>6. CurrentOK(s, g)
  BY <1>3, <1>4, <1>5 DEF SessOK, CurrentOK
<1> QED
  BY <1>1, <1>6 DEF SessOK

-----------------------------------------------------------------------------
(* The loops over the channels.                                             *)

(* The channels were opened with numbers below m, also those that handlers  *)
(* and frames are about.                                                     *)
Known(s, m) ==
    /\ Open(s) \subseteq 1 .. m - 1
    /\ \A i \in DOMAIN s.writes : Task(s, i).at \in {"opened", "job"} => Task(s, i).ch < m
    /\ \A k \in DOMAIN s.openings : s.openings[k].ch < m

SameReplies(s, t) ==
    /\ \A i \in DOMAIN s.writes : Task(s, i).at = "replied" =>
          i \in DOMAIN t.writes /\ Task(t, i) = Task(s, i)
    /\ \A i \in DOMAIN t.writes : Task(t, i).at = "replied" =>
          i \in DOMAIN s.writes /\ Task(t, i) = Task(s, i)

(* The channels stay, other frames than replies may wait.                   *)
Grown(s, t) ==
    /\ Rest(s, t)
    /\ Open(t) = Open(s)
    /\ \A ch \in Open(s) : t.chans[ch].type = s.chans[ch].type
    /\ SameReplies(s, t)
    /\ t.stream => s.stream \/ ~s.workSelection

LEMMA GrownTwice ==
    ASSUME NEW s \in SessType, NEW t \in SessType, NEW u \in SessType, Grown(s, t), Grown(t, u)
    PROVE  Grown(s, u)
<1>1. Rest(s, u)
  BY DEF Grown, Rest
<1>2. /\ Open(u) = Open(s) /\ \A ch \in Open(s) : u.chans[ch].type = s.chans[ch].type
  BY DEF Grown
<1>3. SameReplies(s, u)
  BY DEF Grown, SameReplies
<1>4. u.stream => s.stream \/ ~s.workSelection
  BY DEF Grown, Rest
<1> QED
  BY <1>1, <1>2, <1>3, <1>4 DEF Grown

LEMMA GrownByOne ==
    ASSUME NEW s \in SessType, NEW t \in SessType, NEW task \in TaskType,
           Rest(s, t), t.stream = s.stream, Open(t) = Open(s),
           \A ch \in Open(s) : t.chans[ch].type = s.chans[ch].type,
           t.writes = Append(s.writes, [task |-> task, fails |-> FALSE]), task.at # "replied"
    PROVE  /\ Grown(s, t)
           /\ \A m \in Nat : Known(s, m) /\ (task.at \in {"opened", "job"} => task.ch < m)
                              => Known(t, m)
<1> DEFINE k == Len(s.writes) + 1
<1>1. /\ Task(t, k) = task
      /\ \A i \in DOMAIN s.writes : i \in DOMAIN t.writes /\ Task(t, i) = Task(s, i)
      /\ \A i \in DOMAIN t.writes : i \in DOMAIN s.writes \/ i = k
  BY AppendedTask DEF Appended
<1> HIDE DEF k
<1>2. SameReplies(s, t)
  BY <1>1 DEF SameReplies
<1>3. t.openings = s.openings
  BY DEF Rest
<1> QED
  BY <1>1, <1>2, <1>3 DEF Grown, Known

Chain(h) == h \in Seq(Nat) /\ Len(h) \in 1..MaxTemplates

LEMMA SendJobGrown ==
    ASSUME NEW s \in SessType, NEW ch \in Nat, NEW template \in 1..MaxTemplates,
           NEW prev \in BOOLEAN, NEW then \in ThenType, NEW h \in Seq(Nat),
           SessOK(s, h), s.row = "have", template <= Len(h)
    PROVE  LET t == SendJob(s, ch, template, prev, then)
           IN  /\ t \in SessType /\ SessOK(t, h) /\ Grown(s, t)
               /\ \A m \in Nat : Known(s, m) /\ ch < m => Known(t, m)
<1> DEFINE task == JobSent(ch, s.made + 1, template, prev, then)
<1>1. PICK t : t = SendJob(s, ch, template, prev, then)
  OBVIOUS
<1>2. SessOK(t, h)
  BY <1>1, SendJobOK
<1>3. /\ t \in SessType /\ Rest(s, t) /\ Flags(s, t)
      /\ Open(t) = Open(s) /\ task \in JobTask
      /\ t.writes = Append(s.writes, [task |-> task, fails |-> FALSE])
      /\ \A d \in Open(s) : d # ch => t.chans[d] = s.chans[d]
      /\ ch \in Open(s) => SentOn(s.chans[ch], t.chans[ch], s.made + 1, template, prev)
  BY <1>1, SendJobEffect
<1>4. task.at = "job" /\ task.ch = ch /\ task \in TaskType
  BY <1>3 DEF JobSent, TaskType
<1> HIDE DEF task
<1>5. t.stream = s.stream /\ \A d \in Open(s) : t.chans[d].type = s.chans[d].type
  BY <1>3 DEF Flags, SentOn
<1>6. /\ Grown(s, t)
      /\ \A m \in Nat : Known(s, m) /\ (task.at \in {"opened", "job"} => task.ch < m)
                         => Known(t, m)
  BY <1>3, <1>4, <1>5, GrownByOne
<1> QED
  BY <1>1, <1>2, <1>3, <1>4, <1>6

LEMMA SendFromOK ==
    ASSUME NEW s \in SessType, NEW ch \in Nat, NEW template \in 1..MaxTemplates,
           NEW prev \in BOOLEAN, NEW kind \in {"fan", "retarget"}, NEW h \in Seq(Nat),
           SessOK(s, h), s.row = "have", template <= Len(h)
    PROVE  LET t == SendFrom(s, ch, template, prev, kind)
           IN  /\ t \in SessType /\ SessOK(t, h) /\ Grown(s, t)
               /\ \A m \in Nat : Known(s, m) => Known(t, m)
<1>1. CASE Following(s, ch) = {}
  <2>1. SendFrom(s, ch, template, prev, kind) = s
    BY <1>1 DEF SendFrom
  <2>2. Grown(s, s)
    BY DEF Grown, Rest, SameReplies
  <2> QED
    BY <2>1, <2>2
<1>2. CASE Following(s, ch) # {}
  <2>1. Following(s, ch) \in SUBSET Nat /\ Following(s, ch) \subseteq Open(s)
    BY ChansOf DEF Following
  <2>2. PICK next \in Open(s) : next = Min(Following(s, ch)) /\ next \in Nat
    BY <1>2, <2>1, LeastOf
  <2>3. PICK then \in ThenType : then = [kind |-> kind, after |-> next]
    BY <2>2 DEF ThenType
  <2>4. SendFrom(s, ch, template, prev, kind) = SendJob(s, next, template, prev, then)
    BY <1>2, <2>2, <2>3 DEF SendFrom
  <2>5. LET t == SendJob(s, next, template, prev, then)
        IN  /\ t \in SessType /\ SessOK(t, h) /\ Grown(s, t)
            /\ \A m \in Nat : Known(s, m) /\ next < m => Known(t, m)
    BY <2>2, SendJobGrown
  <2>6. \A m \in Nat : Known(s, m) => next < m
    BY <2>2 DEF Known
  <2> QED
    BY <2>4, <2>5, <2>6
<1> QED
  BY <1>1, <1>2

LEMMA NewBlockEffect ==
    ASSUME NEW a \in ChanType
    PROVE  LET b == NewBlock(a)
           IN  /\ b \in ChanType /\ b.type = a.type
               /\ \A j \in b.held : j.retired
               /\ \A forgot \in BOOLEAN : Weaker(a, b, forgot)
<1>1. \A j \in JobType : LET k == [j EXCEPT !.retired = TRUE]
                         IN  /\ k \in JobType /\ k.retired
                             /\ k.n = j.n /\ k.template = j.template /\ k.diff = j.diff
                             /\ k.on = j.on /\ k.current = j.current /\ k.custom = j.custom
  BY ZenonT(60) DEF JobType
<1>2. PICK held : held = IF a.type = "extended"
                         THEN {[j EXCEPT !.retired = TRUE] : j \in a.held} ELSE {}
  OBVIOUS
<1>3. a.held \in SUBSET JobType
  BY DEF ChanType
<1>4. held \in SUBSET JobType /\ \A j \in held : j.retired
  BY <1>1, <1>2, <1>3
<1>5. ASSUME NEW j \in held
      PROVE  /\ a.type = "extended"
             /\ \E k \in a.held : /\ k.n = j.n /\ k.template = j.template /\ k.diff = j.diff
                                  /\ k.on = j.on /\ k.current = j.current /\ k.custom = j.custom
  <2>1. a.type = "extended"
    BY <1>2
  <2>2. PICK k \in a.held : j = [k EXCEPT !.retired = TRUE]
    BY <1>2, <2>1
  <2>3. k \in JobType
    BY <1>3
  <2> QED
    BY <1>1, <2>1, <2>2, <2>3
<1>6. NewBlock(a) = [a EXCEPT !.held = held, !.hashes = {}]
  BY <1>2 DEF NewBlock
<1>7. PICK b : b = NewBlock(a)
  OBVIOUS
<1>8. /\ b \in ChanType /\ b.type = a.type /\ b.diff = a.diff /\ b.told = a.told /\ b.on = a.on
      /\ b.held = held /\ b.hashes = {}
  <2>1. b = [a EXCEPT !.held = held, !.hashes = {}]
    BY <1>6, <1>7
  <2>2. held \in SUBSET JobType
    BY <1>4
  <2> QED
    BY ONLY a \in ChanType, <2>1, <2>2, ZenonT(60) DEF ChanType
<1>9. \A forgot \in BOOLEAN : Weaker(a, b, forgot)
  BY <1>4, <1>5, <1>8 DEF Weaker
<1> QED
  BY <1>4, <1>7, <1>8, <1>9

(* What waits is the same. *)
LEMMA SameWrites ==
    ASSUME NEW s, NEW t, t.writes = s.writes
    PROVE  SameTasks(s, t) /\ SameReplies(s, t) /\ \E f : Renamed(s, t, f)
<1>1. SameTasks(s, t) /\ SameReplies(s, t)
  BY DEF SameTasks, SameReplies, Task
<1> QED
  BY <1>1, KeepsWrites DEF SameTasks

(* The channels at a new block. *)
Retired(s) ==
    [s EXCEPT !.chans = [ch \in Open(s) |-> NewBlock(s.chans[ch])], !.missed = FALSE]

LEMMA RetiredOK ==
    ASSUME NEW s \in SessType, NEW h \in Seq(Nat), SessOK(s, h)
    PROVE  LET t == Retired(s)
           IN  /\ t \in SessType /\ SessOK(t, h) /\ Grown(s, t)
               /\ \A ch \in Open(t) : \A j \in t.chans[ch].held : j.retired
               /\ \A m \in Nat : Known(s, m) => Known(t, m)
<1>1. PICK chans : chans = [ch \in Open(s) |-> NewBlock(s.chans[ch])]
  OBVIOUS
<1>2. DOMAIN chans = Open(s) /\ \A ch \in Open(s) : chans[ch] = NewBlock(s.chans[ch])
  BY <1>1
<1>3. chans \in [Open(s) -> ChanType] /\ Open(s) \in SUBSET Nat
  BY <1>1, ChansOf, NewBlockEffect
<1>4. chans \in ChansType
  BY <1>3, IsChans
<1>5. PICK t : t = [s EXCEPT !.chans = chans, !.missed = FALSE]
  OBVIOUS
<1>6. /\ t \in SessType /\ Rest(s, t) /\ t.stream = s.stream /\ Jobs(s, t)
      /\ t.chans = chans /\ t.writes = s.writes
  BY ONLY s \in SessType, chans \in ChansType, <1>4, <1>5, ZenonT(60)
     DEF SessType, Rest, Jobs
<1>7. t = Retired(s)
  BY <1>1, <1>5 DEF Retired
<1>8. /\ Open(t) = Open(s)
      /\ \A ch \in Open(s) : /\ t.chans[ch].type = s.chans[ch].type
                             /\ \A j \in t.chans[ch].held : j.retired
                             /\ Weaker(s.chans[ch], t.chans[ch], t.forgot)
  <2>1. Open(t) = Open(s) /\ t.forgot \in BOOLEAN
    BY <1>2, <1>6 DEF Open, SessType
  <2> QED
    BY <1>2, <1>6, <2>1, ChansOf, NewBlockEffect
<1>9. SameTasks(s, t) /\ SameReplies(s, t) /\ \E f : Renamed(s, t, f)
  BY <1>6, SameWrites
<1>10. Fewer(s, t)
  BY <1>6, <1>8, <1>9 DEF Fewer, Rest, Jobs, SessOK, RowOK
<1>11. SessOK(t, h)
  BY <1>6, <1>10, FewerOK
<1>12. Grown(s, t)
  BY <1>6, <1>8, <1>9 DEF Grown
<1>13. \A m \in Nat : Known(s, m) => Known(t, m)
  BY <1>6, <1>8, <1>9 DEF Known, SameTasks, Rest
<1> QED
  BY <1>6, <1>7, <1>8, <1>11, <1>12, <1>13

(* The subscriber, of a template that was the last or is now.               *)
LEMMA OnTemplateOK ==
    ASSUME NEW s \in SessType, NEW h \in Seq(Nat), NEW g \in Seq(Nat),
           NEW template \in 1..MaxTemplates, NEW clear \in BOOLEAN, NEW x \in Nat,
           h # << >>, SessOK(s, h), s.row = "have", template <= Len(g),
           \/ g = h
           \/ g = Append(h, x) /\ (x = h[Len(h)] \/ clear)
    PROVE  LET t == OnTemplate(s, template, clear)
           IN  /\ t \in SessType /\ SessOK(t, g) /\ Grown(s, t)
               /\ \A m \in Nat : Known(s, m) => Known(t, m)
<1>1. PICK r : r = IF clear THEN Retired(s) ELSE s
  OBVIOUS
<1>2. /\ r \in SessType /\ SessOK(r, h) /\ Grown(s, r)
      /\ \A m \in Nat : Known(s, m) => Known(r, m)
      /\ clear => \A ch \in Open(r) : \A j \in r.chans[ch].held : j.retired
  <2>1. Grown(s, s)
    BY DEF Grown, Rest, SameReplies
  <2> QED
    BY <1>1, <2>1, RetiredOK
<1>3. SessOK(r, g)
  <2>1. CASE g = h
    BY <1>2, <2>1
  <2>2. CASE g = Append(h, x) /\ (x = h[Len(h)] \/ clear)
    BY <1>2, <2>2, ChainOK
  <2> QED
    BY <2>1, <2>2
<1>4. r.row = "have"
  BY <1>2 DEF Grown, Rest
<1>5. OnTemplate(s, template, clear) = SendFrom(r, 0, template, clear, "fan")
  BY <1>1 DEF OnTemplate, Retired
<1>6. LET t == SendFrom(r, 0, template, clear, "fan")
      IN  /\ t \in SessType /\ SessOK(t, g) /\ Grown(r, t)
          /\ \A m \in Nat : Known(r, m) => Known(t, m)
  BY <1>2, <1>3, <1>4, SendFromOK
<1>7. PICK t : t = SendFrom(r, 0, template, clear, "fan")
  OBVIOUS
<1>8. Grown(s, t)
  BY <1>2, <1>6, <1>7, GrownTwice
<1> QED
  BY <1>2, <1>5, <1>6, <1>7, <1>8

LEMMA SubscribedOK ==
    ASSUME NEW s \in SessType, Chain(infos), SessOK(s, infos), s.row = "have",
           ~s.workSelection
    PROVE  LET t == Subscribed(s)
           IN  /\ t \in SessType /\ SessOK(t, infos) /\ Grown(s, t)
               /\ \A m \in Nat : Known(s, m) => Known(t, m)
<1>1. CASE s.stream
  <2>1. Subscribed(s) = s
    BY <1>1 DEF Subscribed
  <2>2. Grown(s, s)
    BY DEF Grown, Rest, SameReplies
  <2> QED
    BY <2>1, <2>2
<1>2. CASE ~s.stream
  <2>1. PICK r : r = [s EXCEPT !.stream = TRUE, !.missed = s.early]
    OBVIOUS
  <2>2. /\ r \in SessType /\ Rest(s, r) /\ r.stream /\ Jobs(s, r)
        /\ r.chans = s.chans /\ r.writes = s.writes
    BY ONLY s \in SessType, <2>1, ZenonT(60) DEF SessType, Rest, Jobs
  <2>3. SameTasks(s, r) /\ SameReplies(s, r) /\ Open(r) = Open(s)
    BY <2>2, SameWrites DEF Open
  <2>4. SessOK(r, infos)
    <3>1. RowOK(r)
      BY <2>2, <2>3 DEF SessOK, RowOK, Rest, SameTasks
    <3>2. ToldOK(r) /\ Counted(r) /\ Apart(r) /\ Remembered(r)
      <4>1. \A i \in DOMAIN r.writes : Unrecorded(r, i) => Unrecorded(s, i)
        BY <2>2, <2>3 DEF Unrecorded, Extended, SameTasks
      <4>2. \A n : Unused(s, n) => Unused(r, n)
        BY <2>2, <2>3 DEF Unused, Rest
      <4>3. ToldOK(r)
        BY <2>2, <2>3 DEF SessOK, ToldOK, Told, Rest
      <4>4. Counted(r)
        BY <2>2, <2>3 DEF SessOK, Counted, Rest, Jobs, SameTasks
      <4>5. Apart(r)
        BY <2>2, <2>3, <4>1, <4>2 DEF SessOK, Apart, SameTasks
      <4>6. Remembered(r)
        BY <2>2, <2>3 DEF SessOK, Remembered, Rest
      <4> QED
        BY <4>3, <4>4, <4>5, <4>6
    <3>3. CurrentOK(r, infos)
      BY <2>2, <2>3 DEF SessOK, CurrentOK, Current, Rest, SameTasks
    <3> QED
      BY <3>1, <3>2, <3>3 DEF SessOK
  <2>5. Grown(s, r)
    BY <2>2, <2>3 DEF Grown
  <2>6. \A m \in Nat : Known(s, m) => Known(r, m)
    BY <2>2, <2>3 DEF Known, SameTasks, Rest
  <2>7. PICK clear : clear = (Latest \in clears)
    OBVIOUS
  <2>13. clear \in BOOLEAN
    BY <2>7
  <2>8. /\ infos \in Seq(Nat) /\ infos # << >> /\ Latest \in 1..MaxTemplates
        /\ Latest <= Len(infos) /\ r.row = "have"
    BY <2>2, EmptySeq DEF Chain, Latest, Rest
  <2>9. Subscribed(s) = OnTemplate(r, Latest, clear)
    BY <1>2, <2>1, <2>7 DEF Subscribed
  <2>10. PICK t : t = OnTemplate(r, Latest, clear)
    OBVIOUS
  <2>11. /\ t \in SessType /\ SessOK(t, infos) /\ Grown(r, t)
         /\ \A m \in Nat : Known(r, m) => Known(t, m)
    <3>1. 0 \in Nat
      OBVIOUS
    <3> QED
      BY ONLY <2>2, <2>4, <2>8, <2>10, <2>13, <3>1, OnTemplateOK
  <2>12. Grown(s, t)
    BY <2>2, <2>5, <2>11, GrownTwice
  <2> QED
    BY <2>6, <2>9, <2>10, <2>11, <2>12
<1> QED
  BY <1>1, <1>2

(* A frame that is neither a job's nor a reply.                             *)
LEMMA WrittenOK ==
    ASSUME NEW s \in SessType, NEW h \in Seq(Nat), NEW task \in TaskType, SessOK(s, h),
           task.at \notin {"job", "replied"}, task.at # "act2" => s.row = "have",
           task.at = "active" => task.template <= Len(h)
    PROVE  LET t == Write(s, task)
           IN  /\ t \in SessType /\ SessOK(t, h) /\ Grown(s, t)
               /\ \A m \in Nat : Known(s, m) /\ (task.at = "opened" => task.ch < m) => Known(t, m)
<1>1. PICK t : t = Write(s, task)
  OBVIOUS
<1>2. /\ t \in SessType /\ Rest(s, t) /\ Flags(s, t) /\ Jobs(s, t)
      /\ t.chans = s.chans /\ Open(t) = Open(s)
      /\ t.writes = Append(s.writes, [task |-> task, fails |-> FALSE])
  BY <1>1, WriteEffect
<1>3. SessOK(t, h)
  BY <1>2, WroteOK DEF Rest, Flags, SameShares
<1>4. /\ Grown(s, t)
      /\ \A m \in Nat : Known(s, m) /\ (task.at \in {"opened", "job"} => task.ch < m)
                         => Known(t, m)
  BY <1>2, GrownByOne DEF Flags
<1> QED
  BY <1>1, <1>2, <1>3, <1>4

LEMMA RetoldChan ==
    ASSUME NEW a \in ChanType, NEW d \in Nat
    PROVE  /\ LET b == [a EXCEPT !.diff = d, !.told = @ \cup {d}]
              IN  b \in ChanType /\ Retold(a, b)
           /\ LET b == [a EXCEPT !.told = @ \cup {a.diff}]
              IN  b \in ChanType /\ Retold(a, b)
<1>2. PICK x \in Nat, y \in SUBSET Nat : x = d /\ y = a.told \cup {d}
  BY DEF ChanType
<1>3. PICK z \in SUBSET Nat : z = a.told \cup {a.diff}
  BY DEF ChanType
<1>4. LET b == [a EXCEPT !.diff = x, !.told = y] IN b \in ChanType /\ Retold(a, b)
  <2>1. PICK b : b = [a EXCEPT !.diff = x, !.told = y]
    OBVIOUS
  <2>2. /\ b \in ChanType /\ b.type = a.type /\ b.held = a.held /\ b.hashes = a.hashes
        /\ b.on = a.on /\ b.told = y /\ b.diff = x
    BY ONLY a \in ChanType, x \in Nat, y \in SUBSET Nat, <2>1, ZenonT(60) DEF ChanType
  <2>3. Retold(a, b)
    BY <1>2, <2>2 DEF Retold
  <2> QED
    BY <2>1, <2>2, <2>3
<1>5. LET b == [a EXCEPT !.told = z] IN b \in ChanType /\ Retold(a, b)
  <2>1. PICK b : b = [a EXCEPT !.told = z]
    OBVIOUS
  <2>2. /\ b \in ChanType /\ b.type = a.type /\ b.held = a.held /\ b.hashes = a.hashes
        /\ b.on = a.on /\ b.told = z /\ b.diff = a.diff
    BY ONLY a \in ChanType, z \in SUBSET Nat, <2>1, ZenonT(60) DEF ChanType
  <2>3. Retold(a, b)
    BY <1>3, <2>2 DEF Retold
  <2> QED
    BY <2>1, <2>2, <2>3
<1> QED
  BY <1>2, <1>3, <1>4, <1>5

LEMMA RetoldSess ==
    ASSUME NEW s \in SessType, NEW h \in Seq(Nat), SessOK(s, h), s.row = "have",
           NEW ch \in Open(s), NEW chan \in ChanType, Retold(s.chans[ch], chan)
    PROVE  LET t == With(s, ch, chan)
           IN  /\ t \in SessType /\ SessOK(t, h) /\ Grown(s, t) /\ Flags(s, t)
               /\ t.writes = s.writes
               /\ \A m \in Nat : Known(s, m) => Known(t, m)
<1>1. PICK t : t = With(s, ch, chan)
  OBVIOUS
<1>2. /\ t \in SessType /\ Rest(s, t) /\ Flags(s, t) /\ Jobs(s, t)
      /\ t.writes = s.writes /\ Open(t) = Open(s) /\ t.chans[ch] = chan
      /\ \A d \in Open(s) : d # ch => t.chans[d] = s.chans[d]
  BY <1>1, WithEffect
<1>3. SameTasks(s, t) /\ SameReplies(s, t)
  BY <1>2, SameWrites
<1>4. s.openings = << >>
  BY DEF SessOK, RowOK
<1>5. ASSUME NEW d \in Open(s), d # ch PROVE Retold(s.chans[d], t.chans[d])
  BY <1>2, <1>5 DEF Retold, SessOK, ToldOK, Told
<1>6. \A d \in Open(s) : Retold(s.chans[d], t.chans[d])
  BY <1>2, <1>5
<1>7. /\ t.row = "have" /\ t.openings = << >> /\ t.stream = s.stream /\ SameShares(s, t)
      /\ t.forgot = s.forgot
  BY <1>2, <1>4 DEF Rest, Flags, SameShares
<1>8. SessOK(t, h)
  BY <1>2, <1>3, <1>6, <1>7, RetoldOK
<1>9. \A d \in Open(s) : t.chans[d].type = s.chans[d].type
  BY <1>6 DEF Retold
<1>10. Grown(s, t)
  BY <1>2, <1>3, <1>7, <1>9 DEF Grown
<1>11. \A m \in Nat : Known(s, m) => Known(t, m)
  BY <1>2, <1>3 DEF Known, SameTasks, Rest
<1> QED
  BY <1>1, <1>2, <1>8, <1>10, <1>11

LEMMA SetTargetsOK ==
    ASSUME NEW s \in SessType, NEW ch \in Nat, Chain(infos), SessOK(s, infos),
           s.row = "have"
    PROVE  LET t == SetTargets(s, ch)
           IN  /\ t \in SessType /\ SessOK(t, infos) /\ Grown(s, t)
               /\ \A m \in Nat : Known(s, m) => Known(t, m)
<1>1. infos \in Seq(Nat) /\ Latest \in 1..MaxTemplates /\ Latest <= Len(infos)
  BY DEF Chain, Latest
<1>2. CASE Following(s, ch) = {}
  <2>1. SetTargets(s, ch) = SendFrom(s, 0, Latest, TRUE, "retarget")
    BY <1>2 DEF SetTargets
  <2> QED
    BY <1>1, <2>1, SendFromOK
<1>3. CASE Following(s, ch) # {}
  <2>1. Following(s, ch) \in SUBSET Nat /\ Following(s, ch) \subseteq Open(s)
    BY ChansOf DEF Following
  <2>2. PICK next \in Open(s) : next = Min(Following(s, ch)) /\ next \in Nat
    BY <1>3, <2>1, LeastOf
  <2>3. PICK chan : chan = [s.chans[next] EXCEPT !.diff = s.diff, !.told = @ \cup {s.diff}]
    OBVIOUS
  <2>4. s.diff \in Nat /\ s.chans[next] \in ChanType
    BY ChansOf DEF SessType
  <2>5. chan \in ChanType /\ Retold(s.chans[next], chan)
    BY <2>3, <2>4, RetoldChan
  <2>6. PICK r : r = With(s, next, chan)
    OBVIOUS
  <2>7. /\ r \in SessType /\ SessOK(r, infos) /\ Grown(s, r)
        /\ \A m \in Nat : Known(s, m) => Known(r, m)
    BY <1>1, <2>5, <2>6, RetoldSess
  <2>8. PICK task \in TaskType : task = [at |-> "target", ch |-> next]
    BY <2>2 DEF TaskType, TargetTask
  <2>9. SetTargets(s, ch) = Write(r, task)
    BY <1>3, <2>2, <2>3, <2>6, <2>8 DEF SetTargets
  <2>10. r.row = "have" /\ task.at = "target"
    BY <2>7, <2>8 DEF Grown, Rest
  <2>11. PICK t : t = Write(r, task)
    OBVIOUS
  <2>12. /\ t \in SessType /\ SessOK(t, infos) /\ Grown(r, t)
         /\ \A m \in Nat : Known(r, m) => Known(t, m)
    BY <1>1, <2>7, <2>10, <2>11, WrittenOK
  <2>13. Grown(s, t)
    BY <2>7, <2>12, GrownTwice
  <2> QED
    BY <2>7, <2>9, <2>11, <2>12, <2>13
<1> QED
  BY <1>2, <1>3

LEMMA OpenSuccessOK ==
    ASSUME NEW s \in SessType, NEW ch \in Nat, NEW first \in BOOLEAN, NEW h \in Seq(Nat),
           SessOK(s, h), s.row = "have"
    PROVE  LET t == OpenSuccess(s, ch, first)
           IN  /\ t \in SessType /\ SessOK(t, h) /\ Grown(s, t)
               /\ \A m \in Nat : Known(s, m) /\ ch < m => Known(t, m)
<1>1. PICK chan : chan = [s.chans[ch] EXCEPT !.told = @ \cup {s.chans[ch].diff}]
  OBVIOUS
<1>2. PICK r : r = IF ch \in Open(s) THEN With(s, ch, chan) ELSE s
  OBVIOUS
<1>3. /\ r \in SessType /\ SessOK(r, h) /\ Grown(s, r)
      /\ \A m \in Nat : Known(s, m) => Known(r, m)
  <2>1. CASE ch \in Open(s)
    <3>1. s.chans[ch] \in ChanType /\ s.chans[ch].diff \in Nat
      BY <2>1, ChansOf DEF ChanType
    <3>2. chan \in ChanType /\ Retold(s.chans[ch], chan)
      BY <1>1, <3>1, RetoldChan
    <3> QED
      BY <1>2, <2>1, <3>2, RetoldSess
  <2>2. CASE ch \notin Open(s)
    <3>1. Grown(s, s)
      BY DEF Grown, Rest, SameReplies
    <3> QED
      BY <1>2, <2>2, <3>1
  <2> QED
    BY <2>1, <2>2
<1>4. PICK task \in TaskType : task = [at |-> "opened", ch |-> ch, first |-> first]
  BY DEF TaskType, OpenedTask
<1>5. OpenSuccess(s, ch, first) = Write(r, task)
  BY <1>1, <1>2, <1>4 DEF OpenSuccess
<1>6. r.row = "have" /\ task.at = "opened" /\ task.ch = ch
  BY <1>3, <1>4 DEF Grown, Rest
<1>7. PICK t : t = Write(r, task)
  OBVIOUS
<1>8. /\ t \in SessType /\ SessOK(t, h) /\ Grown(r, t)
      /\ \A m \in Nat : Known(r, m) /\ ch < m => Known(t, m)
  BY <1>3, <1>6, <1>7, WrittenOK
<1>9. Grown(s, t)
  BY <1>3, <1>8, GrownTwice
<1> QED
  BY <1>3, <1>5, <1>7, <1>8, <1>9

LEMMA ThenOK ==
    ASSUME NEW s \in SessType, NEW template \in 1..MaxTemplates, NEW prev \in BOOLEAN,
           NEW then \in ThenType, Chain(infos), SessOK(s, infos), s.row = "have",
           template <= Len(infos)
    PROVE  LET t == Then(s, template, prev, then)
           IN  /\ t \in SessType /\ SessOK(t, infos) /\ Grown(s, t)
               /\ \A m \in Nat : Known(s, m) => Known(t, m)
<1>1. infos \in Seq(Nat)
  BY DEF Chain
<1>2. CASE then.kind = "open"
  <2>1. CASE then.first /\ ~s.workSelection
    <3>1. Then(s, template, prev, then) = Subscribed(s)
      BY <1>2, <2>1 DEF Then
    <3> QED
      BY <2>1, <3>1, SubscribedOK
  <2>2. CASE ~(then.first /\ ~s.workSelection)
    <3>1. Then(s, template, prev, then) = s
      BY <1>2, <2>2 DEF Then
    <3>2. Grown(s, s)
      BY DEF Grown, Rest, SameReplies
    <3> QED
      BY <3>1, <3>2
  <2> QED
    BY <2>1, <2>2
<1>3. CASE then.kind = "fan"
  <2>1. then.after \in Nat
    BY <1>3 DEF ThenType
  <2>2. Then(s, template, prev, then) = SendFrom(s, then.after, template, prev, "fan")
    BY <1>3 DEF Then
  <2> QED
    BY <1>1, <2>1, <2>2, SendFromOK
<1>4. CASE then.kind = "retarget"
  <2>1. then.after \in Nat
    BY <1>4 DEF ThenType
  <2>2. Then(s, template, prev, then) = SendFrom(s, then.after, template, TRUE, "retarget")
    BY <1>4 DEF Then
  <2> QED
    BY <1>1, <2>1, <2>2, SendFromOK
<1> QED
  BY <1>2, <1>3, <1>4 DEF ThenType

-----------------------------------------------------------------------------
(* A write ends.                                                            *)

LEMMA WeakerSess ==
    ASSUME NEW s \in SessType, NEW h \in Seq(Nat), SessOK(s, h),
           NEW ch \in Open(s), NEW chan \in ChanType, Weaker(s.chans[ch], chan, s.forgot)
    PROVE  LET t == With(s, ch, chan)
           IN  /\ t \in SessType /\ SessOK(t, h) /\ Grown(s, t) /\ Flags(s, t)
               /\ t.writes = s.writes
               /\ \A m \in Nat : Known(s, m) => Known(t, m)
<1>1. PICK t : t = With(s, ch, chan)
  OBVIOUS
<1>2. /\ t \in SessType /\ Rest(s, t) /\ Flags(s, t) /\ Jobs(s, t)
      /\ t.writes = s.writes /\ Open(t) = Open(s) /\ t.chans[ch] = chan
      /\ \A d \in Open(s) : d # ch => t.chans[d] = s.chans[d]
  BY <1>1, WithEffect
<1>3. SameTasks(s, t) /\ SameReplies(s, t) /\ \E f : Renamed(s, t, f)
  BY <1>2, SameWrites
<1>4. \A a, forgot : Weaker(a, a, forgot)
  BY DEF Weaker
<1>5. t.forgot = s.forgot
  BY <1>2 DEF Rest
<1>6. \A d \in Open(s) : Weaker(s.chans[d], t.chans[d], t.forgot)
  BY <1>2, <1>4, <1>5
<1>7. Fewer(s, t)
  BY <1>2, <1>3, <1>6 DEF Fewer, Rest, Flags, Jobs, SessOK, RowOK
<1>8. SessOK(t, h)
  BY <1>2, <1>7, FewerOK
<1>9. \A d \in Open(s) : t.chans[d].type = s.chans[d].type
  BY <1>6 DEF Weaker
<1>10. Grown(s, t)
  BY <1>2, <1>3, <1>9 DEF Grown, Flags
<1>11. \A m \in Nat : Known(s, m) => Known(t, m)
  BY <1>2, <1>3 DEF Known, SameTasks, Rest
<1> QED
  BY <1>1, <1>2, <1>8, <1>10, <1>11

LEMMA ActivatedOK ==
    ASSUME NEW s \in SessType, NEW h \in Seq(Nat), SessOK(s, h), s.row = "have",
           NEW task \in JobTask, task.template <= Len(h)
    PROVE  LET t == Activated(s, task)
           IN  /\ t \in SessType /\ SessOK(t, h) /\ Grown(s, t)
               /\ \A m \in Nat : Known(s, m) => Known(t, m)
<1>1. PICK x \in 0..MaxTemplates : x = task.template
  BY StratumV2SessionAssumption DEF JobTask
<1>2. PICK chan : chan = [s.chans[task.ch] EXCEPT !.works = task.template, !.prev = task.template]
  OBVIOUS
<1>3. PICK r : r = IF task.ch \in Open(s) THEN With(s, task.ch, chan) ELSE s
  OBVIOUS
<1>4. /\ r \in SessType /\ SessOK(r, h) /\ Grown(s, r)
      /\ \A m \in Nat : Known(s, m) => Known(r, m)
  <2>1. CASE task.ch \in Open(s)
    <3>1. PICK a \in ChanType : a = s.chans[task.ch]
      BY <2>1, ChansOf
    <3>2. chan = [a EXCEPT !.works = x, !.prev = x]
      BY <1>1, <1>2, <3>1
    <3>3. /\ chan \in ChanType /\ chan.type = a.type /\ chan.diff = a.diff /\ chan.told = a.told
          /\ chan.on = a.on /\ chan.held = a.held /\ chan.hashes = a.hashes
      BY ONLY a \in ChanType, x \in 0..MaxTemplates, <3>2, ZenonT(60) DEF ChanType
    <3>4. Weaker(s.chans[task.ch], chan, s.forgot)
      BY <3>1, <3>3 DEF Weaker
    <3> QED
      BY <1>3, <2>1, <3>3, <3>4, WeakerSess
  <2>2. CASE task.ch \notin Open(s)
    <3>1. Grown(s, s)
      BY DEF Grown, Rest, SameReplies
    <3> QED
      BY <1>3, <2>2, <3>1
  <2> QED
    BY <2>1, <2>2
<1>5. PICK active : active = [task EXCEPT !.at = "active"]
  OBVIOUS
<1>6. active \in JobTask /\ active.at = "active" /\ active.template = task.template
  BY <1>5 DEF JobTask
<1>7. active \in TaskType
  BY <1>6 DEF TaskType
<1>8. Activated(s, task) = Write(r, active)
  BY <1>2, <1>3, <1>5 DEF Activated
<1>9. r.row = "have"
  BY <1>4 DEF Grown, Rest
<1>10. PICK t : t = Write(r, active)
  OBVIOUS
<1>11. /\ t \in SessType /\ SessOK(t, h) /\ Grown(r, t)
       /\ \A m \in Nat : Known(r, m) => Known(t, m)
  BY <1>4, <1>6, <1>7, <1>9, <1>10, WrittenOK
<1>12. Grown(s, t)
  BY <1>4, <1>11, GrownTwice
<1> QED
  BY <1>4, <1>8, <1>10, <1>11, <1>12

(* The number of a job may be recorded.                                     *)
Free(s, task) ==
    /\ task.n <= s.made
    /\ task.ch \in Open(s) /\ Extended(s, task.ch) => Unused(s, task.n)
    /\ \A i \in DOMAIN s.writes : Task(s, i).at = "job" => Task(s, i).n # task.n

LEMMA RecordedOK ==
    ASSUME NEW s \in SessType, Chain(infos), SessOK(s, infos), s.row = "have",
           NEW task \in JobTask, task.template <= Len(infos), Free(s, task)
    PROVE  LET t == Recorded(s, task)
           IN  /\ t \in SessType /\ SessOK(t, infos) /\ Grown(s, t)
               /\ \A m \in Nat : Known(s, m) => Known(t, m)
<1>1. CASE task.ch \notin Open(s) \/ ~Extended(s, task.ch)
  <2>1. Recorded(s, task) = s
    BY <1>1 DEF Recorded
  <2>2. Grown(s, s)
    BY DEF Grown, Rest, SameReplies
  <2> QED
    BY <2>1, <2>2
<1>2. CASE task.ch \in Open(s) /\ Extended(s, task.ch)
  <2>1. PICK a \in ChanType : a = s.chans[task.ch] /\ a.type = "extended"
    BY <1>2, ChansOf DEF Extended
  <2>2. PICK on \in 0..MaxTemplates : /\ on = IF task.prev THEN task.template ELSE s.chans[task.ch].on
                                      /\ on <= Len(infos)
    <3>1. a.on \in 0..MaxTemplates /\ task.template \in 0..MaxTemplates
      BY StratumV2SessionAssumption DEF ChanType, JobTask
    <3>2. a.on <= Len(infos)
      BY <1>2, <2>1 DEF SessOK, CurrentOK, Current
    <3> QED
      BY <2>1, <3>1, <3>2
  <2>3. PICK job : job = [n |-> task.n, template |-> task.template, on |-> on,
                          diff |-> s.chans[task.ch].diff, current |-> s.stream /\ OfBlock(on),
                          retired |-> FALSE, custom |-> FALSE]
    OBVIOUS
  <2>4. /\ job \in JobType /\ job.n = task.n /\ job.template = task.template /\ job.on = on
        /\ job.diff = a.diff /\ job.current = (s.stream /\ OfBlock(on))
    <3>1. task.n \in Nat \ {0} /\ task.template \in 1..MaxTemplates /\ a.diff \in Nat
      BY DEF JobTask, ChanType
    <3>2. (s.stream /\ OfBlock(on)) \in BOOLEAN
      OBVIOUS
    <3> QED
      BY <2>1, <2>3, <3>1, <3>2 DEF JobType
  <2>5. PICK held \in SUBSET JobType : held = a.held \cup {job}
    BY <2>4 DEF ChanType
  <2>6. PICK chan : chan = [a EXCEPT !.held = held, !.on = on]
    OBVIOUS
  <2>7. /\ chan \in ChanType /\ chan.type = a.type /\ chan.diff = a.diff /\ chan.told = a.told
        /\ chan.hashes = a.hashes /\ chan.held = held /\ chan.on = on
    BY ONLY a \in ChanType, held \in SUBSET JobType, on \in 0..MaxTemplates, <2>6, ZenonT(60)
       DEF ChanType
  <2>8. PICK t : t = With(s, task.ch, chan)
    OBVIOUS
  <2>9. chan = [s.chans[task.ch] EXCEPT !.held = @ \cup {job}, !.on = on]
    BY <2>1, <2>5, <2>6
  <2>10. Recorded(s, task) = t
    BY <1>2, <2>2, <2>3, <2>8, <2>9 DEF Recorded
  <2>11. /\ t \in SessType /\ Rest(s, t) /\ Flags(s, t) /\ Jobs(s, t)
         /\ t.writes = s.writes /\ Open(t) = Open(s) /\ t.chans[task.ch] = chan
         /\ \A d \in Open(s) : d # task.ch => t.chans[d] = s.chans[d]
    BY <1>2, <2>7, <2>8, WithEffect
  <2>12. SameTasks(s, t) /\ SameReplies(s, t)
    BY <2>11, SameWrites
  <2>13. job.current => s.stream /\ At(infos, job.on)
    BY <2>4 DEF OfBlock, At, LastBlock, Latest
  <2>14. /\ t.row = s.row /\ t.openings = s.openings /\ t.stream = s.stream /\ t.calls = s.calls
         /\ SameShares(s, t) /\ t.forgot = s.forgot /\ t.made = s.made
    BY <2>11 DEF Rest, Flags, Jobs, SameShares
  <2>15. job.n <= t.made /\ Unused(s, job.n) /\ s.made <= t.made
         /\ \A i \in DOMAIN s.writes : Task(s, i).at = "job" => Task(s, i).n # job.n
    <3>1. s.made \in Nat
      BY DEF SessType
    <3> QED
      BY <1>2, <2>4, <2>14, <3>1 DEF Free
  <2>16. infos \in Seq(Nat)
    BY DEF Chain
  <2>17. SessOK(t, infos)
    <3>1. PICK ch \in Open(s) : ch = task.ch
      BY <1>2
    <3>2. /\ t.chans[ch].type = "extended" /\ s.chans[ch].type = "extended"
          /\ t.chans[ch].diff = s.chans[ch].diff /\ t.chans[ch].told = s.chans[ch].told
          /\ t.chans[ch].hashes = s.chans[ch].hashes
          /\ t.chans[ch].held = s.chans[ch].held \cup {job}
          /\ job.diff = s.chans[ch].diff /\ t.chans[ch].on <= Len(infos)
          /\ job.template <= Len(infos) /\ job.on <= Len(infos)
          /\ \A d \in Open(s) : d # ch => t.chans[d] = s.chans[d]
      BY <2>1, <2>2, <2>4, <2>5, <2>7, <2>11, <3>1
    <3> QED
      BY ONLY <2>4, <2>11, <2>12, <2>13, <2>14, <2>15, <2>16, <3>2, ch \in Open(s),
              s \in SessType, SessOK(s, infos), s.row = "have", HeldOK
  <2>18. \A d \in Open(s) : t.chans[d].type = s.chans[d].type
    BY <2>1, <2>7, <2>11
  <2>19. Grown(s, t)
    BY <2>11, <2>12, <2>14, <2>18 DEF Grown
  <2>20. \A m \in Nat : Known(s, m) => Known(t, m)
    BY <2>11, <2>12, <2>14 DEF Known, SameTasks
  <2> QED
    BY <2>10, <2>11, <2>17, <2>19, <2>20
<1> QED
  BY <1>1, <1>2

(* A write is no longer under way.                                          *)
LEMMA DoneEffect ==
    ASSUME NEW s \in SessType, NEW i \in DOMAIN s.writes
    PROVE  LET t == Done(s, i)
           IN  /\ t \in SessType /\ Rest(s, t) /\ Flags(s, t) /\ Jobs(s, t)
               /\ t.chans = s.chans /\ Open(t) = Open(s)
               /\ t.writes = RemoveAt(s.writes, i)
               /\ \A j \in DOMAIN t.writes :
                     \E k \in DOMAIN s.writes : /\ k # i /\ t.writes[j] = s.writes[k]
                                                /\ k = IF j < i THEN j ELSE j + 1
               /\ \A k \in DOMAIN s.writes : k # i =>
                     \E j \in DOMAIN t.writes : /\ t.writes[j] = s.writes[k]
                                                /\ k = IF j < i THEN j ELSE j + 1
<1>1. s.writes \in Seq(WriteType)
  BY DEF SessType
<1>2. /\ RemoveAt(s.writes, i) \in Seq(WriteType)
      /\ \A j \in DOMAIN RemoveAt(s.writes, i) :
            \E k \in DOMAIN s.writes : /\ k # i /\ RemoveAt(s.writes, i)[j] = s.writes[k]
                                       /\ k = IF j < i THEN j ELSE j + 1
      /\ \A k \in DOMAIN s.writes : k # i =>
            \E j \in DOMAIN RemoveAt(s.writes, i) :
               /\ RemoveAt(s.writes, i)[j] = s.writes[k]
               /\ k = IF j < i THEN j ELSE j + 1
  BY <1>1, AfterRemove
<1>3. PICK q : q = RemoveAt(s.writes, i)
  OBVIOUS
<1>4. q \in Seq(WriteType)
  BY <1>2, <1>3
<1>5. PICK t : t = [s EXCEPT !.writes = q]
  OBVIOUS
<1>6. /\ t \in SessType /\ Rest(s, t) /\ Flags(s, t) /\ Jobs(s, t)
      /\ t.chans = s.chans /\ t.writes = q
  BY ONLY s \in SessType, <1>4, <1>5, ZenonT(60) DEF SessType, Rest, Flags, Jobs
<1>7. t = Done(s, i)
  BY <1>3, <1>5 DEF Done
<1> QED
  BY <1>2, <1>3, <1>6, <1>7 DEF Open

LEMMA DoneOK ==
    ASSUME NEW s \in SessType, NEW i \in DOMAIN s.writes, NEW h \in Seq(Nat), SessOK(s, h)
    PROVE  LET t == Done(s, i)
           IN  /\ SessOK(t, h)
               /\ \A m \in Nat : Known(s, m) => Known(t, m)
               /\ Task(s, i).at = "job" => Free(t, Task(s, i))
<1>1. PICK t : t = Done(s, i)
  OBVIOUS
<1>2. /\ t \in SessType /\ Rest(s, t) /\ Flags(s, t) /\ Jobs(s, t)
      /\ t.chans = s.chans /\ Open(t) = Open(s)
      /\ \A j \in DOMAIN t.writes :
            \E k \in DOMAIN s.writes : /\ k # i /\ t.writes[j] = s.writes[k]
                                       /\ k = IF j < i THEN j ELSE j + 1
  BY <1>1, DoneEffect
<1>3. /\ DOMAIN t.writes \subseteq Nat /\ DOMAIN s.writes \subseteq Nat
  <2>1. DOMAIN t.writes = 1..Len(t.writes) /\ DOMAIN s.writes = 1..Len(s.writes)
    BY <1>2, WritesTyped
  <2> QED
    BY <2>1
<1>4. \E f : Renamed(s, t, f)
  <2> DEFINE f == [j \in DOMAIN t.writes |-> IF j < i THEN j ELSE j + 1]
  <2>1. \A j \in DOMAIN t.writes : f[j] \in DOMAIN s.writes /\ Task(t, j) = Task(s, f[j])
    BY <1>2 DEF Task
  <2>2. \A j, k \in DOMAIN t.writes : j # k => f[j] # f[k]
    BY <1>3
  <2>3. Renamed(s, t, f)
    BY <2>1, <2>2 DEF Renamed
  <2> QED
    BY <2>3
<1>5. \A a, forgot : Weaker(a, a, forgot)
  BY DEF Weaker
<1>6. Fewer(s, t)
  BY <1>2, <1>4, <1>5 DEF Fewer, Rest, Flags, Jobs, SessOK, RowOK
<1>7. SessOK(t, h)
  BY <1>2, <1>6, FewerOK
<1>8. \A m \in Nat : Known(s, m) => Known(t, m)
  <2> SUFFICES ASSUME NEW m \in Nat, Known(s, m) PROVE Known(t, m)
    OBVIOUS
  <2>1. \A j \in DOMAIN t.writes : Task(t, j).at \in {"opened", "job"} => Task(t, j).ch < m
    BY <1>2 DEF Known, Task
  <2> QED
    BY <1>2, <2>1 DEF Known, Rest
<1>9. ASSUME Task(s, i).at = "job" PROVE Free(t, Task(s, i))
  <2>1. Task(s, i).n <= t.made
    BY <1>2, <1>9 DEF SessOK, Counted, Jobs
  <2>2. ASSUME Task(s, i).ch \in Open(t), Extended(t, Task(s, i).ch)
        PROVE  Unused(t, Task(s, i).n)
    <3>1. Unrecorded(s, i)
      BY <1>2, <1>9, <2>2 DEF Unrecorded, Extended
    <3>2. Unused(s, Task(s, i).n)
      BY <3>1 DEF SessOK, Apart
    <3> QED
      BY <1>2, <3>2 DEF Unused, Rest
  <2>3. ASSUME NEW j \in DOMAIN t.writes, Task(t, j).at = "job"
        PROVE  Task(t, j).n # Task(s, i).n
    <3>1. PICK k \in DOMAIN s.writes : k # i /\ Task(t, j) = Task(s, k)
      BY <1>2 DEF Task
    <3> QED
      BY <1>9, <2>3, <3>1 DEF SessOK, Apart
  <2> QED
    BY <2>1, <2>2, <2>3 DEF Free
<1> QED
  BY <1>1, <1>7, <1>8, <1>9

(* What goes on after a frame, but for the first act and replies.           *)
LEMMA AfterOK ==
    ASSUME NEW s \in SessType, NEW task \in TaskType, Chain(infos), SessOK(s, infos),
           s.row = "have", task.at \notin {"act2", "replied"},
           task.at \in {"job", "active"} => task.template <= Len(infos),
           task.at = "job" => Free(s, task)
    PROVE  LET t == After(s, task)
           IN  /\ t \in SessType /\ SessOK(t, infos) /\ Grown(s, t)
               /\ \A m \in Nat : Known(s, m) /\ (task.at = "opened" => task.ch < m)
                                  => Known(t, m)
<1>1. infos \in Seq(Nat) /\ Latest \in 1..MaxTemplates /\ Latest <= Len(infos)
  BY DEF Chain, Latest
<1>2. CASE task.at = "opened"
  <2>1. task.ch \in Nat /\ task.first \in BOOLEAN
    BY <1>2 DEF TaskType, Act2Task, OpenedTask, JobTask, TargetTask, ReplyTask
  <2>2. CASE s.workSelection
    <3>1. After(s, task) = s
      BY <1>2, <2>2 DEF After
    <3>2. Grown(s, s)
      BY DEF Grown, Rest, SameReplies
    <3> QED
      BY <3>1, <3>2
  <2>3. CASE ~s.workSelection
    <3>1. PICK then : then = [kind |-> "open", first |-> task.first]
      OBVIOUS
    <3>2. then \in ThenType
      BY <2>1, <3>1 DEF ThenType
    <3>3. After(s, task) = SendJob(s, task.ch, Latest, TRUE, then)
      BY <1>2, <2>3, <3>1 DEF After
    <3>4. PICK ch \in Nat, template \in 1..MaxTemplates, prev \in BOOLEAN :
             ch = task.ch /\ template = Latest /\ prev = TRUE
      BY <1>1, <2>1
    <3>5. PICK t : t = SendJob(s, ch, template, prev, then)
      OBVIOUS
    <3>6. /\ t \in SessType /\ SessOK(t, infos) /\ Grown(s, t)
          /\ \A m \in Nat : Known(s, m) /\ ch < m => Known(t, m)
      <4>1. template <= Len(infos) /\ infos \in Seq(Nat)
        BY <1>1, <3>4
      <4> QED
        BY ONLY s \in SessType, ch \in Nat, template \in 1..MaxTemplates, prev \in BOOLEAN,
                SessOK(s, infos), s.row = "have", <3>2, <3>5, <4>1, SendJobGrown
    <3>7. After(s, task) = t
      BY <3>3, <3>4, <3>5
    <3> QED
      BY <1>2, <3>4, <3>6, <3>7
  <2> QED
    BY <2>2, <2>3
<1>3. CASE task.at = "job"
  <2>1. task \in JobTask
    BY <1>3 DEF TaskType, Act2Task, OpenedTask, JobTask, TargetTask, ReplyTask
  <2>2. task.template \in 1..MaxTemplates /\ task.prev \in BOOLEAN /\ task.then \in ThenType
    BY <2>1 DEF JobTask
  <2>3. PICK r : r = Recorded(s, task)
    OBVIOUS
  <2>4. /\ r \in SessType /\ SessOK(r, infos) /\ Grown(s, r)
        /\ \A m \in Nat : Known(s, m) => Known(r, m)
    BY <1>3, <2>1, <2>3, RecordedOK
  <2>5. r.row = "have"
    BY <2>4 DEF Grown, Rest
  <2>6. CASE task.prev
    <3>1. After(s, task) = Activated(r, task)
      BY <1>3, <2>3, <2>6 DEF After
    <3>2. PICK t : t = Activated(r, task)
      OBVIOUS
    <3>3. /\ t \in SessType /\ SessOK(t, infos) /\ Grown(r, t)
          /\ \A m \in Nat : Known(r, m) => Known(t, m)
      BY <1>1, <1>3, <2>1, <2>4, <2>5, <3>2, ActivatedOK
    <3>4. Grown(s, t)
      BY <2>4, <3>3, GrownTwice
    <3> QED
      BY <2>4, <3>1, <3>2, <3>3, <3>4
  <2>7. CASE ~task.prev
    <3>1. After(s, task) = Then(r, task.template, task.prev, task.then)
      BY <1>3, <2>3, <2>7 DEF After
    <3>2. PICK t : t = Then(r, task.template, task.prev, task.then)
      OBVIOUS
    <3>3. /\ t \in SessType /\ SessOK(t, infos) /\ Grown(r, t)
          /\ \A m \in Nat : Known(r, m) => Known(t, m)
      BY <1>3, <2>2, <2>4, <2>5, <3>2, ThenOK
    <3>4. Grown(s, t)
      BY <2>4, <3>3, GrownTwice
    <3> QED
      BY <2>4, <3>1, <3>2, <3>3, <3>4
  <2> QED
    BY <2>6, <2>7
<1>4. CASE task.at = "active"
  <2>1. task \in JobTask
    BY <1>4 DEF TaskType, Act2Task, OpenedTask, JobTask, TargetTask, ReplyTask
  <2>2. task.template \in 1..MaxTemplates /\ task.prev \in BOOLEAN /\ task.then \in ThenType
    BY <2>1 DEF JobTask
  <2>3. After(s, task) = Then(s, task.template, task.prev, task.then)
    BY <1>4 DEF After
  <2> QED
    BY <1>4, <2>2, <2>3, ThenOK
<1>5. CASE task.at = "target"
  <2>1. task.ch \in Nat
    BY <1>5 DEF TaskType, Act2Task, OpenedTask, JobTask, TargetTask, ReplyTask
  <2>2. After(s, task) = SetTargets(s, task.ch)
    BY <1>5 DEF After
  <2> QED
    BY <2>1, <2>2, SetTargetsOK
<1>6. task.at \in {"act2", "opened", "job", "active", "target", "replied"}
  BY DEF TaskType, Act2Task, OpenedTask, JobTask, TargetTask, ReplyTask
<1> QED
  BY <1>2, <1>3, <1>4, <1>5, <1>6

-----------------------------------------------------------------------------
(* A session ends.                                                          *)

(* The shares under way are the same. *)
Quietly(s, t) ==
    /\ t.mode = s.mode /\ t.accepted = s.accepted
    /\ s.forgot => t.forgot
    /\ SameReplies(s, t)
    /\ \A k \in DOMAIN s.calls : s.calls[k].at # "delete" =>
          k \in DOMAIN t.calls /\ t.calls[k] = s.calls[k]
    /\ \A k \in DOMAIN t.calls : t.calls[k].at # "delete" =>
          k \in DOMAIN s.calls /\ t.calls[k] = s.calls[k]

LEMMA QuietlyTwice ==
    ASSUME NEW s \in SessType, NEW t \in SessType, NEW u \in SessType,
           Quietly(s, t), Quietly(t, u)
    PROVE  Quietly(s, u)
<1>1. SameReplies(s, u)
  BY DEF Quietly, SameReplies
<1>2. u.mode = s.mode /\ u.accepted = s.accepted /\ (s.forgot => u.forgot)
  BY DEF Quietly
<1>3. \A k \in DOMAIN s.calls : s.calls[k].at # "delete" =>
         k \in DOMAIN u.calls /\ u.calls[k] = s.calls[k]
  BY DEF Quietly
<1>4. \A k \in DOMAIN u.calls : u.calls[k].at # "delete" =>
         k \in DOMAIN s.calls /\ u.calls[k] = s.calls[k]
  BY DEF Quietly
<1> QED
  BY <1>1, <1>2, <1>3, <1>4 DEF Quietly

LEMMA NoChans == << >> \in ChansType /\ DOMAIN << >> = {}
<1>1. << >> \in Seq(ChanType) /\ Len(<< >>) = 0
  BY EmptySeq
<1>2. DOMAIN << >> = 1..0
  BY <1>1, LenProperties
<1>3. << >> \in [1..0 -> ChanType]
  BY <1>1, <1>2, SeqDef
<1> QED
  BY <1>2, <1>3 DEF ChansType

LEMMA TornEffect ==
    ASSUME NEW s \in SessType
    PROVE  LET t == Torn(s)
           IN  /\ t \in SessType /\ t.socket = "destroyed" /\ t.destroyed = s.destroyed
               /\ t.racing = s.racing /\ t.row = s.row /\ t.openings = s.openings
               /\ t.calls = s.calls /\ t.chans = s.chans /\ Open(t) = Open(s)
               /\ t.workSelection = s.workSelection
               /\ Flags(s, t) /\ Jobs(s, t) /\ SameShares(s, t) /\ t.forgot = s.forgot
               /\ t.mode = s.mode /\ SameTasks(s, t)
               /\ \A i \in DOMAIN t.writes : t.writes[i].fails
<1>1. PICK q : q = [i \in DOMAIN s.writes |-> [s.writes[i] EXCEPT !.fails = TRUE]]
  OBVIOUS
<1>2. /\ s.writes \in Seq(WriteType) /\ DOMAIN s.writes = 1..Len(s.writes)
      /\ Len(s.writes) \in Nat /\ \A i \in DOMAIN s.writes : s.writes[i] \in WriteType
  BY WritesTyped
<1>3. DOMAIN q = DOMAIN s.writes /\ \A i \in DOMAIN s.writes :
         q[i] \in WriteType /\ q[i].fails /\ q[i].task = s.writes[i].task
  BY <1>1, <1>2 DEF WriteType
<1>4. q \in [1..Len(s.writes) -> WriteType]
  BY <1>1, <1>2, <1>3
<1>5. q \in Seq(WriteType)
  BY <1>2, <1>4, SeqDef
<1>6. PICK t : t = [s EXCEPT !.socket = "destroyed", !.writes = q]
  OBVIOUS
<1>7. t = Torn(s)
  BY <1>1, <1>6 DEF Torn
<1>8. /\ t \in SessType /\ t.socket = "destroyed" /\ t.destroyed = s.destroyed
      /\ t.racing = s.racing /\ t.row = s.row /\ t.openings = s.openings
      /\ t.calls = s.calls /\ t.chans = s.chans /\ t.workSelection = s.workSelection
      /\ Flags(s, t) /\ Jobs(s, t) /\ SameShares(s, t) /\ t.forgot = s.forgot
      /\ t.mode = s.mode /\ t.writes = q
  BY ONLY s \in SessType, <1>5, <1>6, ZenonT(60)
     DEF SessType, Flags, Jobs, SameShares, Sockets
<1> QED
  BY <1>3, <1>7, <1>8 DEF SameTasks, Task, Open

LEMMA CallEffect ==
    ASSUME NEW s \in SessType, NEW at, NEW share, [at |-> at, share |-> share] \in CallType
    PROVE  LET t == Call(s, at, share)
           IN  /\ t \in SessType /\ t.socket = s.socket /\ t.destroyed = s.destroyed
               /\ t.racing = s.racing /\ t.row = s.row /\ t.openings = s.openings
               /\ t.chans = s.chans /\ Open(t) = Open(s) /\ t.writes = s.writes
               /\ t.workSelection = s.workSelection
               /\ Flags(s, t) /\ Jobs(s, t) /\ SameShares(s, t) /\ t.forgot = s.forgot
               /\ t.mode = s.mode
               /\ DOMAIN s.calls = 1..Len(s.calls) /\ Len(s.calls) \in Nat
               /\ DOMAIN t.calls = 1 .. Len(s.calls) + 1
               /\ \A k \in DOMAIN s.calls : t.calls[k] = s.calls[k]
               /\ t.calls[Len(s.calls) + 1] = [at |-> at, share |-> share]
               /\ t.calls # << >>
<1>1. PICK e \in CallType : e = [at |-> at, share |-> share]
  OBVIOUS
<1>2. PICK q : q = Append(s.calls, e)
  OBVIOUS
<1>3. s.calls \in Seq(CallType)
  BY DEF SessType
<1>4. /\ q \in Seq(CallType)
      /\ DOMAIN s.calls = 1..Len(s.calls) /\ Len(s.calls) \in Nat
      /\ DOMAIN q = 1 .. Len(s.calls) + 1 /\ Len(q) = Len(s.calls) + 1
      /\ \A k \in DOMAIN s.calls : q[k] = s.calls[k]
      /\ q[Len(s.calls) + 1] = e
  BY <1>2, <1>3, AfterAppend
<1>5. PICK t : t = [s EXCEPT !.calls = q]
  OBVIOUS
<1>6. t = Call(s, at, share)
  BY <1>1, <1>2, <1>5 DEF Call
<1>7. q \in Seq(CallType)
  BY <1>4
<1>8. /\ t \in SessType /\ t.socket = s.socket /\ t.destroyed = s.destroyed
      /\ t.racing = s.racing /\ t.row = s.row /\ t.openings = s.openings
      /\ t.chans = s.chans /\ t.writes = s.writes /\ t.workSelection = s.workSelection
      /\ Flags(s, t) /\ Jobs(s, t) /\ SameShares(s, t) /\ t.forgot = s.forgot
      /\ t.mode = s.mode /\ t.calls = q
  BY ONLY s \in SessType, <1>5, <1>7, ZenonT(60) DEF SessType, Flags, Jobs, SameShares
<1>9. q # << >>
  BY <1>4, EmptySeq
<1> QED
  BY <1>1, <1>4, <1>6, <1>8, <1>9 DEF Open

LEMMA DestroyedEffect ==
    ASSUME NEW s \in SessType, ~s.destroyed
    PROVE  LET t == Destroyed(s)
           IN  /\ t \in SessType /\ t.socket = s.socket /\ t.destroyed
               /\ t.racing = (s.row = "inserting" \/ s.calls # << >>)
               /\ t.row = s.row /\ t.openings = s.openings
               /\ t.chans = << >> /\ Open(t) = {} /\ t.writes = s.writes
               /\ t.workSelection = s.workSelection /\ ~t.stream
               /\ Jobs(s, t) /\ SameShares(s, t) /\ t.forgot = s.forgot
               /\ t.mode = s.mode
               /\ \/ s.row # "have" /\ t.calls = s.calls
                  \/ /\ s.row = "have" /\ t.calls # << >>
                     /\ DOMAIN s.calls = 1..Len(s.calls) /\ Len(s.calls) \in Nat
                     /\ DOMAIN t.calls = 1 .. Len(s.calls) + 1
                     /\ \A k \in DOMAIN s.calls : t.calls[k] = s.calls[k]
                     /\ t.calls[Len(s.calls) + 1] = [at |-> "delete", share |-> 0]
<1>1. PICK x \in BOOLEAN : x = (s.openings # << >> \/ s.calls # << >>)
  <2>1. (s.openings # << >> \/ s.calls # << >>) \in BOOLEAN
    OBVIOUS
  <2> QED
    BY <2>1, Zenon
<1>2. PICK y \in BOOLEAN : y = (s.row = "inserting" \/ s.calls # << >>)
  <2>1. (s.row = "inserting" \/ s.calls # << >>) \in BOOLEAN
    OBVIOUS
  <2> QED
    BY <2>1, Zenon
<1>3. PICK chans \in ChansType : chans = << >> /\ DOMAIN chans = {}
  BY NoChans
<1>4. PICK r : r = [s EXCEPT !.destroyed = TRUE, !.stream = FALSE, !.chans = chans,
                            !.more = x, !.racing = y]
  OBVIOUS
<1>5. /\ r \in SessType /\ r.socket = s.socket /\ r.destroyed = TRUE /\ r.racing = y
      /\ r.row = s.row /\ r.openings = s.openings /\ r.chans = chans
      /\ r.writes = s.writes /\ r.calls = s.calls
      /\ r.workSelection = s.workSelection /\ r.stream = FALSE
      /\ Jobs(s, r) /\ SameShares(s, r) /\ r.forgot = s.forgot /\ r.mode = s.mode
  BY ONLY s \in SessType, chans \in ChansType, x \in BOOLEAN, y \in BOOLEAN, <1>4, ZenonT(60)
     DEF SessType, Jobs, SameShares
<1>6. Destroyed(s) = IF r.row = "have" THEN Call(r, "delete", 0) ELSE r
  BY <1>1, <1>2, <1>3, <1>4, <1>5 DEF Destroyed
<1>7. [at |-> "delete", share |-> 0] \in CallType
  BY DEF CallType
<1>8. CASE s.row = "have"
  <2>1. PICK t : t = Call(r, "delete", 0)
    OBVIOUS
  <2>2. /\ t \in SessType /\ t.socket = r.socket /\ t.destroyed = r.destroyed
        /\ t.racing = r.racing /\ t.row = r.row /\ t.openings = r.openings
        /\ t.chans = r.chans /\ t.writes = r.writes
        /\ t.workSelection = r.workSelection
        /\ Flags(r, t) /\ Jobs(r, t) /\ SameShares(r, t) /\ t.forgot = r.forgot
        /\ t.mode = r.mode
        /\ DOMAIN r.calls = 1..Len(r.calls) /\ Len(r.calls) \in Nat
        /\ DOMAIN t.calls = 1 .. Len(r.calls) + 1
        /\ \A k \in DOMAIN r.calls : t.calls[k] = r.calls[k]
        /\ t.calls[Len(r.calls) + 1] = [at |-> "delete", share |-> 0]
        /\ t.calls # << >>
    <3>1. PICK at, share : at = "delete" /\ share = 0
      OBVIOUS
    <3>2. r \in SessType /\ [at |-> at, share |-> share] \in CallType /\ t = Call(r, at, share)
      BY <1>5, <1>7, <2>1, <3>1
    <3>3. /\ t \in SessType /\ t.socket = r.socket /\ t.destroyed = r.destroyed
          /\ t.racing = r.racing /\ t.row = r.row /\ t.openings = r.openings
          /\ t.chans = r.chans /\ t.writes = r.writes
          /\ t.workSelection = r.workSelection
          /\ Flags(r, t) /\ Jobs(r, t) /\ SameShares(r, t) /\ t.forgot = r.forgot
          /\ t.mode = r.mode
          /\ DOMAIN r.calls = 1..Len(r.calls) /\ Len(r.calls) \in Nat
          /\ DOMAIN t.calls = 1 .. Len(r.calls) + 1
          /\ \A k \in DOMAIN r.calls : t.calls[k] = r.calls[k]
          /\ t.calls[Len(r.calls) + 1] = [at |-> at, share |-> share]
          /\ t.calls # << >>
      BY ONLY <3>2, CallEffect
    <3> QED
      BY ONLY <3>1, <3>3
  <2>3. t = Destroyed(s)
    BY <1>5, <1>6, <1>8, <2>1
  <2>4. /\ t.socket = s.socket /\ t.destroyed
        /\ t.racing = (s.row = "inserting" \/ s.calls # << >>)
        /\ t.row = s.row /\ t.openings = s.openings
        /\ t.chans = << >> /\ Open(t) = {} /\ t.writes = s.writes
        /\ t.workSelection = s.workSelection /\ ~t.stream
    BY <1>2, <1>3, <1>5, <2>2 DEF Open, Flags
  <2>5. Jobs(s, t) /\ SameShares(s, t) /\ t.forgot = s.forgot /\ t.mode = s.mode
    BY <1>5, <2>2 DEF Jobs, SameShares
  <2>6. /\ DOMAIN s.calls = 1..Len(s.calls) /\ Len(s.calls) \in Nat
        /\ DOMAIN t.calls = 1 .. Len(s.calls) + 1
        /\ \A k \in DOMAIN s.calls : t.calls[k] = s.calls[k]
        /\ t.calls[Len(s.calls) + 1] = [at |-> "delete", share |-> 0]
    BY <1>5, <2>2
  <2> QED
    BY <1>8, <2>2, <2>3, <2>4, <2>5, <2>6
<1>9. CASE s.row # "have"
  <2>1. Destroyed(s) = r
    BY <1>5, <1>6, <1>9
  <2> QED
    BY <1>2, <1>3, <1>5, <1>9, <2>1 DEF Open
<1> QED
  BY <1>8, <1>9

(* What a session holds while it lives, and what is left when it ended with *)
(* nothing under way; lives says whether it has a row.                      *)
Ended(s, lives) ==
    /\ ~s.destroyed => ~s.racing /\ s.row # "failed"
    /\ s.destroyed /\ ~s.racing =>
          /\ Open(s) = {} /\ ~s.stream /\ s.row # "inserting"
          /\ \A i \in DOMAIN s.writes : s.writes[i].fails
          /\ \A k \in DOMAIN s.calls : s.calls[k].at = "delete"
          /\ lives => s.calls # << >>
    /\ lives => s.row = "have"
    /\ s.stream => ~s.workSelection

(* A session that may be destroyed. *)
Endable(s, lives) ==
    /\ ~s.destroyed => ~s.racing
    /\ s.destroyed => Ended(s, lives)
    /\ lives => s.row = "have"
    /\ s.stream => ~s.workSelection

(* Its channels go, and nothing else that others know. *)
Emptied(s, t) ==
    /\ Quietly(s, t)
    /\ Open(t) \subseteq Open(s)
    /\ \A ch \in Open(t) : t.chans[ch] = s.chans[ch]
    /\ s.racing => t.racing
    /\ \A m \in Nat : Known(s, m) => Known(t, m)

LEMMA SameWeaker == \A a, forgot : Weaker(a, a, forgot)
BY DEF Weaker

LEMMA SameCalls ==
    ASSUME NEW s, NEW t, t.mode = s.mode, SameShares(s, t), t.forgot = s.forgot,
           SameReplies(s, t), t.calls = s.calls
    PROVE  Quietly(s, t)
BY DEF Quietly, SameShares

LEMMA GrownQuietly ==
    ASSUME NEW s, NEW t, Grown(s, t)
    PROVE  Quietly(s, t)
BY DEF Grown, Quietly, Rest

LEMMA TornOK ==
    ASSUME NEW s \in SessType, NEW h \in Seq(Nat), SessOK(s, h), NEW lives
    PROVE  LET t == Torn(s)
           IN  /\ t \in SessType /\ SessOK(t, h) /\ Emptied(s, t)
               /\ Endable(s, lives) => Endable(t, lives)
               /\ Ended(s, lives) => Ended(t, lives)
               /\ t.destroyed = s.destroyed
               /\ \A i \in DOMAIN t.writes : t.writes[i].fails
<1>1. PICK t : t = Torn(s)
  OBVIOUS
<1>2. /\ t \in SessType /\ t.socket = "destroyed" /\ t.destroyed = s.destroyed
      /\ t.racing = s.racing /\ t.row = s.row /\ t.openings = s.openings
      /\ t.calls = s.calls /\ t.chans = s.chans /\ Open(t) = Open(s)
      /\ t.workSelection = s.workSelection
      /\ Flags(s, t) /\ Jobs(s, t) /\ SameShares(s, t) /\ t.forgot = s.forgot
      /\ t.mode = s.mode /\ SameTasks(s, t)
      /\ \A i \in DOMAIN t.writes : t.writes[i].fails
  BY <1>1, TornEffect
<1>3. \E f : Renamed(s, t, f)
  BY <1>2, KeepsWrites DEF SameTasks
<1>4. Fewer(s, t)
  BY <1>2, <1>3, SameWeaker DEF Fewer, Flags, Jobs, SameShares, SessOK, RowOK
<1>5. SessOK(t, h)
  BY <1>2, <1>4, FewerOK
<1>6. SameReplies(s, t)
  BY <1>2 DEF SameReplies, SameTasks
<1>7. Quietly(s, t)
  BY <1>2, <1>6, SameCalls
<1>8. \A m \in Nat : Known(s, m) => Known(t, m)
  BY <1>2 DEF Known, SameTasks
<1>9. Emptied(s, t)
  BY <1>2, <1>7, <1>8 DEF Emptied
<1>10. Ended(s, lives) => Ended(t, lives)
  BY <1>2 DEF Ended, Flags
<1>11. Endable(s, lives) => Endable(t, lives)
  BY <1>2, <1>10 DEF Endable, Flags
<1> QED
  BY <1>1, <1>2, <1>5, <1>9, <1>10, <1>11

LEMMA DestroyedOK ==
    ASSUME NEW s \in SessType, NEW h \in Seq(Nat), SessOK(s, h), NEW lives,
           Endable(s, lives), \A i \in DOMAIN s.writes : s.writes[i].fails
    PROVE  LET t == Destroyed(s)
           IN  /\ t \in SessType /\ SessOK(t, h) /\ Emptied(s, t)
               /\ Ended(t, lives) /\ t.destroyed
               /\ \A i \in DOMAIN t.writes : t.writes[i].fails
<1>1. PICK t : t = Destroyed(s)
  OBVIOUS
<1>2. CASE s.destroyed
  <2>1. t = s
    BY <1>1, <1>2 DEF Destroyed
  <2>2. Emptied(s, s)
    <3>1. SameReplies(s, s)
      BY DEF SameReplies
    <3> QED
      BY <3>1 DEF Emptied, Quietly
  <2> QED
    BY <1>1, <1>2, <2>1, <2>2 DEF Endable
<1>3. CASE ~s.destroyed
  <2>1. /\ t \in SessType /\ t.socket = s.socket /\ t.destroyed
        /\ t.racing = (s.row = "inserting" \/ s.calls # << >>)
        /\ t.row = s.row /\ t.openings = s.openings
        /\ t.chans = << >> /\ Open(t) = {} /\ t.writes = s.writes
        /\ t.workSelection = s.workSelection /\ ~t.stream
        /\ Jobs(s, t) /\ SameShares(s, t) /\ t.forgot = s.forgot
        /\ t.mode = s.mode
    BY <1>1, <1>3, DestroyedEffect
  <2>2. \/ s.row # "have" /\ t.calls = s.calls
        \/ /\ s.row = "have" /\ t.calls # << >>
           /\ DOMAIN s.calls = 1..Len(s.calls) /\ Len(s.calls) \in Nat
           /\ DOMAIN t.calls = 1 .. Len(s.calls) + 1
           /\ \A k \in DOMAIN s.calls : t.calls[k] = s.calls[k]
           /\ t.calls[Len(s.calls) + 1] = [at |-> "delete", share |-> 0]
    BY <1>1, <1>3, DestroyedEffect
  <2>3. SameTasks(s, t) /\ SameReplies(s, t) /\ \E f : Renamed(s, t, f)
    BY <2>1, SameWrites
  <2>4. RowOK(s)
    BY DEF SessOK
  <2>5. Fewer(s, t)
    BY <2>1, <2>2, <2>3, <2>4 DEF Fewer, Jobs, SameShares, RowOK
  <2>6. SessOK(t, h)
    BY <2>1, <2>5, FewerOK
  <2>7. /\ \A k \in DOMAIN s.calls : k \in DOMAIN t.calls /\ t.calls[k] = s.calls[k]
        /\ \A k \in DOMAIN t.calls : t.calls[k].at # "delete" =>
              k \in DOMAIN s.calls /\ t.calls[k] = s.calls[k]
    BY <2>2
  <2>8. Quietly(s, t)
    BY <2>1, <2>3, <2>7 DEF Quietly, SameShares
  <2>9. \A m \in Nat : Known(s, m) => Known(t, m)
    BY <2>1, <2>3 DEF Known, SameTasks
  <2>10. ~s.racing
    BY <1>3 DEF Endable
  <2>11. Emptied(s, t)
    BY <2>1, <2>8, <2>9, <2>10 DEF Emptied
  <2>12. ASSUME ~t.racing, NEW k \in DOMAIN t.calls PROVE t.calls[k].at = "delete"
    <3>1. s.calls = << >> /\ s.row # "inserting"
      BY <2>1, <2>12
    <3>2. DOMAIN s.calls = {}
      BY <3>1, NoChans
    <3> QED
      BY <2>7, <2>12, <3>2
  <2>13. Ended(t, lives)
    <3>1. lives => s.row = "have" /\ t.calls # << >>
      BY <2>2 DEF Endable
    <3>2. ~t.racing => s.row # "inserting"
      BY <2>1
    <3> QED
      BY <2>1, <2>12, <3>1, <3>2 DEF Ended
  <2> QED
    BY <1>1, <2>1, <2>6, <2>11, <2>13
<1> QED
  BY <1>2, <1>3

LEMMA EmptiedTwice ==
    ASSUME NEW s \in SessType, NEW t \in SessType, NEW u \in SessType,
           Emptied(s, t), Emptied(t, u)
    PROVE  Emptied(s, u)
<1>1. Quietly(s, u)
  BY QuietlyTwice DEF Emptied
<1> QED
  BY <1>1 DEF Emptied

LEMMA ClosedOK ==
    ASSUME NEW s \in SessType, NEW h \in Seq(Nat), SessOK(s, h), NEW lives,
           Endable(s, lives),
           s.socket = "destroyed" => \A i \in DOMAIN s.writes : s.writes[i].fails
    PROVE  LET t == Closed(s)
           IN  /\ t \in SessType /\ SessOK(t, h) /\ Emptied(s, t)
               /\ Ended(t, lives) /\ t.destroyed
               /\ \A i \in DOMAIN t.writes : t.writes[i].fails
<1>1. PICK r : r = IF s.socket = "open" THEN Torn(s) ELSE s
  OBVIOUS
<1>2. /\ r \in SessType /\ SessOK(r, h) /\ Emptied(s, r) /\ Endable(r, lives)
      /\ \A i \in DOMAIN r.writes : r.writes[i].fails
  <2>1. CASE s.socket = "open"
    <3>1. r = Torn(s)
      BY <1>1, <2>1
    <3> QED
      BY <3>1, TornOK
  <2>2. CASE s.socket # "open"
    <3>1. s.socket = "destroyed" /\ r = s
      BY <1>1, <2>2 DEF SessType, Sockets
    <3>2. SameReplies(s, s)
      BY DEF SameReplies
    <3> QED
      BY <3>1, <3>2 DEF Emptied, Quietly
  <2> QED
    BY <2>1, <2>2
<1>3. Closed(s) = Destroyed(r)
  BY <1>1 DEF Closed
<1>4. PICK t : t = Destroyed(r)
  OBVIOUS
<1>5. /\ t \in SessType /\ SessOK(t, h) /\ Emptied(r, t)
      /\ Ended(t, lives) /\ t.destroyed
      /\ \A i \in DOMAIN t.writes : t.writes[i].fails
  BY <1>2, <1>4, DestroyedOK
<1>6. Emptied(s, t)
  BY <1>2, <1>5, EmptiedTwice
<1> QED
  BY <1>3, <1>4, <1>5, <1>6

-----------------------------------------------------------------------------
(* What the handlers of messages do.                                        *)

LEMMA ReadOK ==
    ASSUME NEW s \in SessType, NEW h \in Seq(Nat), SessOK(s, h), NEW lives, Ended(s, lives)
    PROVE  LET t == Read(s)
           IN  /\ t \in SessType /\ SessOK(t, h) /\ Emptied(s, t) /\ Ended(t, lives)
               /\ t.destroyed = s.destroyed /\ (t.destroyed => t.racing)
               /\ t.chans = s.chans /\ Open(t) = Open(s) /\ t.writes = s.writes /\ t.row = s.row
               /\ t.socket = s.socket /\ t.diff = s.diff /\ t.openings = s.openings
               /\ t.calls = s.calls /\ t.workSelection = s.workSelection
               /\ Flags(s, t) /\ Jobs(s, t) /\ SameShares(s, t) /\ t.forgot = s.forgot
<1>1. PICK x \in BOOLEAN : x = (s.racing \/ s.destroyed)
  <2>1. (s.racing \/ s.destroyed) \in BOOLEAN
    OBVIOUS
  <2> QED
    BY <2>1, Zenon
<1>2. PICK m \in Nat : m = s.msgs + 1
  BY DEF SessType
<1>3. PICK t : t = [s EXCEPT !.msgs = m, !.racing = x]
  OBVIOUS
<1>4. t = Read(s)
  BY <1>1, <1>2, <1>3 DEF Read
<1>5. /\ t \in SessType /\ t.racing = x /\ t.destroyed = s.destroyed
      /\ t.chans = s.chans /\ t.writes = s.writes /\ t.row = s.row
      /\ t.socket = s.socket /\ t.diff = s.diff /\ t.openings = s.openings
      /\ t.calls = s.calls /\ t.workSelection = s.workSelection /\ t.mode = s.mode
      /\ Flags(s, t) /\ Jobs(s, t) /\ SameShares(s, t) /\ t.forgot = s.forgot
  BY ONLY s \in SessType, x \in BOOLEAN, m \in Nat, <1>3, ZenonT(60)
     DEF SessType, Flags, Jobs, SameShares
<1>6. SameTasks(s, t) /\ SameReplies(s, t) /\ Open(t) = Open(s) /\ \E f : Renamed(s, t, f)
  BY <1>5, SameWrites DEF Open
<1>7. Fewer(s, t)
  BY <1>5, <1>6, SameWeaker DEF Fewer, Flags, Jobs, SameShares, SessOK, RowOK
<1>8. SessOK(t, h)
  BY <1>5, <1>7, FewerOK
<1>9. Quietly(s, t)
  BY <1>5, <1>6, SameCalls
<1>10. \A n \in Nat : Known(s, n) => Known(t, n)
  BY <1>5, <1>6 DEF Known, SameTasks
<1>11. (s.racing => t.racing) /\ (t.destroyed => t.racing) /\ (~s.destroyed => ~t.racing)
  BY <1>1, <1>5 DEF Ended
<1>12. Emptied(s, t)
  BY <1>5, <1>6, <1>9, <1>10, <1>11 DEF Emptied
<1>13. Ended(t, lives)
  BY <1>5, <1>6, <1>11 DEF Ended, Flags
<1> QED
  BY <1>4, <1>5, <1>6, <1>8, <1>11, <1>12, <1>13

(* Frames that tell of opened channels.                                     *)
LEMMA ToldAllOK ==
    ASSUME NEW s \in SessType, NEW t \in SessType, NEW h \in Seq(Nat),
           SessOK(s, h), t.row = "have", s.row = "have", t.openings = s.openings,
           t.stream = s.stream, t.calls = s.calls, Jobs(s, t), SameShares(s, t),
           t.forgot = s.forgot, t.chans = s.chans,
           \A i \in DOMAIN s.writes : i \in DOMAIN t.writes /\ Task(t, i) = Task(s, i),
           \A i \in DOMAIN t.writes : i \in DOMAIN s.writes \/ Task(t, i).at = "opened"
    PROVE  SessOK(t, h) /\ SameReplies(s, t)
<1>2. Open(t) = Open(s)
  BY DEF Open
<1>3. RowOK(t)
  BY <1>2 DEF RowOK, SessOK
<1>4. ToldOK(t)
  BY <1>2 DEF ToldOK, SessOK, Told
<1>5. Counted(t)
  BY <1>2 DEF Counted, SessOK, Jobs, SameShares
<1>6. Apart(t)
  <2>1. ASSUME NEW i \in DOMAIN t.writes, Unrecorded(t, i)
        PROVE  Unused(t, Task(t, i).n)
    <3>1. i \in DOMAIN s.writes /\ Unrecorded(s, i) /\ Task(t, i) = Task(s, i)
      BY <1>2, <2>1 DEF Unrecorded, Extended
    <3> QED
      BY <1>2, <3>1 DEF SessOK, Apart, Unused, SameShares
  <2>2. ASSUME NEW i \in DOMAIN t.writes, NEW j \in DOMAIN t.writes,
               Task(t, i).at = "job", Task(t, j).at = "job", i # j
        PROVE  Task(t, i).n # Task(t, j).n
    BY <2>2 DEF SessOK, Apart
  <2> QED
    BY <1>2, <2>1, <2>2 DEF SessOK, Apart
<1>7. Remembered(t)
  BY <1>2 DEF SessOK, Remembered, SameShares
<1>8. CurrentOK(t, h)
  BY <1>2 DEF SessOK, CurrentOK, Current, SameShares
<1>9. SameReplies(s, t)
  BY DEF SameReplies
<1> QED
  BY <1>3, <1>4, <1>5, <1>6, <1>7, <1>8, <1>9 DEF SessOK

(* The row is there, and the openings that waited for it go on.             *)
LEMMA OpenAllOK ==
    ASSUME NEW s \in SessType, NEW h \in Seq(Nat), SessOK(s, h), s.row = "inserting",
           Ended(s, FALSE)
    PROVE  LET t == OpenAll([s EXCEPT !.row = "have"])
           IN  /\ t \in SessType /\ SessOK(t, h) /\ Quietly(s, t) /\ Ended(t, TRUE)
               /\ Open(t) = Open(s) /\ t.racing = s.racing
               /\ \A ch \in Open(s) : t.chans[ch].type = s.chans[ch].type
               /\ \A m \in Nat : Known(s, m) => Known(t, m)
<1>1. PICK x : x = [ch \in Open(s) |->
                      [s.chans[ch] EXCEPT !.told = IF \E o \in Range(s.openings) : o.ch = ch
                                                   THEN s.chans[ch].told \cup {s.chans[ch].diff}
                                                   ELSE s.chans[ch].told]]
  OBVIOUS
<1>2. PICK opened : opened = [k \in DOMAIN s.openings |->
                                [task |-> [at |-> "opened", ch |-> s.openings[k].ch,
                                           first |-> s.openings[k].first],
                                 fails |-> FALSE]]
  OBVIOUS
<1>3. /\ s.openings \in Seq(OpeningType) /\ DOMAIN s.openings = 1..Len(s.openings)
      /\ Len(s.openings) \in Nat /\ \A k \in DOMAIN s.openings : s.openings[k] \in OpeningType
  <2>1. s.openings \in Seq(OpeningType)
    BY DEF SessType
  <2> QED
    BY <2>1, LenProperties, ElementOfSeq
<1>4. \A k \in DOMAIN s.openings :
         /\ opened[k] \in WriteType /\ opened[k].task.at = "opened"
         /\ opened[k].task.ch = s.openings[k].ch
  BY <1>2, <1>3 DEF WriteType, TaskType, OpenedTask, OpeningType
<1>5. opened \in Seq(WriteType) /\ DOMAIN opened = DOMAIN s.openings
  <2>1. opened \in [1..Len(s.openings) -> WriteType]
    BY <1>2, <1>3, <1>4
  <2> QED
    BY <1>2, <1>3, <2>1, SeqDef
<1>6. \A ch \in Open(s) : \E o \in Range(s.openings) : o.ch = ch
  BY DEF SessOK, RowOK, Range
<1>7. ASSUME NEW ch \in Open(s)
      PROVE  x[ch] \in ChanType /\ Retold(s.chans[ch], x[ch])
  <2>1. s.chans[ch] \in ChanType /\ s.chans[ch].diff \in Nat
    BY ChansOf DEF ChanType
  <2>2. x[ch] = [s.chans[ch] EXCEPT !.told = @ \cup {s.chans[ch].diff}]
    BY <1>1, <1>6
  <2> QED
    BY <2>1, <2>2, RetoldChan
<1>8. x \in ChansType /\ DOMAIN x = Open(s)
  <2>1. DOMAIN x = Open(s) /\ Open(s) \in SUBSET Nat
    BY <1>1, ChansOf
  <2>2. x \in [Open(s) -> ChanType]
    BY <1>1, <1>7
  <2> QED
    BY <2>1, <2>2, IsChans
<1>9. /\ s.writes \in Seq(WriteType) /\ DOMAIN s.writes = 1..Len(s.writes)
      /\ Len(s.writes) \in Nat /\ << >> \in Seq(OpeningType)
  BY WritesTyped, EmptySeq
<1>10. PICK q \in Seq(WriteType) : q = s.writes \o opened
  BY <1>5, <1>9, ConcatProperties
<1>11. /\ \A i \in DOMAIN s.writes : i \in DOMAIN q /\ q[i] = s.writes[i]
       /\ \A i \in DOMAIN q : \/ i \in DOMAIN s.writes
                              \/ \E k \in DOMAIN s.openings : q[i] = opened[k]
  <2>1. Len(opened) = Len(s.openings) /\ DOMAIN opened = 1..Len(opened)
    BY <1>3, <1>5, LenProperties
  <2>2. /\ Len(q) = Len(s.writes) + Len(opened) /\ DOMAIN q = 1..Len(q)
        /\ \A i \in 1 .. Len(s.writes) + Len(opened) :
              q[i] = IF i <= Len(s.writes) THEN s.writes[i] ELSE opened[i - Len(s.writes)]
    BY <1>5, <1>9, <1>10, ConcatProperties, LenProperties
  <2>5. PICK a \in Nat, b \in Nat : a = Len(s.writes) /\ b = Len(opened)
    BY <1>3, <1>9, <2>1
  <2>6. /\ DOMAIN q = 1 .. a + b /\ DOMAIN s.writes = 1..a /\ DOMAIN s.openings = 1..b
        /\ \A i \in 1 .. a + b : q[i] = IF i <= a THEN s.writes[i] ELSE opened[i - a]
    BY <1>3, <1>9, <2>1, <2>2, <2>5
  <2>3. \A i \in DOMAIN s.writes : i \in DOMAIN q /\ q[i] = s.writes[i]
    BY ONLY <2>6, a \in Nat, b \in Nat
  <2>4. ASSUME NEW i \in DOMAIN q, i \notin DOMAIN s.writes
        PROVE  \E k \in DOMAIN s.openings : q[i] = opened[k]
    <3>1. i - a \in 1..b /\ q[i] = opened[i - a]
      BY ONLY <2>4, <2>6, a \in Nat, b \in Nat, i \in DOMAIN q
    <3> QED
      BY <2>6, <3>1
  <2> QED
    BY <2>3, <2>4
<1>12. PICK r : r = [s EXCEPT !.row = "have", !.chans = x, !.openings = << >>]
  OBVIOUS
<1>13. PICK t : t = [s EXCEPT !.row = "have", !.chans = x, !.writes = q, !.openings = << >>]
  OBVIOUS
<1>14. t = OpenAll([s EXCEPT !.row = "have"])
  <2>1. PICK u : u = [s EXCEPT !.row = "have"]
    OBVIOUS
  <2>2. /\ u.chans = s.chans /\ u.openings = s.openings /\ u.writes = s.writes
        /\ \A y, w, o : [u EXCEPT !.chans = y, !.writes = w, !.openings = o]
                        = [s EXCEPT !.row = "have", !.chans = y, !.writes = w, !.openings = o]
    BY ONLY s \in SessType, <2>1, ZenonT(60) DEF SessType
  <2>3. Open(u) = Open(s)
    BY <2>2 DEF Open
  <2>4. OpenAll(u) = [u EXCEPT !.chans = x, !.writes = q, !.openings = << >>]
    <3>1. [ch \in Open(u) |->
             [u.chans[ch] EXCEPT !.told = IF \E o \in Range(u.openings) : o.ch = ch
                                          THEN u.chans[ch].told \cup {u.chans[ch].diff}
                                          ELSE u.chans[ch].told]] = x
      BY <1>1, <2>2, <2>3
    <3>2. [k \in DOMAIN u.openings |->
             [task |-> [at |-> "opened", ch |-> u.openings[k].ch,
                        first |-> u.openings[k].first],
              fails |-> FALSE]] = opened
      BY <1>2, <2>2
    <3>3. u.writes \o opened = q
      BY <1>10, <2>2
    <3> QED
      BY <3>1, <3>2, <3>3 DEF OpenAll
  <2> QED
    BY <1>13, <2>1, <2>2, <2>4
<1>15. /\ r \in SessType /\ r.row = "have" /\ r.openings = << >> /\ r.chans = x
       /\ r.writes = s.writes /\ r.calls = s.calls /\ r.forgot = s.forgot
       /\ Flags(s, r) /\ Jobs(s, r) /\ SameShares(s, r)
  BY ONLY s \in SessType, <1>8, <1>9, <1>12, ZenonT(60)
     DEF SessType, Flags, Jobs, SameShares, RowStates
<1>16. /\ t \in SessType /\ t.row = "have" /\ t.openings = << >> /\ t.chans = x
       /\ t.writes = q /\ t.calls = s.calls /\ t.forgot = s.forgot /\ t.mode = s.mode
       /\ t.racing = s.racing /\ t.destroyed = s.destroyed /\ t.workSelection = s.workSelection
       /\ Flags(s, t) /\ Jobs(s, t) /\ SameShares(s, t)
  BY ONLY s \in SessType, q \in Seq(WriteType), <1>8, <1>9, <1>13, ZenonT(60)
     DEF SessType, Flags, Jobs, SameShares, RowStates
<1>17. Open(r) = Open(s) /\ Open(t) = Open(s)
  BY <1>8, <1>15, <1>16 DEF Open
<1>18. SessOK(r, h)
  <2>1. SameTasks(s, r)
    BY <1>15, SameWrites
  <2>2. \A ch \in Open(s) : Retold(s.chans[ch], r.chans[ch])
    BY <1>7, <1>15
  <2>3. r.stream = s.stream
    BY <1>15 DEF Flags
  <2> QED
    BY <1>15, <1>17, <2>1, <2>2, <2>3, RetoldOK
<1>19. SessOK(t, h) /\ SameReplies(r, t)
  <2>1. \A i \in DOMAIN r.writes : i \in DOMAIN t.writes /\ Task(t, i) = Task(r, i)
    BY <1>11, <1>15, <1>16 DEF Task
  <2>2. \A i \in DOMAIN t.writes : i \in DOMAIN r.writes \/ Task(t, i).at = "opened"
    BY <1>4, <1>11, <1>15, <1>16 DEF Task
  <2>3. t.stream = r.stream /\ Jobs(r, t) /\ SameShares(r, t)
    BY <1>15, <1>16 DEF Flags, Jobs, SameShares
  <2> QED
    BY <1>15, <1>16, <1>18, <2>1, <2>2, <2>3, ToldAllOK
<1>20. SameReplies(s, t)
  BY <1>15, <1>19 DEF SameReplies, Task
<1>21. Quietly(s, t)
  BY <1>16, <1>20, SameCalls
<1>22. Ended(t, TRUE)
  BY <1>16 DEF Ended, Flags
<1>23. \A ch \in Open(s) : t.chans[ch].type = s.chans[ch].type
  BY <1>7, <1>16 DEF Retold
<1>24. ASSUME NEW m \in Nat, Known(s, m) PROVE Known(t, m)
  <2>1. \A i \in DOMAIN t.writes : Task(t, i).at \in {"opened", "job"} => Task(t, i).ch < m
    BY <1>4, <1>11, <1>16, <1>24 DEF Known, Task
  <2>2. DOMAIN << >> = {}
    BY NoChans
  <2> QED
    BY <1>16, <1>17, <1>24, <2>1, <2>2 DEF Known
<1> QED
  BY <1>14, <1>16, <1>17, <1>19, <1>21, <1>22, <1>23, <1>24

LEMMA ClampNat ==
    ASSUME NEW d \in Nat
    PROVE  Clamp(d) \in Nat
<1>1. MinDifficulty \in Nat
  BY StratumV2SessionAssumption
<1>2. \E x \in {d, MinDifficulty} : \A y \in {d, MinDifficulty} : x >= y
  BY <1>1
<1> QED
  BY <1>1, <1>2 DEF Clamp, Max

NewOne(type, d, told) == [NewChannel(type, d) EXCEPT !.told = told]

LEMMA NewChannelEffect ==
    ASSUME NEW type \in {"standard", "extended"}, NEW d \in Nat
    PROVE  LET b == NewChannel(type, d)
           IN  /\ b \in ChanType /\ b.type = type /\ b.diff = d /\ b.held = {} /\ b.on = 0
               /\ b.told = {}
<1>1. 0 \in 0..MaxTemplates
  BY StratumV2SessionAssumption
<1>2. PICK b : b = [type |-> type, diff |-> d, held |-> {}, on |-> 0, hashes |-> {},
                    told |-> {}, sent |-> {}, works |-> 0, prev |-> 0]
  OBVIOUS
<1>3. b = NewChannel(type, d)
  BY <1>2 DEF NewChannel
<1>4. b \in ChanType
  BY <1>1, <1>2 DEF ChanType
<1> QED
  BY <1>2, <1>3, <1>4

LEMMA NewOneEffect ==
    ASSUME NEW type \in {"standard", "extended"}, NEW d \in Nat, NEW told \in SUBSET Nat
    PROVE  LET b == NewOne(type, d, told)
           IN  /\ b \in ChanType /\ b.type = type /\ b.diff = d /\ b.held = {} /\ b.on = 0
               /\ b.told = told
<1>1. 0 \in 0..MaxTemplates
  BY StratumV2SessionAssumption
<1>2. PICK b : b = [type |-> type, diff |-> d, held |-> {}, on |-> 0, hashes |-> {},
                    told |-> told, sent |-> {}, works |-> 0, prev |-> 0]
  OBVIOUS
<1>3. b = NewOne(type, d, told)
  BY <1>2 DEF NewOne, NewChannel
<1>4. b \in ChanType
  BY <1>1, <1>2 DEF ChanType
<1> QED
  BY <1>2, <1>3, <1>4

(* A session with another channel.                                          *)
Wider(s, chans, ch) ==
    /\ DOMAIN chans = Open(s) \cup {ch} /\ chans \in ChansType
    /\ \A d \in Open(s) : chans[d] = s.chans[d]

LEMMA WiderChans ==
    ASSUME NEW s \in SessType, NEW ch \in Nat \ Open(s), NEW chan \in ChanType
    PROVE  LET chans == [d \in Open(s) \cup {ch} |-> IF d = ch THEN chan ELSE s.chans[d]]
           IN  Wider(s, chans, ch) /\ chans[ch] = chan
<1>1. PICK chans : chans = [d \in Open(s) \cup {ch} |-> IF d = ch THEN chan ELSE s.chans[d]]
  OBVIOUS
<1>2. PICK D \in SUBSET Nat : D = Open(s) \cup {ch}
  BY ChansOf
<1>3. /\ DOMAIN chans = D /\ chans[ch] = chan /\ \A d \in Open(s) : chans[d] = s.chans[d]
      /\ chans \in [D -> ChanType]
  BY <1>1, <1>2, ChansOf
<1>4. chans \in ChansType
  BY <1>3, IsChans
<1> QED
  BY <1>1, <1>2, <1>3, <1>4 DEF Wider

(* What holds of a session whose channel was opened.                        *)
WithOne(s, t, ch, type) ==
    /\ Quietly(s, t)
    /\ Open(t) \subseteq Open(s) \cup {ch}
    /\ \A d \in Open(t) : d # ch => t.chans[d].type = s.chans[d].type
    /\ ch \in Open(t) => t.chans[ch].type = type
    /\ ch \in Open(t) \/ t.racing
    /\ s.racing => t.racing

LEMMA WithChannelOK ==
    ASSUME NEW s \in SessType, NEW h \in Seq(Nat), SessOK(s, h), NEW lives,
           Ended(s, lives), s.destroyed => s.racing,
           s.socket = "destroyed" => \A i \in DOMAIN s.writes : s.writes[i].fails,
           nextChannel \in Nat \ {0}, Known(s, nextChannel),
           NEW type \in {"standard", "extended"}, NEW d \in Nat
    PROVE  LET t == WithChannel(s, type, d)
           IN  /\ t \in SessType /\ SessOK(t, h) /\ Ended(t, lives)
               /\ WithOne(s, t, nextChannel, type)
               /\ Known(t, nextChannel + 1)
<1> DEFINE ch == nextChannel
<1>1. PICK diff \in Nat : diff = Clamp(IF d = 0 THEN s.diff ELSE d)
  <2>1. (IF d = 0 THEN s.diff ELSE d) \in Nat
    BY DEF SessType
  <2> QED
    BY <2>1, ClampNat
<1>2. ch \in Nat /\ ch \notin Open(s)
  BY DEF Known
<1>3. PICK first \in BOOLEAN : first = (Open(s) = {})
  <2>1. (Open(s) = {}) \in BOOLEAN
    OBVIOUS
  <2> QED
    BY <2>1, Zenon
<1>4. PICK u : u = [s EXCEPT !.diff = diff,
                       !.chans = [d2 \in Open(s) \cup {nextChannel} |->
                           IF d2 = nextChannel THEN NewChannel(type, diff) ELSE @[d2]]]
  OBVIOUS
<1>5. WithChannel(s, type, d) = EnsureRow(u, ch, first)
  BY <1>1, <1>3, <1>4 DEF WithChannel
<1>6. PICK t : t = WithChannel(s, type, d)
  OBVIOUS
<1>7. PICK x : x = [d2 \in Open(s) \cup {ch} |->
                      IF d2 = ch THEN NewChannel(type, diff) ELSE s.chans[d2]]
  OBVIOUS
<1>8. PICK new : new = NewChannel(type, diff)
  OBVIOUS
<1>9. /\ new \in ChanType /\ new = NewChannel(type, diff)
      /\ new.type = type /\ new.diff = diff /\ new.held = {}
      /\ new.on = 0 /\ new.told = {}
  <2>1. LET b == NewChannel(type, diff)
        IN  /\ b \in ChanType /\ b.type = type /\ b.diff = diff /\ b.held = {} /\ b.on = 0
            /\ b.told = {}
    BY NewChannelEffect
  <2> QED
    BY <1>8, <2>1
<1>10. Wider(s, x, ch) /\ x[ch] = new
  BY <1>2, <1>7, <1>9, WiderChans
<1>11. u = [s EXCEPT !.diff = diff, !.chans = x]
  BY <1>4, <1>7
<1>12. x \in ChansType
  BY <1>10 DEF Wider
<1>13. /\ u \in SessType /\ u.chans = x /\ u.writes = s.writes /\ u.row = s.row
       /\ u.socket = s.socket /\ u.openings = s.openings /\ u.destroyed = s.destroyed
       /\ u.racing = s.racing /\ u.calls = s.calls /\ u.workSelection = s.workSelection
       /\ u.mode = s.mode /\ u.forgot = s.forgot
       /\ Flags(s, u) /\ Jobs(s, u) /\ SameShares(s, u)
  BY ONLY s \in SessType, diff \in Nat, <1>11, <1>12, ZenonT(60)
     DEF SessType, Flags, Jobs, SameShares
<1>14. /\ Open(u) = Open(s) \cup {ch} /\ u.chans[ch] = new
       /\ \A e \in Open(s) : u.chans[e] = s.chans[e]
  BY <1>10, <1>13 DEF Open, Wider
<1>15. /\ SameTasks(s, u) /\ SameReplies(s, u)
  BY <1>13, SameWrites
<1>16. Quietly(s, u)
  BY <1>13, <1>15, SameCalls
<1>17. \A i \in DOMAIN s.writes : Task(s, i).at = "job" => Task(s, i).ch # ch
  <2> SUFFICES ASSUME NEW i \in DOMAIN s.writes, Task(s, i).at = "job", Task(s, i).ch = ch
               PROVE  FALSE
    OBVIOUS
  <2>1. Task(s, i).ch < ch
    BY DEF Known
  <2> QED
    BY <1>2, <2>1
<1>18. Known(s, ch + 1) /\ ch \in 1 .. (ch + 1) - 1
  <2>1. /\ \A i \in DOMAIN s.writes : Task(s, i).at \in {"opened", "job"} => Task(s, i).ch < ch + 1
    <3> SUFFICES ASSUME NEW i \in DOMAIN s.writes, Task(s, i).at \in {"opened", "job"}
                 PROVE  Task(s, i).ch < ch + 1
      OBVIOUS
    <3>1. Task(s, i).ch < ch
      BY DEF Known
    <3>2. Task(s, i).ch \in Nat
      BY WritesTyped DEF TaskType, JobTask, Act2Task, OpenedTask, TargetTask, ReplyTask
    <3> QED
      BY <1>2, <3>1, <3>2
  <2>2. \A k \in DOMAIN s.openings : s.openings[k].ch < ch + 1
    <3> SUFFICES ASSUME NEW k \in DOMAIN s.openings PROVE s.openings[k].ch < ch + 1
      OBVIOUS
    <3>1. s.openings[k].ch < ch
      BY DEF Known
    <3>2. s.openings \in Seq(OpeningType)
      BY DEF SessType
    <3>3. s.openings[k] \in OpeningType
      BY <3>2, ElementOfSeq, LenProperties
    <3>4. s.openings[k].ch \in Nat
      BY <3>3 DEF OpeningType
    <3> QED
      BY <1>2, <3>1, <3>4
  <2>3. Open(s) \subseteq 1 .. ch - 1
    BY DEF Known
  <2>4. Open(s) \subseteq 1 .. (ch + 1) - 1 /\ ch \in 1 .. (ch + 1) - 1
    BY <1>2, <2>3
  <2> QED
    BY <2>1, <2>2, <2>4 DEF Known
<1> HIDE DEF ch
<1>19. CASE s.row = "have"
  <2>1. PICK told \in SUBSET Nat : told = {diff}
    OBVIOUS
  <2>2. PICK chan \in ChanType : /\ chan = NewOne(type, diff, told)
                                 /\ chan.type = type /\ chan.diff = diff /\ chan.held = {}
                                 /\ chan.on = 0 /\ chan.told = told
    <3>1. PICK b : b = NewOne(type, diff, told)
      OBVIOUS
    <3>2. /\ b \in ChanType /\ b.type = type /\ b.diff = diff /\ b.held = {} /\ b.on = 0
          /\ b.told = told
      BY ONLY <3>1, NewOneEffect, type \in {"standard", "extended"}, diff \in Nat,
              told \in SUBSET Nat
    <3> QED
      BY <3>1, <3>2
  <2>3. chan = [u.chans[ch] EXCEPT !.told = @ \cup {u.chans[ch].diff}]
    <3>1. chan = [new EXCEPT !.told = told]
      BY <1>9, <2>2 DEF NewOne
    <3>2. told = new.told \cup {new.diff}
      BY <1>9, <2>1
    <3> QED
      BY <1>14, <3>1, <3>2
  <2>4. PICK r : r = With(u, ch, chan)
    OBVIOUS
  <2>5. /\ r \in SessType /\ Rest(u, r) /\ Flags(u, r) /\ Jobs(u, r)
        /\ r.writes = u.writes /\ Open(r) = Open(u) /\ r.chans[ch] = chan
        /\ \A e \in Open(u) : e # ch => r.chans[e] = u.chans[e]
    BY <1>13, <1>14, <2>4, WithEffect
  <2>6. /\ SameTasks(s, r) /\ SameReplies(s, r)
    BY <1>13, <2>5, SameWrites
  <2>7. SessOK(r, h)
    <3>1. /\ r.stream = s.stream /\ Jobs(s, r) /\ SameShares(s, r) /\ r.forgot = s.forgot
          /\ r.calls = s.calls /\ r.row = "have" /\ r.openings = s.openings
      BY <1>13, <1>19, <2>5 DEF Flags, Jobs, SameShares, Rest
    <3>2. /\ Open(r) = Open(s) \cup {ch} /\ \A e \in Open(s) : r.chans[e] = s.chans[e]
      BY <1>2, <1>14, <2>5
    <3>3. /\ r.chans[ch].held = {} /\ r.chans[ch].on = 0
          /\ r.chans[ch].type \in {"standard", "extended"}
          /\ r.chans[ch].diff \in r.chans[ch].told
      BY <2>1, <2>2, <2>5
    <3>4. ch \in Nat \ Open(s)
      BY <1>2
    <3> QED
      BY ONLY s \in SessType, h \in Seq(Nat), SessOK(s, h), <1>17, <1>19, <2>5, <2>6, <3>1, <3>2,
              <3>3, <3>4, OpenedOK
  <2>8. PICK task \in TaskType : task = [at |-> "opened", ch |-> ch, first |-> first]
    BY <1>2 DEF TaskType, OpenedTask
  <2>9. t = Write(r, task)
    <3>1. EnsureRow(u, ch, first) = OpenSuccess(u, ch, first)
      BY <1>13, <1>19 DEF EnsureRow
    <3>2. OpenSuccess(u, ch, first) = Write(r, task)
      BY <1>14, <2>3, <2>4, <2>8 DEF OpenSuccess
    <3>3. t = EnsureRow(u, ch, first)
      BY <1>5, <1>6 DEF ch
    <3> QED
      BY <3>1, <3>2, <3>3
  <2>10. r.row = "have"
    BY <1>13, <1>19, <2>5 DEF Rest
  <2>11. /\ t \in SessType /\ SessOK(t, h) /\ Grown(r, t)
         /\ \A m \in Nat : Known(r, m) /\ (task.at = "opened" => task.ch < m) => Known(t, m)
    BY <2>5, <2>7, <2>8, <2>9, <2>10, WrittenOK
  <2>12. Quietly(s, t)
    <3>1. Quietly(u, r)
      <4>1. Quietly(s, r)
        BY <1>13, <2>5, <2>6, SameCalls DEF SameShares, Rest
      <4>2. SameReplies(u, r)
        BY <2>5, SameWrites
      <4> QED
        BY <2>5, <4>2, SameCalls DEF Rest, SameShares
    <3>2. Quietly(r, t)
      BY <2>11, GrownQuietly
    <3>3. Quietly(s, r)
      BY <1>13, <1>16, <2>5, <3>1, QuietlyTwice
    <3> QED
      BY <2>5, <2>11, <3>2, <3>3, QuietlyTwice
  <2>13. /\ Open(t) = Open(s) \cup {ch} /\ \A e \in Open(s) : t.chans[e].type = s.chans[e].type
         /\ t.chans[ch].type = type
    BY <1>2, <1>14, <2>2, <2>5, <2>11 DEF Grown
  <2>14. /\ t.racing = s.racing /\ t.destroyed = s.destroyed /\ t.row = s.row
         /\ t.workSelection = s.workSelection /\ (t.stream => s.stream \/ ~s.workSelection)
    BY <1>13, <2>5, <2>11 DEF Grown, Rest, Flags
  <2>15. Ended(t, lives)
    BY <2>14 DEF Ended
  <2>16. Known(t, ch + 1)
    <3>1. Known(r, ch + 1)
      <4>1. r.openings = s.openings
        BY <1>13, <2>5 DEF Rest
      <4>2. Open(r) = Open(s) \cup {ch}
        BY <1>14, <2>5
      <4> QED
        BY <1>18, <2>6, <4>1, <4>2 DEF Known, SameTasks
    <3>2. task.ch < ch + 1 /\ ch + 1 \in Nat
      BY <1>2, <2>8
    <3> QED
      BY <2>11, <3>1, <3>2
  <2>17. WithOne(s, t, ch, type)
    BY <2>12, <2>13, <2>14 DEF WithOne
  <2> QED
    BY <1>6, <2>11, <2>15, <2>16, <2>17 DEF ch
<1>20. CASE s.row = "failed"
  <2>1. SessOK(u, h)
    <3>1. /\ u.chans[ch].held = {} /\ u.chans[ch].on = 0
          /\ u.chans[ch].type \in {"standard", "extended"} /\ u.chans[ch].told = {}
      BY <1>9, <1>14
    <3>2. u.stream = s.stream
      BY <1>13 DEF Flags
    <3>3. ch \in Nat \ Open(s)
      BY <1>2
    <3> QED
      BY ONLY s \in SessType, h \in Seq(Nat), SessOK(s, h), <1>13, <1>14, <1>15, <1>17, <1>20,
              <3>1, <3>2, <3>3, OpenedOK
  <2>2. s.destroyed /\ s.racing
    BY <1>20 DEF Ended
  <2>3. Endable(u, lives)
    BY <1>13, <2>2 DEF Endable, Ended, Flags
  <2>4. t = Closed(u)
    BY <1>5, <1>6, <1>13, <1>20 DEF EnsureRow, ch
  <2>5. u.socket = "destroyed" => \A i \in DOMAIN u.writes : u.writes[i].fails
    BY <1>13
  <2>6. /\ t \in SessType /\ SessOK(t, h) /\ Emptied(u, t) /\ Ended(t, lives)
    BY <1>13, <2>1, <2>3, <2>4, <2>5, ClosedOK
  <2>7. Quietly(s, t)
    BY <1>13, <1>16, <2>6, QuietlyTwice DEF Emptied
  <2>8. Known(u, ch + 1)
    BY <1>13, <1>14, <1>15, <1>18 DEF Known, SameTasks
  <2>9. Known(t, ch + 1)
    BY <1>2, <2>6, <2>8 DEF Emptied
  <2>10. WithOne(s, t, ch, type)
    BY <1>9, <1>13, <1>14, <2>2, <2>6, <2>7 DEF WithOne, Emptied
  <2> QED
    BY <1>6, <2>6, <2>9, <2>10 DEF ch
<1>21. CASE s.row \in {"none", "inserting"}
  <2>1. PICK o \in OpeningType : o = [ch |-> ch, first |-> first]
    BY <1>2 DEF OpeningType
  <2>2. s.openings \in Seq(OpeningType)
    BY DEF SessType
  <2>3. PICK q \in Seq(OpeningType) : q = Append(s.openings, o)
    BY <2>2, AppendProperties
  <2>4. t = [u EXCEPT !.row = "inserting", !.openings = q]
    <3>1. EnsureRow(u, ch, first) = [u EXCEPT !.row = "inserting", !.openings = Append(@, o)]
      BY <1>13, <1>21, <2>1 DEF EnsureRow
    <3>2. t = EnsureRow(u, ch, first)
      BY <1>5, <1>6 DEF ch
    <3> QED
      BY <1>13, <2>3, <3>1, <3>2
  <2>5. u \in SessType
    BY <1>13
  <2>6. /\ t \in SessType /\ t.chans = u.chans /\ t.writes = u.writes /\ t.row = "inserting"
        /\ t.openings = q /\ t.destroyed = u.destroyed
        /\ t.racing = u.racing /\ t.calls = u.calls /\ t.workSelection = u.workSelection
        /\ t.mode = u.mode /\ t.forgot = u.forgot
        /\ Flags(u, t) /\ Jobs(u, t) /\ SameShares(u, t)
    BY ONLY <2>5, q \in Seq(OpeningType), <2>4, ZenonT(60)
       DEF SessType, Flags, Jobs, SameShares, RowStates
  <2>7. /\ Open(t) = Open(s) \cup {ch} /\ t.chans[ch] = new
        /\ \A e \in Open(s) : t.chans[e] = s.chans[e]
    BY <1>14, <2>6 DEF Open
  <2>8. /\ SameTasks(s, t) /\ SameReplies(s, t)
    BY <1>13, <2>6, SameWrites
  <2>9. /\ t.stream = s.stream /\ Jobs(s, t) /\ SameShares(s, t) /\ t.forgot = s.forgot
        /\ t.calls = s.calls /\ t.mode = s.mode
    BY <1>13, <2>6 DEF Flags, Jobs, SameShares
  <2>10. SessOK(t, h)
    <3>1. /\ t.chans[ch].held = {} /\ t.chans[ch].on = 0
          /\ t.chans[ch].type \in {"standard", "extended"} /\ t.chans[ch].told = {}
      BY <1>9, <2>7
    <3>2. \E f \in BOOLEAN : t.openings = Append(s.openings, [ch |-> ch, first |-> f])
      BY <2>1, <2>3, <2>6
    <3>3. ch \in Nat \ Open(s)
      BY <1>2
    <3> QED
      BY ONLY s \in SessType, h \in Seq(Nat), SessOK(s, h), <1>17, <1>21, <2>6, <2>7, <2>8, <2>9,
              <3>1, <3>2, <3>3, OpenedOK
  <2>11. Quietly(s, t)
    BY <2>8, <2>9, SameCalls
  <2>12. /\ t.racing = s.racing /\ t.destroyed = s.destroyed
         /\ t.workSelection = s.workSelection
    BY <1>13, <2>6
  <2>13. Ended(t, lives)
    BY <1>21, <2>6, <2>9, <2>12 DEF Ended
  <2>14. Known(t, ch + 1)
    <3>1. /\ DOMAIN s.openings = 1..Len(s.openings) /\ Len(s.openings) \in Nat
          /\ DOMAIN q = 1 .. Len(s.openings) + 1
          /\ \A j \in DOMAIN s.openings : q[j] = s.openings[j]
          /\ q[Len(s.openings) + 1] = o
      BY <2>1, <2>2, <2>3, AfterAppend
    <3>2. \A k \in DOMAIN q : k \in DOMAIN s.openings \/ k = Len(s.openings) + 1
      BY <3>1
    <3>3. o.ch < ch + 1
      BY <1>2, <2>1
    <3>4. \A k \in DOMAIN q : q[k].ch < ch + 1
      BY <1>18, <3>1, <3>2, <3>3 DEF Known
    <3> QED
      BY <1>18, <2>6, <2>7, <2>8, <3>4 DEF Known, SameTasks
  <2>15. WithOne(s, t, ch, type)
    BY <1>9, <2>7, <2>11, <2>12 DEF WithOne
  <2> QED
    BY <1>6, <2>6, <2>10, <2>13, <2>14, <2>15 DEF ch
<1>22. s.row \in {"none", "inserting", "have", "failed"}
  BY DEF SessType, RowStates
<1> QED
  BY <1>19, <1>20, <1>21, <1>22

(* The end of a chunk's frame. *)
LEMMA MoreEffect ==
    ASSUME NEW s \in SessType, NEW h \in Seq(Nat), SessOK(s, h), NEW lives
    PROVE  LET t == [s EXCEPT !.more = TRUE]
           IN  /\ t \in SessType /\ SessOK(t, h) /\ Emptied(s, t)
               /\ Ended(s, lives) => Ended(t, lives)
<1>1. PICK t : t = [s EXCEPT !.more = TRUE]
  OBVIOUS
<1>2. /\ t \in SessType /\ t.racing = s.racing /\ t.destroyed = s.destroyed
      /\ t.chans = s.chans /\ t.writes = s.writes /\ t.row = s.row /\ t.openings = s.openings
      /\ t.calls = s.calls /\ t.workSelection = s.workSelection /\ t.mode = s.mode
      /\ Flags(s, t) /\ Jobs(s, t) /\ SameShares(s, t) /\ t.forgot = s.forgot
  BY ONLY s \in SessType, <1>1, ZenonT(60) DEF SessType, Flags, Jobs, SameShares
<1>3. SameTasks(s, t) /\ SameReplies(s, t) /\ Open(t) = Open(s) /\ \E f : Renamed(s, t, f)
  BY <1>2, SameWrites DEF Open
<1>4. Fewer(s, t)
  BY <1>2, <1>3, SameWeaker DEF Fewer, Flags, Jobs, SameShares, SessOK, RowOK
<1>5. SessOK(t, h)
  BY <1>2, <1>4, FewerOK
<1>6. Quietly(s, t)
  BY <1>2, <1>3, SameCalls
<1>7. \A n \in Nat : Known(s, n) => Known(t, n)
  BY <1>2, <1>3 DEF Known, SameTasks
<1>8. Emptied(s, t)
  BY <1>2, <1>3, <1>6, <1>7 DEF Emptied
<1>9. Ended(s, lives) => Ended(t, lives)
  BY <1>2, <1>3 DEF Ended, Flags
<1> QED
  BY <1>1, <1>2, <1>5, <1>8, <1>9

(* A channel that was told something has a session with a row.              *)
LEMMA ToldHasRow ==
    ASSUME NEW s \in SessType, NEW h \in Seq(Nat), SessOK(s, h), NEW ch \in Open(s),
           s.chans[ch].told # {}
    PROVE  s.row = "have"
BY DEF SessOK, ToldOK, Told

(* A channel is closed. *)
LEMMA CloseChanOK ==
    ASSUME NEW s \in SessType, NEW h \in Seq(Nat), SessOK(s, h), NEW lives, Ended(s, lives),
           s.destroyed => s.racing, NEW ch, NEW o \in BOOLEAN,
           s.socket = "destroyed" => \A i \in DOMAIN s.writes : s.writes[i].fails
    PROVE  LET r == [s EXCEPT !.chans = Restrict(@, Open(s) \ {ch}), !.overtaken = o]
               t == IF Open(r) = {} THEN [Closed(r) EXCEPT !.more = TRUE] ELSE r
           IN  /\ t \in SessType /\ SessOK(t, h) /\ Emptied(s, t) /\ Ended(t, lives)
<1>1. PICK x : x = Restrict(s.chans, Open(s) \ {ch})
  OBVIOUS
<1>2. /\ DOMAIN x = Open(s) \ {ch} /\ \A d \in Open(s) \ {ch} : x[d] = s.chans[d]
      /\ x \in ChansType
  <2>1. x = [d \in Open(s) \ {ch} |-> s.chans[d]]
    BY <1>1 DEF Restrict
  <2>2. Open(s) \ {ch} \in SUBSET Nat /\ x \in [Open(s) \ {ch} -> ChanType]
    BY <2>1, ChansOf
  <2> QED
    BY <2>1, <2>2, IsChans
<1>3. PICK r : r = [s EXCEPT !.chans = x, !.overtaken = o]
  OBVIOUS
<1>4. /\ r \in SessType /\ r.racing = s.racing /\ r.destroyed = s.destroyed
      /\ r.chans = x /\ r.writes = s.writes /\ r.row = s.row /\ r.openings = s.openings
      /\ r.calls = s.calls /\ r.workSelection = s.workSelection /\ r.mode = s.mode
      /\ r.socket = s.socket
      /\ Flags(s, r) /\ Jobs(s, r) /\ SameShares(s, r) /\ r.forgot = s.forgot
  BY ONLY s \in SessType, o \in BOOLEAN, <1>2, <1>3, ZenonT(60)
     DEF SessType, Flags, Jobs, SameShares
<1>5. /\ SameTasks(s, r) /\ SameReplies(s, r) /\ \E f : Renamed(s, r, f)
      /\ Open(r) = Open(s) \ {ch} /\ \A d \in Open(r) : r.chans[d] = s.chans[d]
  BY <1>2, <1>4, SameWrites DEF Open
<1>6. Fewer(s, r)
  BY <1>4, <1>5, SameWeaker DEF Fewer, Flags, Jobs, SameShares, SessOK, RowOK
<1>7. SessOK(r, h)
  BY <1>4, <1>6, FewerOK
<1>8. Quietly(s, r)
  BY <1>4, <1>5, SameCalls
<1>9. \A n \in Nat : Known(s, n) => Known(r, n)
  BY <1>4, <1>5 DEF Known, SameTasks
<1>10. Emptied(s, r)
  BY <1>4, <1>5, <1>8, <1>9 DEF Emptied
<1>11. Ended(r, lives) /\ Endable(r, lives)
  BY <1>4 DEF Ended, Endable, Flags
<1>12. PICK t : t = IF Open(r) = {} THEN [Closed(r) EXCEPT !.more = TRUE] ELSE r
  OBVIOUS
<1>13. CASE Open(r) # {}
  BY <1>1, <1>3, <1>4, <1>7, <1>10, <1>11, <1>13
<1>14. CASE Open(r) = {}
  <2>1. PICK u : u = Closed(r)
    OBVIOUS
  <2>2. r.socket = "destroyed" => \A i \in DOMAIN r.writes : r.writes[i].fails
    BY <1>4
  <2>3. /\ u \in SessType /\ SessOK(u, h) /\ Emptied(r, u) /\ Ended(u, lives)
    BY <1>4, <1>7, <1>11, <2>1, <2>2, ClosedOK
  <2>4. t = [u EXCEPT !.more = TRUE]
    BY <1>12, <1>14, <2>1
  <2>5. /\ t \in SessType /\ SessOK(t, h) /\ Emptied(u, t) /\ Ended(t, lives)
    BY <2>3, <2>4, MoreEffect
  <2>6. Emptied(r, t)
    BY <1>4, <2>3, <2>5, EmptiedTwice
  <2>7. Emptied(s, t)
    BY <1>4, <1>10, <2>5, <2>6, EmptiedTwice
  <2> QED
    BY <1>1, <1>3, <1>12, <2>5, <2>7
<1> QED
  BY <1>13, <1>14

(* A custom job. *)
CustomMade(s, ch) ==
    LET n == s.made + 1
        job == [n |-> n, template |-> Latest, diff |-> s.chans[ch].diff,
                on |-> Latest, current |-> TRUE,
                retired |-> FALSE, custom |-> TRUE]
        chan == [s.chans[ch] EXCEPT !.held = @ \cup {job}, !.sent = @ \cup {n}]
    IN  [With(s, ch, chan) EXCEPT
            !.made = n, !.jobs = @ \cup {[n |-> n, template |-> Latest]}]

LEMMA CustomOK ==
    ASSUME NEW s \in SessType, Chain(infos), SessOK(s, infos), s.row = "have",
           NEW ch \in Open(s), Extended(s, ch), NEW t, t = CustomMade(s, ch)
    PROVE  /\ t \in SessType /\ SessOK(t, infos) /\ Grown(s, t)
           /\ \A m \in Nat : Known(s, m) => Known(t, m)
<1>1. PICK n \in Nat \ {0} : n = s.made + 1 /\ s.made \in Nat
  BY DEF SessType
<1>2. Latest \in 1..MaxTemplates /\ infos \in Seq(Nat) /\ Latest = Len(infos)
  BY DEF Chain, Latest
<1>3. PICK a \in ChanType : a = s.chans[ch] /\ a.type = "extended" /\ a.diff \in Nat
  BY ChansOf DEF Extended, ChanType
<1>4. PICK job : job = [n |-> n, template |-> Latest, diff |-> s.chans[ch].diff,
                        on |-> Latest, current |-> TRUE,
                        retired |-> FALSE, custom |-> TRUE]
  OBVIOUS
<1>5. /\ job \in JobType /\ job.n = n /\ job.template = Latest /\ job.on = Latest
      /\ job.diff = a.diff /\ job.custom
  <2>1. Latest \in 0..MaxTemplates
    BY <1>2
  <2> QED
    BY <1>2, <1>3, <1>4, <2>1 DEF JobType
<1>6. PICK held \in SUBSET JobType, sent \in SUBSET (Nat \ {0}) :
         held = a.held \cup {job} /\ sent = a.sent \cup {n}
  BY <1>5 DEF ChanType
<1>7. PICK chan : chan = [a EXCEPT !.held = held, !.sent = sent]
  OBVIOUS
<1>8. /\ chan \in ChanType /\ chan.type = a.type /\ chan.diff = a.diff /\ chan.told = a.told
      /\ chan.hashes = a.hashes /\ chan.held = held /\ chan.on = a.on
  BY ONLY a \in ChanType, held \in SUBSET JobType, sent \in SUBSET (Nat \ {0}), <1>7, ZenonT(60)
     DEF ChanType
<1>9. PICK r : r = With(s, ch, chan)
  OBVIOUS
<1>10. /\ r \in SessType /\ Rest(s, r) /\ Flags(s, r) /\ Jobs(s, r)
       /\ r.writes = s.writes /\ Open(r) = Open(s) /\ r.chans[ch] = chan
       /\ \A d \in Open(s) : d # ch => r.chans[d] = s.chans[d]
  BY <1>8, <1>9, WithEffect
<1>11. PICK jobs \in SUBSET Registered : jobs = r.jobs \cup {[n |-> n, template |-> Latest]}
  <2>1. r.jobs \in SUBSET Registered
    BY <1>10 DEF SessType
  <2>2. [n |-> n, template |-> Latest] \in Registered
    BY <1>2 DEF Registered
  <2> QED
    BY <2>1, <2>2
<1>12. t = [r EXCEPT !.made = n, !.jobs = jobs]
  <2>1. chan = [s.chans[ch] EXCEPT !.held = @ \cup {job}, !.sent = @ \cup {n}]
    BY <1>3, <1>6, <1>7
  <2>2. CustomMade(s, ch) = [With(s, ch, chan) EXCEPT
                                !.made = n, !.jobs = @ \cup {[n |-> n, template |-> Latest]}]
    BY ONLY <1>1, <1>4, <2>1 DEF CustomMade
  <2>3. CustomMade(s, ch) = [r EXCEPT !.made = n, !.jobs = jobs]
    BY ONLY <1>9, <1>11, <2>2
  <2> QED
    BY <2>3
<1>25. r \in SessType
  BY <1>10
<1>13. /\ t \in SessType /\ Rest(r, t) /\ Flags(r, t) /\ t.made = n
       /\ t.writes = r.writes /\ t.chans = r.chans
  BY ONLY <1>25, jobs \in SUBSET Registered, n \in Nat \ {0}, <1>12, ZenonT(60)
     DEF SessType, Rest, Flags
<1>14. /\ t.writes = s.writes /\ Open(t) = Open(s) /\ t.chans[ch] = chan
       /\ \A d \in Open(s) : d # ch => t.chans[d] = s.chans[d]
       /\ t.row = s.row /\ t.openings = s.openings /\ t.stream = s.stream /\ t.calls = s.calls
       /\ SameShares(s, t) /\ t.forgot = s.forgot /\ Rest(s, t)
  BY <1>10, <1>13 DEF Rest, Flags, SameShares, Open
<1>15. SameTasks(s, t) /\ SameReplies(s, t)
  BY <1>14, SameWrites
<1>16. \A k \in Nat : k <= s.made => k # n
  BY <1>1
<1>17. Unused(s, n)
  <2>1. \A d \in Open(s) : \A j \in s.chans[d].held : j.n \in Nat /\ j.n <= s.made
    BY HeldTyped DEF SessOK, Counted
  <2>2. \A share \in s.accepted : share.job.n \in Nat /\ share.job.n <= s.made
    BY DEF SessType, ShareType, JobType, SessOK, Counted
  <2> QED
    BY <1>16, <2>1, <2>2 DEF Unused
<1>18. \A i \in DOMAIN s.writes : Task(s, i).at = "job" => Task(s, i).n # job.n
  <2> SUFFICES ASSUME NEW i \in DOMAIN s.writes, Task(s, i).at = "job"
               PROVE  Task(s, i).n # n
    BY <1>5
  <2>1. Task(s, i).n \in Nat
    BY WritesTyped DEF TaskType, JobTask, Act2Task, OpenedTask, TargetTask, ReplyTask
  <2> QED
    BY <1>16, <2>1 DEF SessOK, Counted
<1>19. SessOK(t, infos)
  <2>1. /\ t.chans[ch].type = "extended" /\ s.chans[ch].type = "extended"
        /\ t.chans[ch].diff = s.chans[ch].diff /\ t.chans[ch].told = s.chans[ch].told
        /\ t.chans[ch].hashes = s.chans[ch].hashes
        /\ t.chans[ch].held = s.chans[ch].held \cup {job}
        /\ job.diff = s.chans[ch].diff
    BY <1>3, <1>5, <1>6, <1>8, <1>14
  <2>2. t.chans[ch].on <= Len(infos) /\ job.template <= Len(infos) /\ job.on <= Len(infos)
    <3>1. a.on <= Len(infos)
      BY <1>3 DEF SessOK, CurrentOK, Current
    <3> QED
      BY <1>2, <1>3, <1>5, <1>8, <1>14, <3>1
  <2>3. s.made <= t.made /\ job.n <= t.made /\ Unused(s, job.n)
    BY <1>1, <1>5, <1>13, <1>17
  <2>4. job.current /\ ~job.custom => s.stream /\ At(infos, job.on)
    BY <1>5
  <2> QED
    BY ONLY s \in SessType, SessOK(s, infos), s.row = "have", ch \in Open(s), <1>2, <1>5,
            <1>13, <1>14, <1>15, <1>18, <2>1, <2>2, <2>3, <2>4, HeldOK
<1>20. \A d \in Open(s) : t.chans[d].type = s.chans[d].type
  BY <1>3, <1>8, <1>14
<1>21. Grown(s, t)
  BY <1>14, <1>15, <1>20 DEF Grown
<1>22. \A m \in Nat : Known(s, m) => Known(t, m)
  BY <1>14, <1>15 DEF Known, SameTasks
<1> QED
  BY ONLY <1>13, <1>19, <1>21, <1>22

-----------------------------------------------------------------------------
(* A frame is handled, a call ends.                                         *)

(* The channels of t are some of those of s. *)
Stays(s, t) ==
    /\ Open(t) \subseteq Open(s)
    /\ \A ch \in Open(t) : t.chans[ch].type = s.chans[ch].type
    /\ s.racing => t.racing
    /\ \A m \in Nat : Known(s, m) => Known(t, m)

LEMMA GrownStays ==
    ASSUME NEW s \in SessType, NEW t \in SessType, NEW lives,
           Grown(s, t), \A m \in Nat : Known(s, m) => Known(t, m)
    PROVE  /\ Stays(s, t) /\ Quietly(s, t)
           /\ Ended(s, lives) /\ (s.destroyed => s.racing) => Ended(t, lives)
<1>1. Stays(s, t)
  BY DEF Stays, Grown, Rest
<1>2. Ended(s, lives) /\ (s.destroyed => s.racing) => Ended(t, lives)
  BY DEF Ended, Grown, Rest
<1> QED
  BY <1>1, <1>2, GrownQuietly

LEMMA EmptiedStays ==
    ASSUME NEW s \in SessType, NEW t \in SessType, Emptied(s, t)
    PROVE  Stays(s, t) /\ Quietly(s, t)
BY DEF Stays, Emptied

LEMMA StaysTwice ==
    ASSUME NEW s \in SessType, NEW t \in SessType, NEW u \in SessType,
           Stays(s, t), Stays(t, u)
    PROVE  Stays(s, u)
BY DEF Stays

(* Only messages open channels.                                             *)
Fresh(s) == s.msgs = 0 => s.row = "none"

LEMMA MsgsStay ==
    ASSUME NEW s \in SessType
    PROVE  /\ Torn(s).msgs = s.msgs /\ Torn(s).row = s.row
           /\ Destroyed(s).msgs = s.msgs /\ Destroyed(s).row = s.row
           /\ Closed(s).msgs = s.msgs /\ Closed(s).row = s.row
<1>1. ASSUME NEW r \in SessType
      PROVE  /\ Torn(r) \in SessType /\ Torn(r).msgs = r.msgs /\ Torn(r).row = r.row
             /\ Destroyed(r).msgs = r.msgs /\ Destroyed(r).row = r.row
  <2>1. Torn(r) \in SessType
    BY TornEffect
  <2>2. Torn(r).msgs = r.msgs /\ Torn(r).row = r.row
    BY DEF Torn, SessType
  <2>3. Destroyed(r).msgs = r.msgs /\ Destroyed(r).row = r.row
    BY DEF Destroyed, Call, SessType
  <2> QED
    BY <2>1, <2>2, <2>3
<1> QED
  BY <1>1 DEF Closed

(* A handshake is answered, or a worker selects its work itself.            *)
LEMMA ShakenOK ==
    ASSUME NEW s \in SessType, NEW h \in Seq(Nat), SessOK(s, h), NEW x \in Shakes, NEW lives
    PROVE  LET t == [s EXCEPT !.handshake = x]
           IN  /\ t \in SessType /\ SessOK(t, h) /\ Stays(s, t) /\ Quietly(s, t)
               /\ Ended(s, lives) => Ended(t, lives)
               /\ t.msgs = s.msgs /\ t.row = s.row /\ t.destroyed = s.destroyed
               /\ t.racing = s.racing
<1>1. PICK t : t = [s EXCEPT !.handshake = x]
  OBVIOUS
<1>2. /\ t \in SessType /\ t.racing = s.racing /\ t.destroyed = s.destroyed
      /\ t.chans = s.chans /\ t.writes = s.writes /\ t.row = s.row /\ t.openings = s.openings
      /\ t.calls = s.calls /\ t.workSelection = s.workSelection /\ t.mode = s.mode
      /\ t.msgs = s.msgs
      /\ Flags(s, t) /\ Jobs(s, t) /\ SameShares(s, t) /\ t.forgot = s.forgot
  BY ONLY s \in SessType, x \in Shakes, <1>1, ZenonT(60)
     DEF SessType, Flags, Jobs, SameShares
<1>3. SameTasks(s, t) /\ SameReplies(s, t) /\ Open(t) = Open(s) /\ \E f : Renamed(s, t, f)
  BY <1>2, SameWrites DEF Open
<1>4. Fewer(s, t)
  BY <1>2, <1>3, SameWeaker DEF Fewer, Flags, Jobs, SameShares, SessOK, RowOK
<1>5. SessOK(t, h)
  BY <1>2, <1>4, FewerOK
<1>6. Quietly(s, t)
  BY <1>2, <1>3, SameCalls
<1>7. Stays(s, t)
  BY <1>2, <1>3 DEF Known, SameTasks, Stays
<1>8. Ended(s, lives) => Ended(t, lives)
  BY <1>2, <1>3 DEF Ended, Flags
<1> QED
  BY <1>1, <1>2, <1>5, <1>6, <1>7, <1>8

LEMMA SetupOK ==
    ASSUME NEW s \in SessType, NEW h \in Seq(Nat), SessOK(s, h), NEW lives,
           Ended(s, lives), ~s.stream
    PROVE  LET t == [s EXCEPT !.workSelection = TRUE]
           IN  /\ t \in SessType /\ SessOK(t, h) /\ Stays(s, t) /\ Quietly(s, t)
               /\ Ended(t, lives) /\ t.msgs = s.msgs /\ t.row = s.row
<1>1. PICK t : t = [s EXCEPT !.workSelection = TRUE]
  OBVIOUS
<1>2. /\ t \in SessType /\ t.racing = s.racing /\ t.destroyed = s.destroyed
      /\ t.chans = s.chans /\ t.writes = s.writes /\ t.row = s.row /\ t.openings = s.openings
      /\ t.calls = s.calls /\ t.mode = s.mode /\ t.msgs = s.msgs
      /\ Flags(s, t) /\ Jobs(s, t) /\ SameShares(s, t) /\ t.forgot = s.forgot
  BY ONLY s \in SessType, <1>1, ZenonT(60) DEF SessType, Flags, Jobs, SameShares
<1>3. SameTasks(s, t) /\ SameReplies(s, t) /\ Open(t) = Open(s) /\ \E f : Renamed(s, t, f)
  BY <1>2, SameWrites DEF Open
<1>4. Fewer(s, t)
  BY <1>2, <1>3, SameWeaker DEF Fewer, Flags, Jobs, SameShares, SessOK, RowOK
<1>5. SessOK(t, h)
  BY <1>2, <1>4, FewerOK
<1>6. Quietly(s, t)
  BY <1>2, <1>3, SameCalls
<1>7. Stays(s, t)
  BY <1>2, <1>3 DEF Known, SameTasks, Stays
<1>8. Ended(t, lives)
  BY <1>2, <1>3 DEF Ended, Flags
<1> QED
  BY <1>1, <1>2, <1>5, <1>6, <1>7, <1>8

(* A submission is remembered.                                              *)
LEMMA RememberEffect ==
    ASSUME NEW s \in SessType, NEW ch \in Open(s), NEW key \in (Nat \ {0}) \X Work
    PROVE  LET t == Remember(s, ch, key)
           IN  /\ t \in SessType /\ t.racing = s.racing /\ t.destroyed = s.destroyed
               /\ t.writes = s.writes /\ t.row = s.row /\ t.openings = s.openings
               /\ t.calls = s.calls /\ t.workSelection = s.workSelection /\ t.mode = s.mode
               /\ t.msgs = s.msgs
               /\ Flags(s, t) /\ Jobs(s, t) /\ SameShares(s, t) /\ (s.forgot => t.forgot)
               /\ Open(t) = Open(s) /\ \A d \in Open(s) : d # ch => t.chans[d] = s.chans[d]
               /\ t.chans[ch].type = s.chans[ch].type /\ t.chans[ch].held = s.chans[ch].held
               /\ t.chans[ch].diff = s.chans[ch].diff /\ t.chans[ch].told = s.chans[ch].told
               /\ t.chans[ch].on = s.chans[ch].on
               /\ t.forgot \/ t.chans[ch].hashes = s.chans[ch].hashes \cup {key}
<1>1. PICK a \in ChanType : a = s.chans[ch]
  BY ChansOf
<1>2. PICK hashes \in SUBSET ((Nat \ {0}) \X Work) : hashes = a.hashes \cup {key}
  BY DEF ChanType
<1>3. PICK full : full = (Cardinality(hashes) > HashLimit)
  OBVIOUS
<1>4. PICK kept \in SUBSET ((Nat \ {0}) \X Work) : kept = IF full THEN {} ELSE hashes
  OBVIOUS
<1>5. PICK chan : chan = [a EXCEPT !.hashes = kept]
  OBVIOUS
<1>6. /\ chan \in ChanType /\ chan.type = a.type /\ chan.diff = a.diff /\ chan.told = a.told
      /\ chan.hashes = kept /\ chan.held = a.held /\ chan.on = a.on
  BY ONLY a \in ChanType, kept \in SUBSET ((Nat \ {0}) \X Work), <1>5, ZenonT(60) DEF ChanType
<1>7. PICK r : r = With(s, ch, chan)
  OBVIOUS
<1>8. /\ r \in SessType /\ Rest(s, r) /\ Flags(s, r) /\ Jobs(s, r)
      /\ r.writes = s.writes /\ Open(r) = Open(s) /\ r.chans[ch] = chan
      /\ \A d \in Open(s) : d # ch => r.chans[d] = s.chans[d]
  BY <1>6, <1>7, WithEffect
<1>9. PICK forgot \in BOOLEAN : forgot = (r.forgot \/ full)
  <2>1. (r.forgot \/ full) \in BOOLEAN
    OBVIOUS
  <2> QED
    BY <2>1
<1>10. PICK t : t = [r EXCEPT !.forgot = forgot]
  OBVIOUS
<1>11. r \in SessType
  BY <1>8
<1>12. /\ t \in SessType /\ t.racing = r.racing /\ t.destroyed = r.destroyed
       /\ t.chans = r.chans /\ t.writes = r.writes /\ t.row = r.row /\ t.openings = r.openings
       /\ t.calls = r.calls /\ t.workSelection = r.workSelection /\ t.mode = r.mode
       /\ t.msgs = r.msgs
       /\ Flags(r, t) /\ Jobs(r, t) /\ SameShares(r, t) /\ t.forgot = forgot
  BY ONLY <1>11, forgot \in BOOLEAN, <1>10, ZenonT(60) DEF SessType, Flags, Jobs, SameShares
<1>13. t = Remember(s, ch, key)
  BY <1>1, <1>2, <1>3, <1>4, <1>5, <1>7, <1>9, <1>10 DEF Remember
<1>14. /\ t.racing = s.racing /\ t.destroyed = s.destroyed
       /\ t.writes = s.writes /\ t.row = s.row /\ t.openings = s.openings
       /\ t.calls = s.calls /\ t.workSelection = s.workSelection /\ t.mode = s.mode
       /\ t.msgs = s.msgs
       /\ Flags(s, t) /\ Jobs(s, t) /\ SameShares(s, t)
  BY <1>8, <1>12 DEF Rest, Flags, Jobs, SameShares
<1>15. s.forgot => t.forgot
  BY <1>8, <1>9, <1>12 DEF Rest
<1>16. Open(t) = Open(s) /\ \A d \in Open(s) : d # ch => t.chans[d] = s.chans[d]
  BY <1>8, <1>12 DEF Open
<1>17. t.chans[ch] = chan
  BY <1>8, <1>12
<1>18. t.forgot \/ chan.hashes = a.hashes \cup {key}
  BY <1>2, <1>4, <1>6, <1>9, <1>12
<1> QED
  BY <1>1, <1>6, <1>12, <1>13, <1>14, <1>15, <1>16, <1>17, <1>18

LEMMA RefusedOK ==
    ASSUME NEW s \in SessType, NEW h \in Seq(Nat), SessOK(s, h), NEW lives, Ended(s, lives),
           NEW ch \in Open(s), NEW key \in (Nat \ {0}) \X Work
    PROVE  LET t == Remember(s, ch, key)
           IN  /\ t \in SessType /\ SessOK(t, h) /\ Stays(s, t) /\ Quietly(s, t)
               /\ Ended(t, lives) /\ t.msgs = s.msgs
<1>1. PICK t : t = Remember(s, ch, key)
  OBVIOUS
<1>2. /\ t \in SessType /\ t.racing = s.racing /\ t.destroyed = s.destroyed
      /\ t.writes = s.writes /\ t.row = s.row /\ t.openings = s.openings
      /\ t.calls = s.calls /\ t.workSelection = s.workSelection /\ t.mode = s.mode
      /\ t.msgs = s.msgs
      /\ Flags(s, t) /\ Jobs(s, t) /\ SameShares(s, t) /\ (s.forgot => t.forgot)
      /\ Open(t) = Open(s) /\ \A d \in Open(s) : d # ch => t.chans[d] = s.chans[d]
      /\ t.chans[ch].type = s.chans[ch].type /\ t.chans[ch].held = s.chans[ch].held
      /\ t.chans[ch].diff = s.chans[ch].diff /\ t.chans[ch].told = s.chans[ch].told
      /\ t.chans[ch].on = s.chans[ch].on
      /\ t.forgot \/ t.chans[ch].hashes = s.chans[ch].hashes \cup {key}
  BY <1>1, RememberEffect
<1>3. SameTasks(s, t) /\ SameReplies(s, t) /\ \E f : Renamed(s, t, f)
  BY <1>2, SameWrites
<1>4. \A d \in Open(t) : Weaker(s.chans[d], t.chans[d], t.forgot)
  <2>1. Weaker(s.chans[ch], t.chans[ch], t.forgot)
    BY <1>2 DEF Weaker
  <2> QED
    BY <1>2, <2>1, SameWeaker
<1>5. Fewer(s, t)
  BY <1>2, <1>3, <1>4 DEF Fewer, Flags, Jobs, SameShares, SessOK, RowOK
<1>6. SessOK(t, h)
  BY <1>2, <1>5, FewerOK
<1>7. Quietly(s, t)
  BY <1>2, <1>3 DEF Quietly, SameShares
<1>8. Stays(s, t)
  <2>1. \A d \in Open(t) : t.chans[d].type = s.chans[d].type
    BY <1>2
  <2> QED
    BY <1>2, <1>3, <2>1 DEF Known, SameTasks, Stays
<1>9. Ended(t, lives)
  BY <1>2, <1>3 DEF Ended, Flags
<1> QED
  BY <1>1, <1>2, <1>6, <1>7, <1>8, <1>9

(* A job that is found may be worked on, its submission was not accepted    *)
(* before if it is not remembered, and it is stale only if the job is       *)
(* custom or was no longer current when it was recorded.                    *)
BlocksOK == \A t \in blocks : t \in 1..Latest /\ infos[t] = LastBlock

(* What is of the block extends the tip, unless templates are mixed.        *)
LEMMA OfBlockIsNotStale ==
    ASSUME NEW t \in 1..Latest, OfBlock(t)
    PROVE  ~Stale(t)
BY DEF Stale, Misfiled

LEMMA FoundIs ==
    ASSUME NEW s \in SessType, Chain(infos), SessOK(s, infos), BlocksOK, NEW ch \in Open(s),
           NEW n, NEW job \in Found(s, ch, n)
    PROVE  /\ job \in s.chans[ch].held /\ job.n = n /\ ~job.retired /\ job \in JobType
           /\ ~Stale(job.on) \/ job.custom \/ ~job.current
           /\ \A share \in s.accepted :
                 share.job = job => s.forgot \/ <<n, share.work>> \in s.chans[ch].hashes
<1>1. /\ job \in s.chans[ch].held /\ job.n = n
      /\ IF s.chans[ch].type = "extended" THEN ~job.retired ELSE job.template \in blocks
  BY DEF Found, Extended
<1>2. Current(s, s.chans[ch], infos)
  BY DEF SessOK, CurrentOK
<1>3. ~job.retired
  BY <1>1, <1>2 DEF Current
<1>4. job \in JobType
  BY <1>1, HeldTyped
<1>5. OfBlock(job.on) \/ job.custom \/ ~job.current
  <2>1. CASE s.chans[ch].type = "extended"
    BY <1>1, <1>2, <2>1 DEF Current, OfBlock, At, LastBlock, Latest
  <2>2. CASE s.chans[ch].type # "extended"
    <3>1. job.on = job.template /\ job.template \in 1..Latest /\ infos[job.template] = LastBlock
      BY <1>1, <1>2, <2>2 DEF Current, BlocksOK
    <3>2. job.template # 0
      BY <3>1
    <3> QED
      BY <3>1, <3>2 DEF OfBlock
  <2> QED
    BY <2>1, <2>2
<1>6. \A share \in s.accepted :
         share.job = job => s.forgot \/ <<n, share.work>> \in s.chans[ch].hashes
  BY <1>1, <1>3 DEF SessOK, Remembered
<1>7. OfBlock(job.on) => ~Stale(job.on)
  <2>1. job.on \in 0..MaxTemplates /\ job.on <= Len(infos)
    BY <1>1, <1>2, <1>4 DEF Current, JobType
  <2>2. Len(infos) \in Nat /\ MaxTemplates \in Nat
    BY StratumV2SessionAssumption DEF Chain
  <2>3. OfBlock(job.on) => job.on \in 1..Latest
    BY <2>1, <2>2 DEF OfBlock, Latest
  <2> QED
    BY <2>3, OfBlockIsNotStale
<1> QED
  BY <1>1, <1>3, <1>4, <1>5, <1>6, <1>7

(* The session once a submission is accepted. *)
Accepted(t, share) ==
    [t EXCEPT !.accepted = @ \cup {share},
              !.stale = @ \cup {x \in {share} : Stale(share.job.on)}]

LEMMA SubmittedOK ==
    ASSUME NEW s \in SessType, Chain(infos), SessOK(s, infos), BlocksOK,
           NEW lives, Ended(s, lives), s.destroyed => s.racing, s.row = "have",
           NEW ch \in Open(s), NEW n \in Nat \ {0}, NEW share \in ShareType,
           share.job \in Found(s, ch, n), <<n, share.work>> \notin s.chans[ch].hashes
    PROVE  LET t == Write(Accepted(Remember(s, ch, <<n, share.work>>), share),
                          [at |-> "replied", share |-> share])
           IN  /\ t \in SessType /\ SessOK(t, infos) /\ Stays(s, t) /\ Ended(t, lives)
               /\ t.msgs = s.msgs /\ t.row = s.row
               /\ t.mode = s.mode /\ t.calls = s.calls /\ (s.forgot => t.forgot)
               /\ t.accepted = s.accepted \cup {share}
               /\ Appended(s, t, [at |-> "replied", share |-> share])
               /\ share \in s.accepted => s.forgot
<1>1. PICK key \in (Nat \ {0}) \X Work : key = <<n, share.work>>
  BY DEF ShareType
<1>2. PICK r : r = Remember(s, ch, key)
  OBVIOUS
<1>3. /\ r \in SessType /\ r.racing = s.racing /\ r.destroyed = s.destroyed
      /\ r.writes = s.writes /\ r.row = s.row /\ r.openings = s.openings
      /\ r.calls = s.calls /\ r.workSelection = s.workSelection /\ r.mode = s.mode
      /\ r.msgs = s.msgs
      /\ Flags(s, r) /\ Jobs(s, r) /\ SameShares(s, r) /\ (s.forgot => r.forgot)
      /\ Open(r) = Open(s) /\ \A d \in Open(s) : d # ch => r.chans[d] = s.chans[d]
      /\ r.chans[ch].type = s.chans[ch].type /\ r.chans[ch].held = s.chans[ch].held
      /\ r.chans[ch].diff = s.chans[ch].diff /\ r.chans[ch].told = s.chans[ch].told
      /\ r.chans[ch].on = s.chans[ch].on
      /\ r.forgot \/ r.chans[ch].hashes = s.chans[ch].hashes \cup {key}
  BY <1>2, RememberEffect
<1>4. PICK job : job = share.job
  OBVIOUS
<1>5. /\ job \in s.chans[ch].held /\ job.n = n /\ ~job.retired /\ job \in JobType
      /\ ~Stale(job.on) \/ job.custom \/ ~job.current
      /\ \A x \in s.accepted :
            x.job = job => s.forgot \/ <<n, x.work>> \in s.chans[ch].hashes
  BY <1>4, FoundIs
<1>6. PICK acc \in SUBSET ShareType, stale \in SUBSET ShareType :
         /\ acc = r.accepted \cup {share}
         /\ stale = r.stale \cup {x \in {share} : Stale(share.job.on)}
  BY <1>3 DEF SessType
<1>7. PICK v : v = [r EXCEPT !.accepted = acc, !.stale = stale]
  OBVIOUS
<1>8. r \in SessType
  BY <1>3
<1>9. /\ v \in SessType /\ v.racing = r.racing /\ v.destroyed = r.destroyed
      /\ v.chans = r.chans /\ v.writes = r.writes /\ v.row = r.row /\ v.openings = r.openings
      /\ v.calls = r.calls /\ v.workSelection = r.workSelection /\ v.mode = r.mode
      /\ v.msgs = r.msgs /\ v.accepted = acc /\ v.stale = stale
      /\ Flags(r, v) /\ Jobs(r, v) /\ v.forgot = r.forgot
  BY ONLY <1>8, acc \in SUBSET ShareType, stale \in SUBSET ShareType, <1>7, ZenonT(60)
     DEF SessType, Flags, Jobs
<1>10. v = Accepted(r, share)
  BY <1>6, <1>7 DEF Accepted
<1>11. SameTasks(s, v) /\ SameReplies(s, v) /\ Open(v) = Open(s)
  BY <1>3, <1>9, SameWrites DEF Open
<1>12. Even(s, v) /\ Jobs(s, v)
  BY <1>3, <1>9 DEF Even, Jobs, Flags
<1>13. SessOK(v, infos)
  <2>1. /\ \A d \in Open(s) : d # ch => v.chans[d] = s.chans[d]
        /\ v.chans[ch].type = s.chans[ch].type /\ v.chans[ch].held = s.chans[ch].held
        /\ v.chans[ch].diff = s.chans[ch].diff /\ v.chans[ch].told = s.chans[ch].told
        /\ v.chans[ch].on = s.chans[ch].on
        /\ v.forgot \/ v.chans[ch].hashes = s.chans[ch].hashes \cup {<<job.n, share.work>>}
    BY <1>1, <1>3, <1>5, <1>9
  <2>2. v.accepted = s.accepted \cup {share} /\ v.stale \subseteq s.stale \cup {share}
    BY <1>3, <1>6, <1>9 DEF SameShares
  <2>3. share \in v.stale => share \in s.stale \/ share.job.custom \/ ~share.job.current
    BY <1>3, <1>4, <1>5, <1>6, <1>9 DEF SameShares
  <2>4. infos \in Seq(Nat) /\ v \in SessType /\ job \in s.chans[ch].held /\ share.job = job
    BY <1>4, <1>5, <1>9 DEF Chain
  <2> QED
    BY ONLY s \in SessType, SessOK(s, infos), ch \in Open(s), share \in ShareType,
            <1>11, <1>12, <2>1, <2>2, <2>3, <2>4, AcceptedOK
<1>14. PICK task : task = [at |-> "replied", share |-> share]
  OBVIOUS
<1>15. task \in TaskType /\ task.at = "replied"
  BY <1>14 DEF TaskType, ReplyTask
<1>16. PICK t : t = Write(v, task)
  OBVIOUS
<1>17. /\ t \in SessType /\ Rest(v, t) /\ Flags(v, t) /\ Jobs(v, t)
       /\ t.chans = v.chans /\ Open(t) = Open(v)
       /\ t.writes = Append(v.writes, [task |-> task, fails |-> FALSE])
  BY <1>9, <1>15, <1>16, WriteEffect
<1>18. SessOK(t, infos)
  <2>1. /\ t.row = v.row /\ t.openings = v.openings /\ t.stream = v.stream
        /\ t.calls = v.calls /\ Jobs(v, t) /\ SameShares(v, t) /\ t.forgot = v.forgot
        /\ t.chans = v.chans
    BY <1>17 DEF Rest, Flags, SameShares
  <2>2. task.at # "job" /\ task.at # "active" /\ v.row = "have" /\ infos \in Seq(Nat)
    BY <1>3, <1>9, <1>15 DEF Chain
  <2> QED
    BY <1>9, <1>13, <1>15, <1>17, <2>1, <2>2, WroteOK
<1>19. /\ Appended(s, t, task) /\ Task(t, Len(s.writes) + 1) = task
       /\ \A i \in DOMAIN s.writes : Task(t, i) = Task(s, i)
  <2>1. t.writes = Append(s.writes, [task |-> task, fails |-> FALSE])
    BY <1>3, <1>9, <1>17
  <2> QED
    BY <1>15, <2>1, AppendedTask
<1>20. Stays(s, t)
  <2>1. \A d \in Open(t) : d \in Open(s) /\ t.chans[d].type = s.chans[d].type
    BY <1>3, <1>9, <1>11, <1>17
  <2>2. \A m \in Nat : Known(s, m) => Known(t, m)
    BY <1>3, <1>9, <1>11, <1>15, <1>17, <1>19 DEF Known, Appended, Rest
  <2> QED
    BY <1>3, <1>9, <1>17, <2>1, <2>2 DEF Stays, Rest
<1>21. Ended(t, lives)
  BY <1>3, <1>9, <1>17 DEF Ended, Rest, Flags
<1>22. t = Write(Accepted(Remember(s, ch, <<n, share.work>>), share),
                 [at |-> "replied", share |-> share])
  BY <1>1, <1>2, <1>10, <1>14, <1>16
<1>23. share \in s.accepted => s.forgot
  BY <1>4, <1>5
<1> QED
  BY <1>3, <1>6, <1>9, <1>14, <1>17, <1>18, <1>19, <1>20, <1>21, <1>22, <1>23
     DEF Rest, SameShares

(* All but the calls. *)
ButCalls(s, t) ==
    /\ t.racing = s.racing /\ t.destroyed = s.destroyed /\ t.socket = s.socket
    /\ t.chans = s.chans /\ t.writes = s.writes /\ t.row = s.row /\ t.openings = s.openings
    /\ t.workSelection = s.workSelection /\ t.mode = s.mode /\ t.msgs = s.msgs
    /\ Flags(s, t) /\ Jobs(s, t) /\ SameShares(s, t) /\ t.forgot = s.forgot

LEMMA SetCalls ==
    ASSUME NEW s \in SessType, NEW q \in Seq(CallType)
    PROVE  LET t == [s EXCEPT !.calls = q]
           IN  t \in SessType /\ ButCalls(s, t) /\ t.calls = q
BY ONLY s \in SessType, q \in Seq(CallType), ZenonT(60)
   DEF SessType, ButCalls, Flags, Jobs, SameShares

LEMMA ButCallsOK ==
    ASSUME NEW s \in SessType, NEW t \in SessType, NEW h \in Seq(Nat), SessOK(s, h),
           ButCalls(s, t), t.calls # << >> => s.row = "have"
    PROVE  SessOK(t, h) /\ Stays(s, t) /\ SameReplies(s, t)
<1>1. SameTasks(s, t) /\ SameReplies(s, t) /\ Open(t) = Open(s) /\ \E f : Renamed(s, t, f)
  BY SameWrites DEF Open, ButCalls
<1>2. Fewer(s, t)
  BY <1>1, SameWeaker DEF Fewer, Flags, Jobs, SameShares, SessOK, RowOK, ButCalls
<1>3. SessOK(t, h)
  BY <1>2, FewerOK
<1>4. Stays(s, t)
  BY <1>1 DEF Known, SameTasks, Stays, ButCalls
<1> QED
  BY <1>1, <1>3, <1>4

LEMMA CallsTyped ==
    ASSUME NEW s \in SessType
    PROVE  /\ s.calls \in Seq(CallType) /\ DOMAIN s.calls = 1..Len(s.calls) /\ Len(s.calls) \in Nat
           /\ \A k \in DOMAIN s.calls :
                 /\ s.calls[k] \in CallType
                 /\ s.calls[k].at # "delete" => s.calls[k] \in ShareCall
           /\ \A k \in DOMAIN s.calls : s.calls # << >>
<1>1. s.calls \in Seq(CallType)
  BY DEF SessType
<1>2. DOMAIN s.calls = 1..Len(s.calls) /\ Len(s.calls) \in Nat
  BY <1>1, LenProperties
<1>3. \A k \in DOMAIN s.calls : s.calls[k] \in CallType
  BY <1>1, ElementOfSeq, LenProperties
<1>4. \A k \in DOMAIN s.calls : s.calls[k].at # "delete" => s.calls[k] \in ShareCall
  BY <1>3 DEF CallType
<1>5. \A k \in DOMAIN s.calls : s.calls # << >>
  BY NoChans
<1> QED
  BY <1>1, <1>2, <1>3, <1>4, <1>5

(* A call has ended. *)
LEMMA FinishedOK ==
    ASSUME NEW s \in SessType, NEW h \in Seq(Nat), SessOK(s, h), NEW lives, Ended(s, lives),
           NEW i \in DOMAIN s.calls
    PROVE  LET t == Finished(s, i)
           IN  /\ t \in SessType /\ SessOK(t, h) /\ Stays(s, t) /\ ButCalls(s, t)
               /\ SameReplies(s, t)
               /\ \A j \in DOMAIN t.calls :
                     \E k \in DOMAIN s.calls : /\ k # i /\ t.calls[j] = s.calls[k]
                                               /\ k = IF j < i THEN j ELSE j + 1
               /\ \A k \in DOMAIN s.calls : k # i =>
                     \E j \in DOMAIN t.calls : /\ t.calls[j] = s.calls[k]
                                               /\ k = IF j < i THEN j ELSE j + 1
               /\ s.calls[i].at # "delete" => (s.destroyed => s.racing)
               /\ \A l : ~l \/ s.calls[i].at # "delete" => Ended(t, l)
<1>1. PICK q : q = RemoveAt(s.calls, i)
  OBVIOUS
<1>2. /\ q \in Seq(CallType)
      /\ \A j \in DOMAIN q :
            \E k \in DOMAIN s.calls : /\ k # i /\ q[j] = s.calls[k]
                                      /\ k = IF j < i THEN j ELSE j + 1
      /\ \A k \in DOMAIN s.calls : k # i =>
            \E j \in DOMAIN q : q[j] = s.calls[k] /\ k = IF j < i THEN j ELSE j + 1
  <2>1. PICK z \in Seq(CallType) : z = s.calls
    BY CallsTyped
  <2>2. i \in DOMAIN z
    BY <2>1
  <2>3. /\ RemoveAt(z, i) \in Seq(CallType)
        /\ \A j \in DOMAIN RemoveAt(z, i) :
              \E k \in DOMAIN z : /\ k # i /\ RemoveAt(z, i)[j] = z[k]
                                  /\ k = IF j < i THEN j ELSE j + 1
        /\ \A k \in DOMAIN z : k # i =>
              \E j \in DOMAIN RemoveAt(z, i) :
                 RemoveAt(z, i)[j] = z[k] /\ k = IF j < i THEN j ELSE j + 1
    BY <2>2, AfterRemove
  <2> QED
    BY <1>1, <2>1, <2>3
<1>3. PICK t : t = [s EXCEPT !.calls = q]
  OBVIOUS
<1>4. t \in SessType /\ ButCalls(s, t) /\ t.calls = q
  BY <1>2, <1>3, SetCalls
<1>5. t = Finished(s, i)
  BY <1>1, <1>3 DEF Finished
<1>6. s.row = "have"
  BY CallsTyped DEF SessOK, RowOK
<1>7. SessOK(t, h) /\ Stays(s, t) /\ SameReplies(s, t)
  BY <1>4, <1>6, ButCallsOK
<1>8. s.calls[i].at # "delete" => (s.destroyed => s.racing)
  BY DEF Ended
<1>9. ASSUME NEW l, ~l \/ s.calls[i].at # "delete"
      PROVE  Ended(t, l)
  <2>1. Open(t) = Open(s) /\ \A j \in DOMAIN t.writes : t.writes[j] = s.writes[j]
    BY <1>4 DEF Open, ButCalls
  <2>2. /\ t.row = s.row /\ t.stream = s.stream /\ t.destroyed = s.destroyed
        /\ t.racing = s.racing /\ t.workSelection = s.workSelection
        /\ t.writes = s.writes
    BY <1>4 DEF ButCalls, Flags
  <2>3. s.destroyed /\ ~s.racing =>
           /\ ~l
           /\ \A k \in DOMAIN t.calls : t.calls[k].at = "delete"
    BY <1>2, <1>4, <1>8, <1>9 DEF Ended
  <2> QED
    BY <1>6, <2>1, <2>2, <2>3 DEF Ended
<1> QED
  BY <1>2, <1>4, <1>5, <1>7, <1>8, <1>9

(* A handler goes on with another call. *)
(* Call i of session s goes on, as another call for the same share. *)
GoesOn(s, t, i, at) ==
    /\ DOMAIN t.calls = DOMAIN s.calls
    /\ \A k \in DOMAIN s.calls : k # i => t.calls[k] = s.calls[k]
    /\ t.calls[i] = [at |-> at, share |-> s.calls[i].share]

LEMMA CallGoesEffect ==
    ASSUME NEW s \in SessType, NEW i \in DOMAIN s.calls, s.calls[i].at # "delete",
           NEW at \in {"node", "save", "record", "touch"}, NEW t, t = CallGoes(s, i, at)
    PROVE  t \in SessType /\ ButCalls(s, t) /\ GoesOn(s, t, i, at)
<1>1. PICK call : call = [s.calls[i] EXCEPT !.at = at]
  OBVIOUS
<1>2. s.calls[i] \in ShareCall
  BY CallsTyped
<1>3. call = [at |-> at, share |-> s.calls[i].share] /\ call \in CallType
  <2>1. PICK a \in {"node", "save", "record", "touch"}, x \in ShareType :
           s.calls[i] = [at |-> a, share |-> x]
    BY <1>2 DEF ShareCall
  <2>2. call = [at |-> at, share |-> x]
    BY <1>1, <2>1
  <2>3. s.calls[i].share = x
    BY <2>1
  <2> QED
    BY <2>2, <2>3 DEF CallType, ShareCall
<1>4. PICK q : q = [s.calls EXCEPT ![i] = call]
  OBVIOUS
<1>5. /\ q \in Seq(CallType) /\ DOMAIN q = DOMAIN s.calls /\ q[i] = call
      /\ \A k \in DOMAIN s.calls : k # i => q[k] = s.calls[k]
  BY <1>3, <1>4, CallsTyped, ExceptSeq
<1>6. PICK u : u = [s EXCEPT !.calls = q]
  OBVIOUS
<1>7. u \in SessType /\ ButCalls(s, u) /\ u.calls = q
  BY <1>5, <1>6, SetCalls
<1>8. u = t
  BY <1>1, <1>4, <1>6 DEF CallGoes
<1> QED
  BY <1>3, <1>5, <1>7, <1>8 DEF GoesOn

LEMMA CallGoesOK ==
    ASSUME NEW s \in SessType, NEW h \in Seq(Nat), SessOK(s, h), NEW lives, Ended(s, lives),
           NEW i \in DOMAIN s.calls, s.calls[i].at # "delete",
           NEW at \in {"node", "save", "record", "touch"}, NEW t, t = CallGoes(s, i, at)
    PROVE  /\ t \in SessType /\ SessOK(t, h) /\ Stays(s, t) /\ ButCalls(s, t)
           /\ SameReplies(s, t) /\ Ended(t, lives)
<1>1. t \in SessType /\ ButCalls(s, t)
  BY CallGoesEffect
<1>2. s.row = "have"
  BY CallsTyped DEF SessOK, RowOK
<1>3. SessOK(t, h) /\ Stays(s, t) /\ SameReplies(s, t)
  BY <1>1, <1>2, ButCallsOK
<1>4. Ended(t, lives)
  <2>1. Open(t) = Open(s)
    BY <1>1 DEF Open, ButCalls
  <2>2. s.destroyed => s.racing
    BY DEF Ended
  <2>3. ASSUME s.destroyed /\ ~s.racing PROVE FALSE
    BY <2>2, <2>3
  <2> QED
    BY <1>1, <2>1, <2>3 DEF Ended, ButCalls, Flags
<1> QED
  BY <1>1, <1>3, <1>4

(* After a reply the submission is handled further. *)
LEMMA RepliedOK ==
    ASSUME NEW s \in SessType, NEW h \in Seq(Nat), SessOK(s, h), NEW lives, Ended(s, lives),
           s.row = "have", s.destroyed => s.racing,
           NEW at \in {"node", "record"}, NEW share \in ShareType
    PROVE  LET t == Call(s, at, share)
           IN  /\ t \in SessType /\ SessOK(t, h) /\ Stays(s, t) /\ ButCalls(s, t)
               /\ SameReplies(s, t) /\ Ended(t, lives)
               /\ DOMAIN s.calls = 1..Len(s.calls) /\ Len(s.calls) \in Nat
               /\ DOMAIN t.calls = 1 .. Len(s.calls) + 1
               /\ \A k \in DOMAIN s.calls : t.calls[k] = s.calls[k]
               /\ t.calls[Len(s.calls) + 1] = [at |-> at, share |-> share]
<1>1. [at |-> at, share |-> share] \in CallType
  BY DEF CallType, ShareCall
<1>2. Append(s.calls, [at |-> at, share |-> share]) \in Seq(CallType)
  BY <1>1, CallsTyped, AppendProperties
<1>3. PICK t : t = Call(s, at, share)
  OBVIOUS
<1>4. t \in SessType /\ ButCalls(s, t)
  BY <1>2, <1>3, SetCalls DEF Call
<1>5. SessOK(t, h) /\ Stays(s, t) /\ SameReplies(s, t)
  BY <1>4, ButCallsOK
<1>6. Ended(t, lives)
  <2>1. Open(t) = Open(s)
    BY <1>4 DEF Open, ButCalls
  <2> QED
    BY <1>4, <2>1 DEF Ended, ButCalls, Flags
<1> QED
  BY <1>1, <1>3, <1>4, <1>5, <1>6, CallEffect

(* All that the invariants read is the same. *)
Alike(s, t) ==
    /\ t.racing = s.racing /\ t.destroyed = s.destroyed
    /\ t.chans = s.chans /\ t.writes = s.writes /\ t.row = s.row /\ t.openings = s.openings
    /\ t.calls = s.calls /\ t.workSelection = s.workSelection /\ t.mode = s.mode
    /\ t.stream = s.stream /\ t.made = s.made /\ SameShares(s, t) /\ t.forgot = s.forgot

LEMMA AlikeOK ==
    ASSUME NEW s \in SessType, NEW t \in SessType, NEW h \in Seq(Nat), SessOK(s, h), Alike(s, t)
    PROVE  /\ SessOK(t, h) /\ Stays(s, t) /\ Quietly(s, t)
           /\ \A l : Ended(s, l) => Ended(t, l)
<1>1. SameTasks(s, t) /\ SameReplies(s, t) /\ Open(t) = Open(s) /\ \E f : Renamed(s, t, f)
  BY SameWrites DEF Open, Alike
<1>2. Fewer(s, t)
  BY <1>1, SameWeaker DEF Fewer, SameShares, SessOK, RowOK, Alike
<1>3. SessOK(t, h)
  BY <1>2, FewerOK
<1>4. Quietly(s, t)
  BY <1>1, SameCalls DEF Alike
<1>5. Stays(s, t)
  BY <1>1 DEF Known, SameTasks, Stays, Alike
<1>6. \A l : Ended(s, l) => Ended(t, l)
  BY <1>1 DEF Ended, Alike
<1> QED
  BY <1>3, <1>4, <1>5, <1>6

(* The difficulty timer starts. *)
LEMMA TimerOK ==
    ASSUME NEW s \in SessType, Chain(infos), SessOK(s, infos), s.stream, NEW d \in Nat,
           NEW lives, Ended(s, lives)
    PROVE  LET t == SetTargets([s EXCEPT !.diff = d, !.msgs = @ + 1], 0)
           IN  /\ t \in SessType /\ SessOK(t, infos) /\ Stays(s, t) /\ Quietly(s, t)
               /\ Ended(t, lives) /\ Fresh(t)
<1>1. PICK msgs \in Nat : msgs = s.msgs + 1 /\ msgs # 0
  BY DEF SessType
<1>2. PICK r : r = [s EXCEPT !.diff = d, !.msgs = msgs]
  OBVIOUS
<1>3. r \in SessType /\ Alike(s, r) /\ r.msgs = msgs
  BY ONLY s \in SessType, msgs \in Nat, d \in Nat, <1>2, ZenonT(60)
     DEF SessType, Alike, SameShares
<1>4. infos \in Seq(Nat)
  BY DEF Chain
<1>5. SessOK(r, infos) /\ Stays(s, r) /\ Quietly(s, r) /\ Ended(r, lives)
  BY <1>3, <1>4, AlikeOK
<1>6. r.row = "have" /\ (r.destroyed => r.racing)
  BY <1>3 DEF Alike, SessOK, RowOK, Ended
<1>7. PICK t : t = SetTargets(r, 0)
  OBVIOUS
<1>8. /\ t \in SessType /\ SessOK(t, infos) /\ Grown(r, t)
      /\ \A m \in Nat : Known(r, m) => Known(t, m)
  BY <1>3, <1>5, <1>6, <1>7, SetTargetsOK
<1>9. Stays(r, t) /\ Quietly(r, t) /\ Ended(t, lives)
  BY <1>3, <1>5, <1>6, <1>8, GrownStays
<1>10. Stays(s, t) /\ Quietly(s, t)
  BY <1>3, <1>5, <1>8, <1>9, StaysTwice, QuietlyTwice
<1>11. Fresh(t)
  BY <1>1, <1>3, <1>8 DEF Grown, Rest, Fresh
<1> QED
  BY <1>1, <1>2, <1>7, <1>8, <1>9, <1>10, <1>11

(* The row cannot be inserted. *)
LEMMA FailedOK ==
    ASSUME NEW s \in SessType, NEW h \in Seq(Nat), SessOK(s, h), s.row = "inserting",
           NEW lives, Ended(s, lives), Fresh(s),
           s.socket = "destroyed" => \A i \in DOMAIN s.writes : s.writes[i].fails
    PROVE  LET t == Closed([s EXCEPT !.row = "failed", !.openings = << >>])
           IN  /\ t \in SessType /\ SessOK(t, h) /\ Stays(s, t) /\ Quietly(s, t)
               /\ Ended(t, lives) /\ Fresh(t)
<1>1. << >> \in Seq(OpeningType)
  OBVIOUS
<1>2. PICK q \in Seq(OpeningType) : q = << >>
  BY <1>1
<1>3. PICK r : r = [s EXCEPT !.row = "failed", !.openings = q]
  OBVIOUS
<1>4. /\ r \in SessType /\ r.racing = s.racing /\ r.destroyed = s.destroyed
      /\ r.chans = s.chans /\ r.writes = s.writes /\ r.row = "failed" /\ r.openings = q
      /\ r.calls = s.calls /\ r.workSelection = s.workSelection /\ r.mode = s.mode
      /\ r.msgs = s.msgs /\ r.socket = s.socket
      /\ Flags(s, r) /\ Jobs(s, r) /\ SameShares(s, r) /\ r.forgot = s.forgot
  BY ONLY s \in SessType, q \in Seq(OpeningType), <1>3, ZenonT(60)
     DEF SessType, Flags, Jobs, SameShares, RowStates
<1>5. /\ SameTasks(s, r) /\ SameReplies(s, r) /\ Open(r) = Open(s)
      /\ DOMAIN r.openings = {}
  BY <1>2, <1>4, SameWrites, NoChans DEF Open
<1>6. SessOK(r, h)
  <2>1. RowOK(r)
    BY <1>2, <1>4, <1>5 DEF SessOK, RowOK, Flags, SameTasks
  <2>2. ToldOK(r)
    BY <1>4, <1>5 DEF SessOK, ToldOK, Told
  <2>3. Counted(r)
    BY <1>4, <1>5 DEF SessOK, Counted, Jobs, SameShares, SameTasks
  <2>4. Apart(r)
    BY <1>4, <1>5 DEF SessOK, Apart, Unused, Unrecorded, Extended, SameShares, SameTasks
  <2>5. Remembered(r)
    BY <1>4, <1>5 DEF SessOK, Remembered, SameShares
  <2>6. CurrentOK(r, h)
    BY <1>4, <1>5 DEF SessOK, CurrentOK, Current, SameShares, SameTasks, Flags
  <2> QED
    BY <2>1, <2>2, <2>3, <2>4, <2>5, <2>6 DEF SessOK
<1>7. Stays(s, r) /\ Quietly(s, r)
  BY <1>4, <1>5, SameCalls DEF Stays, Known, SameTasks
<1>8. Endable(r, lives)
  BY <1>4 DEF Ended, Endable, Flags
<1>9. PICK t : t = Closed(r)
  OBVIOUS
<1>10. /\ t \in SessType /\ SessOK(t, h) /\ Emptied(r, t) /\ Ended(t, lives)
  <2>1. r.socket = "destroyed" => \A i \in DOMAIN r.writes : r.writes[i].fails
    BY <1>4
  <2> QED
    BY <1>4, <1>6, <1>8, <1>9, <2>1, ClosedOK
<1>11. Stays(s, t) /\ Quietly(s, t)
  BY <1>4, <1>7, <1>10, EmptiedStays, StaysTwice, QuietlyTwice
<1>12. Fresh(t)
  BY <1>4, <1>9, MsgsStay DEF Fresh
<1> QED
  BY <1>2, <1>3, <1>9, <1>10, <1>11, <1>12

(* A template is emitted. *)
Emitted(s, jobs, early, clear) ==
    LET u == [s EXCEPT !.jobs = jobs, !.early = early]
    IN  IF s.stream THEN OnTemplate(u, Latest + 1, clear) ELSE u

Emitting(s, jobs, early, clear, g, lives) ==
    /\ s \in SessType /\ Chain(infos) /\ SessOK(s, infos) /\ Ended(s, lives) /\ Fresh(s)
    /\ jobs \in SUBSET s.jobs /\ early \in BOOLEAN /\ clear \in BOOLEAN
    /\ Latest < MaxTemplates /\ \E x \in Nat : clear = (x # LastBlock) /\ g = Append(infos, x)

LEMMA EmittedOK ==
    ASSUME NEW s, NEW jobs, NEW early, NEW clear, NEW g, NEW lives,
           Emitting(s, jobs, early, clear, g, lives), NEW t, t = Emitted(s, jobs, early, clear)
    PROVE  /\ t \in SessType /\ SessOK(t, g) /\ Stays(s, t)
           /\ Quietly(s, t) /\ Ended(t, lives) /\ Fresh(t) /\ Open(t) = Open(s)
<1>0. /\ s \in SessType /\ Chain(infos) /\ SessOK(s, infos) /\ Ended(s, lives) /\ Fresh(s)
      /\ jobs \in SUBSET s.jobs /\ early \in BOOLEAN /\ clear \in BOOLEAN
      /\ Latest < MaxTemplates
  BY DEF Emitting
<1>a. PICK x \in Nat : clear = (x # LastBlock) /\ g = Append(infos, x)
  BY DEF Emitting
<1>1. jobs \in SUBSET Registered
  BY <1>0 DEF SessType
<1>2. PICK u : u = [s EXCEPT !.jobs = jobs, !.early = early]
  OBVIOUS
<1>9. t = IF s.stream THEN OnTemplate(u, Latest + 1, clear) ELSE u
  BY <1>2 DEF Emitted
<1>3. u \in SessType /\ Alike(s, u) /\ u.msgs = s.msgs
  <2>1. s \in SessType /\ early \in BOOLEAN
    BY <1>0
  <2> QED
    BY ONLY <1>1, <1>2, <2>1, ZenonT(60) DEF SessType, Alike, SameShares
<1>4. infos \in Seq(Nat) /\ Latest \in 1..MaxTemplates /\ Latest = Len(infos) /\ infos # << >>
  BY <1>0, EmptySeq DEF Chain, Latest
<1>5. SessOK(u, infos) /\ Stays(s, u) /\ Quietly(s, u) /\ Ended(u, lives)
  BY <1>0, <1>3, <1>4, AlikeOK
<1>6. Fresh(u) /\ Open(u) = Open(s)
  BY <1>0, <1>3 DEF Fresh, Alike, Open
<1>7. CASE ~s.stream
  <2>1. ~u.stream
    BY <1>3, <1>7 DEF Alike
  <2>2. \A ch \in Open(u) : \A j \in u.chans[ch].held :
           u.chans[ch].type = "extended" /\ j.current /\ ~j.retired /\ ~j.custom => FALSE
    BY <1>5, <2>1 DEF SessOK, CurrentOK, Current
  <2>3. SessOK(u, Append(infos, x))
    BY <1>3, <1>4, <1>5, <2>2, ChainOK
  <2>4. t = u
    BY <1>7, <1>9
  <2> QED
    BY ONLY <1>a, <1>3, <1>5, <1>6, <2>3, <2>4
<1>8. CASE s.stream
  <2>1. u.row = "have" /\ (u.destroyed => u.racing)
    BY <1>0, <1>3, <1>8 DEF Alike, SessOK, RowOK, Ended
  <2>2. g \in Seq(Nat) /\ g = Append(infos, x) /\ Len(g) = Latest + 1
    BY <1>a, <1>4, GrownHeights
  <2>3. PICK template \in 1..MaxTemplates : template = Latest + 1 /\ template <= Len(g)
    BY <1>0, <1>4, <2>2, StratumV2SessionAssumption
  <2>4. x = infos[Len(infos)] \/ clear
    BY <1>a DEF LastBlock, Latest
  <2>5. t = OnTemplate(u, template, clear)
    BY <1>8, <1>9, <2>3
  <2>6. /\ t \in SessType /\ SessOK(t, g) /\ Grown(u, t)
        /\ \A m \in Nat : Known(u, m) => Known(t, m)
    <3>1. PICK v : v = OnTemplate(u, template, clear)
      OBVIOUS
    <3>2. clear \in BOOLEAN
      BY <1>0
    <3>3. /\ v \in SessType /\ SessOK(v, g) /\ Grown(u, v)
          /\ \A m \in Nat : Known(u, m) => Known(v, m)
      BY ONLY <1>3, <1>4, <1>5, <2>1, <2>2, <2>3, <2>4, <3>1, <3>2, x \in Nat, OnTemplateOK
    <3> QED
      BY ONLY <2>5, <3>1, <3>3
  <2>7. Stays(u, t) /\ Quietly(u, t) /\ Ended(t, lives)
    BY <1>3, <1>5, <2>1, <2>6, GrownStays
  <2>8. Stays(s, t) /\ Quietly(s, t)
    <3>1. s \in SessType /\ u \in SessType /\ t \in SessType
      BY <1>0, <1>3, <2>6
    <3> QED
      BY ONLY <1>5, <2>7, <3>1, StaysTwice, QuietlyTwice
  <2>9. Fresh(t) /\ Open(t) = Open(s)
    BY <1>6, <2>6 DEF Fresh, Grown, Rest
  <2> QED
    BY ONLY <2>6, <2>7, <2>8, <2>9
<1> QED
  BY <1>7, <1>8
-----------------------------------------------------------------------------
(* The steps of the sessions.                                               *)

(* What the invariant says of the sessions, and of the prefixes: no two     *)
(* connections have a channel of one number, no two channels a prefix, each  *)
(* open extended channel has one, and one that no such channel has is left   *)
(* behind by a connection destroyed with a handler under way.               *)
Typed ==
    /\ sess \in [Conns -> SessType] /\ Chain(infos) /\ BlocksOK
    /\ nextChannel \in Nat \ {0} /\ nextPrefix \in 1..MaxPrefix
    /\ allocated \subseteq (1 .. nextChannel - 1) \X (1..MaxPrefix)
    /\ submitted \cup dropped \subseteq ShareType

SessionOK(c) ==
    /\ SessOK(sess[c], infos) /\ Known(sess[c], nextChannel)
    /\ Ended(sess[c], c \in live) /\ Fresh(sess[c])

PoolOK ==
    /\ \A c, d \in Conns : \A ch \in Open(sess[c]) : ch \in Open(sess[d]) => c = d
    /\ \A a, b \in allocated : a # b => a[1] # b[1] /\ a[2] # b[2]
    /\ \A c \in Conns : \A ch \in Open(sess[c]) :
          Extended(sess[c], ch) => \E a \in allocated : a[1] = ch
    /\ \A a \in allocated :
          \/ \E c \in Conns : a[1] \in Open(sess[c]) /\ Extended(sess[c], a[1])
          \/ \E c \in Conns : sess[c].racing

HoldsInv == Typed /\ PoolOK /\ \A c \in Conns : SessionOK(c)

(* Session c becomes t by a step that opens no channel.                     *)
MovedTo(c, t) ==
    /\ t \in SessType /\ sess' = [sess EXCEPT ![c] = t] /\ allocated' = Released(sess[c], t)
    /\ SessOK(t, infos) /\ Stays(sess[c], t) /\ Fresh(t) /\ Ended(t, c \in live')

(* It leaves the shares under way as they are.                              *)
MovedQuietly(c, t) == MovedTo(c, t) /\ Quietly(sess[c], t)

(* The socket is there, or what was to be written fails.                    *)
Settled(s) == s.socket = "destroyed" => \A i \in DOMAIN s.writes : s.writes[i].fails

(* The rows of the others stay. *)
OnlyRow(c) == \A d \in Conns : d # c => (d \in live' <=> d \in live)

LEMMA KnownUp ==
    ASSUME NEW s \in SessType, NEW m \in Nat, NEW n \in Nat, m <= n, Known(s, m)
    PROVE  Known(s, n)
<1>1. Open(s) \subseteq 1 .. n - 1
  BY DEF Known
<1>2. ASSUME NEW i \in DOMAIN s.writes, Task(s, i).at \in {"opened", "job"}
      PROVE  Task(s, i).ch < n
  <2>1. Task(s, i).ch \in Nat
    BY <1>2, WritesTyped DEF TaskType, JobTask, Act2Task, OpenedTask, TargetTask, ReplyTask
  <2> QED
    BY <1>2, <2>1 DEF Known
<1>3. ASSUME NEW k \in DOMAIN s.openings
      PROVE  s.openings[k].ch < n
  <2>1. s.openings \in Seq(OpeningType)
    BY DEF SessType
  <2>2. s.openings[k] \in OpeningType
    BY <2>1, ElementOfSeq, LenProperties
  <2>3. s.openings[k].ch \in Nat
    BY <2>2 DEF OpeningType
  <2> QED
    BY <2>3 DEF Known
<1> QED
  BY <1>1, <1>2, <1>3 DEF Known

LEMMA EndedIff ==
    ASSUME NEW s, NEW a, NEW b, a <=> b, Ended(s, a)
    PROVE  Ended(s, b)
BY DEF Ended

(* The sessions after a step of one.                                        *)
LEMMA OthersStay ==
    ASSUME HoldsInv, NEW c \in Conns, NEW t \in SessType, sess' = [sess EXCEPT ![c] = t],
           SessOK(t, infos), Known(t, nextChannel'), Ended(t, c \in live'), Fresh(t),
           infos' = infos, OnlyRow(c), nextChannel' \in Nat, nextChannel <= nextChannel'
    PROVE  /\ \A d \in Conns : SessionOK(d)'
           /\ sess' \in [Conns -> SessType] /\ sess'[c] = t
           /\ \A d \in Conns : d # c => sess'[d] = sess[d]
<1>1. sess \in [Conns -> SessType]
  BY DEF HoldsInv, Typed
<1>2. /\ sess' \in [Conns -> SessType] /\ sess'[c] = t
      /\ \A d \in Conns : d # c => sess'[d] = sess[d]
  BY <1>1
<1>3. SessionOK(c)'
  BY <1>2 DEF SessionOK
<1>4. ASSUME NEW d \in Conns, d # c PROVE SessionOK(d)'
  <2>1. /\ SessOK(sess[d], infos) /\ Known(sess[d], nextChannel)
        /\ Ended(sess[d], d \in live) /\ Fresh(sess[d])
    BY DEF HoldsInv, SessionOK
  <2>2. d \in live <=> d \in live'
    BY <1>4 DEF OnlyRow
  <2>3. Ended(sess[d], d \in live')
    BY <2>1, <2>2, EndedIff
  <2>4. sess[d] \in SessType /\ nextChannel \in Nat
    BY <1>1 DEF HoldsInv, Typed
  <2>5. Known(sess[d], nextChannel')
    BY <2>1, <2>4, KnownUp
  <2> QED
    BY <1>2, <1>4, <2>1, <2>3, <2>5 DEF SessionOK
<1> QED
  BY <1>2, <1>3, <1>4

LEMMA PoolStays ==
    ASSUME HoldsInv, NEW c \in Conns, NEW t \in SessType, NEW s, s = sess[c],
           sess' \in [Conns -> SessType], sess'[c] = t,
           \A d \in Conns : d # c => sess'[d] = sess[d],
           Stays(s, t), allocated' = Released(s, t)
    PROVE  PoolOK'
<1>1. /\ \A d, e \in Conns : \A ch \in Open(sess[d]) : ch \in Open(sess[e]) => d = e
      /\ \A a, b \in allocated : a # b => a[1] # b[1] /\ a[2] # b[2]
      /\ \A d \in Conns : \A ch \in Open(sess[d]) :
            Extended(sess[d], ch) => \E a \in allocated : a[1] = ch
      /\ \A a \in allocated :
            \/ \E d \in Conns : a[1] \in Open(sess[d]) /\ Extended(sess[d], a[1])
            \/ \E d \in Conns : sess[d].racing
  BY DEF HoldsInv, PoolOK
<1>2. \A d \in Conns : \A ch \in Open(sess'[d]) :
         ch \in Open(sess[d]) /\ (Extended(sess'[d], ch) <=> Extended(sess[d], ch))
  BY DEF Stays, Extended
<1>3. \A d \in Conns : \A ch \in Open(sess[d]) : d # c \/ ch \in Open(t) => ch \in Open(sess'[d])
  OBVIOUS
<1>4. \A d \in Conns : sess[d].racing => sess'[d].racing
  BY DEF Stays
<1>5. allocated' = {a \in allocated : a[1] \notin Open(s) \ Open(t)}
  BY DEF Released
<1>6. \A d, e \in Conns : \A ch \in Open(sess'[d]) : ch \in Open(sess'[e]) => d = e
  BY <1>1, <1>2
<1>7. \A a, b \in allocated' : a # b => a[1] # b[1] /\ a[2] # b[2]
  BY <1>1, <1>5
<1>8. ASSUME NEW d \in Conns, NEW ch \in Open(sess'[d]), Extended(sess'[d], ch)
      PROVE  \E a \in allocated' : a[1] = ch
  <2>1. PICK a \in allocated : a[1] = ch
    BY <1>1, <1>2, <1>8
  <2>2. ch \notin Open(s) \ Open(t)
    BY <1>1, <1>2, <1>8
  <2> QED
    BY <1>5, <2>1, <2>2
<1>9. ASSUME NEW a \in allocated'
      PROVE  \/ \E d \in Conns : a[1] \in Open(sess'[d]) /\ Extended(sess'[d], a[1])
             \/ \E d \in Conns : sess'[d].racing
  <2>1. a \in allocated /\ a[1] \notin Open(s) \ Open(t)
    BY <1>5
  <2>2. CASE \E d \in Conns : sess[d].racing
    BY <1>4, <2>2
  <2>3. CASE \E d \in Conns : a[1] \in Open(sess[d]) /\ Extended(sess[d], a[1])
    <3>1. PICK d \in Conns : a[1] \in Open(sess[d]) /\ Extended(sess[d], a[1])
      BY <2>3
    <3>2. a[1] \in Open(sess'[d])
      BY <1>3, <2>1, <3>1
    <3> QED
      BY <1>2, <3>1, <3>2
  <2> QED
    BY <1>1, <2>1, <2>2, <2>3
<1> QED
  BY <1>6, <1>7, <1>8, <1>9 DEF PoolOK

LEMMA MovedInv ==
    ASSUME HoldsInv, NEW c \in Conns, NEW t, MovedTo(c, t), UNCHANGED chain, OnlyRow(c),
           nextChannel' \in Nat, nextChannel <= nextChannel', nextPrefix' \in 1..MaxPrefix,
           (submitted \cup dropped)' \subseteq ShareType
    PROVE  HoldsInv'
<1>1. /\ t \in SessType /\ sess' = [sess EXCEPT ![c] = t] /\ allocated' = Released(sess[c], t)
      /\ SessOK(t, infos) /\ Stays(sess[c], t) /\ Fresh(t) /\ Ended(t, c \in live')
  BY DEF MovedTo
<1>2. infos' = infos /\ blocks' = blocks
  BY DEF chain
<1>3. /\ nextChannel \in Nat \ {0} /\ Known(sess[c], nextChannel) /\ Chain(infos) /\ BlocksOK
      /\ allocated \subseteq (1 .. nextChannel - 1) \X (1..MaxPrefix)
  BY DEF HoldsInv, Typed, SessionOK
<1>4. Known(t, nextChannel)
  BY <1>1, <1>3 DEF Stays
<1>5. Known(t, nextChannel')
  BY <1>1, <1>3, <1>4, KnownUp
<1>6. /\ \A d \in Conns : SessionOK(d)'
      /\ sess' \in [Conns -> SessType] /\ sess'[c] = t
      /\ \A d \in Conns : d # c => sess'[d] = sess[d]
  BY <1>1, <1>2, <1>5, OthersStay
<1>7. PoolOK'
  BY <1>1, <1>6, PoolStays
<1>8. allocated' \subseteq (1 .. nextChannel' - 1) \X (1..MaxPrefix)
  <2>1. 1 .. nextChannel - 1 \subseteq 1 .. nextChannel' - 1
    <3>1. \A m, n \in Nat : m <= n => 1 .. m - 1 \subseteq 1 .. n - 1
      OBVIOUS
    <3> QED
      BY <1>3, <3>1
  <2>2. allocated' \subseteq allocated
    BY <1>1 DEF Released
  <2> QED
    BY <1>3, <2>1, <2>2
<1>9. BlocksOK'
  BY <1>2, <1>3 DEF BlocksOK, LastBlock, Latest
<1>10. nextChannel' \in Nat \ {0}
  BY <1>3
<1>11. Typed'
  BY <1>2, <1>3, <1>6, <1>8, <1>9, <1>10 DEF Typed
<1> QED
  BY <1>6, <1>7, <1>11 DEF HoldsInv

(* A frame is read. *)
LEMMA ReadIs ==
    ASSUME HoldsInv, NEW c \in Conns, NEW r, r = Reading(c)
    PROVE  /\ sess[c] \in SessType /\ infos \in Seq(Nat) /\ Chain(infos)
           /\ r \in SessType /\ SessOK(r, infos)
           /\ Stays(sess[c], r) /\ Quietly(sess[c], r)
           /\ Ended(r, c \in live) /\ (r.destroyed => r.racing) /\ r.msgs # 0
           /\ r.chans = sess[c].chans /\ Open(r) = Open(sess[c]) /\ r.writes = sess[c].writes
           /\ r.row = sess[c].row /\ r.calls = sess[c].calls
           /\ r.accepted = sess[c].accepted /\ r.forgot = sess[c].forgot /\ r.mode = sess[c].mode
           /\ Settled(sess[c]) => Settled(r)
<1>1. PICK s \in SessType : s = sess[c]
  BY DEF HoldsInv, Typed
<1>2. SessOK(s, infos) /\ Ended(s, c \in live) /\ Chain(infos) /\ infos \in Seq(Nat)
  BY <1>1 DEF HoldsInv, Typed, SessionOK, Chain
<1>3. r = Read(s)
  BY <1>1 DEF Reading
<1>4. PICK lives : lives = (c \in live)
  OBVIOUS
<1>5. Ended(s, lives)
  BY <1>2, <1>4
<1>6. /\ r \in SessType /\ SessOK(r, infos) /\ Emptied(s, r) /\ Ended(r, lives)
      /\ (r.destroyed => r.racing)
      /\ r.chans = s.chans /\ Open(r) = Open(s) /\ r.writes = s.writes /\ r.row = s.row
      /\ r.socket = s.socket /\ r.calls = s.calls
      /\ SameShares(s, r) /\ r.forgot = s.forgot
  BY <1>2, <1>3, <1>5, ReadOK
<1>7. Stays(s, r) /\ Quietly(s, r)
  BY <1>6, EmptiedStays
<1>8. r.msgs = s.msgs + 1 /\ s.msgs \in Nat
  BY <1>3 DEF Read, SessType
<1>9. r.msgs # 0
  BY <1>8
<1> QED
  BY <1>1, <1>2, <1>4, <1>6, <1>7, <1>9 DEF Settled, SameShares, Quietly

LEMMA ReadMoves ==
    ASSUME HoldsInv, NEW c \in Conns, NEW r, r = Reading(c), NEW t \in SessType,
           Go(c, t), live' = live, SessOK(t, infos), Stays(r, t), Ended(t, c \in live),
           t.msgs = r.msgs
    PROVE  MovedTo(c, t) /\ (Quietly(r, t) => MovedQuietly(c, t))
<1>1. /\ sess[c] \in SessType /\ r \in SessType
      /\ Stays(sess[c], r) /\ Quietly(sess[c], r) /\ r.msgs # 0
  BY ReadIs
<1>2. Stays(sess[c], t) /\ (Quietly(r, t) => Quietly(sess[c], t))
  BY <1>1, StaysTwice, QuietlyTwice
<1>3. Fresh(t)
  BY <1>1 DEF Fresh
<1>4. Ended(t, c \in live')
  BY EndedIff
<1> QED
  BY <1>2, <1>3, <1>4 DEF MovedTo, MovedQuietly, Go

(* Frames that are handled without a share being accepted.                  *)
LEMMA ClosedReading ==
    ASSUME HoldsInv, NEW c \in Conns, Settled(sess[c]), NEW r, r = Reading(c),
           NEW t, t = Closed(r)
    PROVE  /\ t \in SessType /\ SessOK(t, infos) /\ Stays(r, t) /\ Quietly(r, t)
           /\ Ended(t, c \in live) /\ t.msgs = r.msgs /\ Emptied(r, t)
<1>1. /\ r \in SessType /\ SessOK(r, infos) /\ Ended(r, c \in live) /\ infos \in Seq(Nat)
      /\ Settled(r)
  BY ReadIs
<1>2. PICK lives : lives = (c \in live)
  OBVIOUS
<1>3. Endable(r, lives)
  BY <1>1, <1>2 DEF Ended, Endable
<1>4. r.socket = "destroyed" => \A i \in DOMAIN r.writes : r.writes[i].fails
  BY <1>1 DEF Settled
<1>5. t \in SessType /\ SessOK(t, infos) /\ Emptied(r, t) /\ Ended(t, lives)
  BY <1>1, <1>3, <1>4, ClosedOK
<1>6. Stays(r, t) /\ Quietly(r, t)
  BY <1>1, <1>5, EmptiedStays
<1>7. t.msgs = r.msgs
  BY <1>1, MsgsStay
<1> QED
  BY <1>2, <1>5, <1>6, <1>7

LEMMA RefuseMoves ==
    ASSUME HoldsInv, NEW c \in Conns, Settled(sess[c]), Refuse(c)
    PROVE  \E t : MovedQuietly(c, t)
<1>1. PICK r : r = Reading(c)
  OBVIOUS
<1>2. PICK u : u = Closed(r)
  OBVIOUS
<1>3. /\ u \in SessType /\ SessOK(u, infos) /\ Stays(r, u) /\ Quietly(r, u)
      /\ Ended(u, c \in live) /\ u.msgs = r.msgs
  BY <1>1, <1>2, ClosedReading
<1>4. PICK t : t = [u EXCEPT !.more = TRUE]
  OBVIOUS
<1>5. Go(c, t) /\ live' = live
  BY <1>1, <1>2, <1>4 DEF Refuse, Handle, Same, SameLogs
<1>6. infos \in Seq(Nat) /\ r \in SessType
  BY <1>1, ReadIs
<1>7. PICK lives : lives = (c \in live)
  OBVIOUS
<1>8. t \in SessType /\ SessOK(t, infos) /\ Emptied(u, t) /\ Ended(t, lives)
  BY <1>3, <1>4, <1>6, <1>7, MoreEffect
<1>9. t.msgs = u.msgs
  BY <1>3, <1>4 DEF SessType
<1>10. Stays(r, t) /\ Quietly(r, t)
  BY <1>3, <1>6, <1>8, EmptiedStays, StaysTwice, QuietlyTwice
<1> QED
  BY <1>1, <1>3, <1>5, <1>7, <1>8, <1>9, <1>10, ReadMoves

LEMMA OpenTooLargeMoves ==
    ASSUME HoldsInv, NEW c \in Conns, OpenTooLarge(c)
    PROVE  \E t : MovedQuietly(c, t)
<1>1. PICK r : r = Reading(c)
  OBVIOUS
<1>2. /\ r \in SessType /\ SessOK(r, infos) /\ Ended(r, c \in live)
  BY <1>1, ReadIs
<1>3. Stays(r, r) /\ Quietly(r, r)
  BY DEF Stays, Quietly, SameReplies
<1>4. Go(c, r) /\ live' = live
  BY <1>1 DEF OpenTooLarge, SameLogs
<1> QED
  BY <1>1, <1>2, <1>3, <1>4, ReadMoves

LEMMA OpenExhaustedMoves ==
    ASSUME HoldsInv, NEW c \in Conns, Settled(sess[c]), OpenExhausted(c)
    PROVE  \E t : MovedQuietly(c, t)
<1>1. PICK r : r = Reading(c)
  OBVIOUS
<1>2. PICK t : t = Closed(r)
  OBVIOUS
<1>3. /\ t \in SessType /\ SessOK(t, infos) /\ Stays(r, t) /\ Quietly(r, t)
      /\ Ended(t, c \in live) /\ t.msgs = r.msgs
  BY <1>1, <1>2, ClosedReading
<1>4. Go(c, t) /\ live' = live
  BY <1>1, <1>2 DEF OpenExhausted, SameLogs
<1> QED
  BY <1>1, <1>3, <1>4, ReadMoves

(* The channel a frame is about was told of its opening.                    *)
About(c, ch) == ch \in Open(sess[c]) /\ sess[c].chans[ch].told # {}

LEMMA AboutHasRow ==
    ASSUME HoldsInv, NEW c \in Conns, NEW ch, About(c, ch), NEW r, r = Reading(c)
    PROVE  ch \in Open(r) /\ r.row = "have" /\ ch \in Nat
<1>1. /\ sess[c] \in SessType /\ infos \in Seq(Nat) /\ SessOK(sess[c], infos)
  BY ReadIs DEF HoldsInv, SessionOK
<1>2. sess[c].row = "have"
  BY <1>1, ToldHasRow DEF About
<1>3. ch \in Open(r) /\ r.row = sess[c].row /\ r \in SessType
  BY ReadIs DEF About
<1>4. ch \in Nat
  BY <1>3, ChansOf
<1> QED
  BY <1>2, <1>3, <1>4

LEMMA UpdateChannelMoves ==
    ASSUME HoldsInv, NEW c \in Conns, NEW ch, About(c, ch), NEW d \in Difficulties,
           UpdateChannel(c, ch, d)
    PROVE  \E t : MovedQuietly(c, t)
<1>1. PICK r : r = Reading(c)
  OBVIOUS
<1>2. /\ r \in SessType /\ SessOK(r, infos) /\ Ended(r, c \in live) /\ infos \in Seq(Nat)
      /\ (r.destroyed => r.racing)
  BY <1>1, ReadIs
<1>3. ch \in Open(r) /\ r.row = "have"
  BY <1>1, AboutHasRow
<1>4. PICK x \in Nat : x = Clamp(d)
  BY ClampNat, StratumV2SessionAssumption
<1>5. PICK a \in ChanType : a = r.chans[ch]
  BY <1>2, <1>3, ChansOf
<1>6. PICK chan : chan = [a EXCEPT !.diff = x, !.told = @ \cup {x}]
  OBVIOUS
<1>7. chan \in ChanType /\ Retold(a, chan)
  BY <1>6, RetoldChan
<1>8. PICK t : t = With(r, ch, chan)
  OBVIOUS
<1>9. /\ t \in SessType /\ SessOK(t, infos) /\ Grown(r, t)
      /\ \A m \in Nat : Known(r, m) => Known(t, m)
  BY <1>2, <1>3, <1>5, <1>7, <1>8, RetoldSess
<1>10. Stays(r, t) /\ Quietly(r, t) /\ Ended(t, c \in live)
  BY <1>2, <1>9, GrownStays
<1>11. t.msgs = r.msgs
  BY <1>9 DEF Grown, Rest
<1>12. Go(c, t) /\ live' = live
  BY <1>1, <1>4, <1>5, <1>6, <1>8 DEF UpdateChannel, Handle, Same, SameLogs
<1> QED
  BY <1>1, <1>9, <1>10, <1>11, <1>12, ReadMoves

LEMMA CloseChannelMoves ==
    ASSUME HoldsInv, NEW c \in Conns, Settled(sess[c]), NEW ch, About(c, ch),
           CloseChannel(c, ch)
    PROVE  \E t : MovedQuietly(c, t)
<1>1. PICK r : r = Reading(c)
  OBVIOUS
<1>2. /\ r \in SessType /\ SessOK(r, infos) /\ Ended(r, c \in live) /\ infos \in Seq(Nat)
      /\ (r.destroyed => r.racing) /\ Settled(r) /\ Open(r) = Open(sess[c])
  BY <1>1, ReadIs
<1>3. PICK o \in BOOLEAN : o = (r.overtaken \/ sess[c].writes # << >>)
  <2>1. (r.overtaken \/ sess[c].writes # << >>) \in BOOLEAN
    OBVIOUS
  <2> QED
    BY <2>1
<1>4. PICK x : x = [r EXCEPT !.chans = Restrict(@, Open(r) \ {ch}), !.overtaken = o]
  OBVIOUS
<1>5. PICK t : t = IF Open(x) = {} THEN [Closed(x) EXCEPT !.more = TRUE] ELSE x
  OBVIOUS
<1>6. PICK lives : lives = (c \in live)
  OBVIOUS
<1>7. /\ t \in SessType /\ SessOK(t, infos) /\ Emptied(r, t) /\ Ended(t, lives)
  <2>1. r.socket = "destroyed" => \A i \in DOMAIN r.writes : r.writes[i].fails
    BY <1>2 DEF Settled
  <2> QED
    BY <1>2, <1>4, <1>5, <1>6, <2>1, CloseChanOK
<1>8. Stays(r, t) /\ Quietly(r, t)
  BY <1>2, <1>7, EmptiedStays
<1>9. t.msgs = r.msgs
  <2>1. x.msgs = r.msgs
    BY <1>2, <1>4 DEF SessType
  <2>2. Closed(x).msgs = x.msgs
    BY DEF Closed, Destroyed, Torn, Call
  <2>3. [Closed(x) EXCEPT !.more = TRUE].msgs = Closed(x).msgs
    OBVIOUS
  <2> QED
    BY <1>5, <2>1, <2>2, <2>3
<1>10. Go(c, t) /\ live' = live
  BY <1>1, <1>2, <1>3, <1>4, <1>5 DEF CloseChannel, Handle, Same, SameLogs
<1> QED
  BY <1>1, <1>6, <1>7, <1>8, <1>9, <1>10, ReadMoves

LEMMA SetCustomJobMoves ==
    ASSUME HoldsInv, NEW c \in Conns, NEW ch, About(c, ch), SetCustomJob(c, ch)
    PROVE  \E t : MovedQuietly(c, t)
<1>1. PICK r : r = Reading(c)
  OBVIOUS
<1>2. /\ r \in SessType /\ SessOK(r, infos) /\ Ended(r, c \in live) /\ Chain(infos)
      /\ (r.destroyed => r.racing)
  BY <1>1, ReadIs
<1>3. ch \in Open(r) /\ r.row = "have"
  BY <1>1, AboutHasRow
<1>7. PICK t : t = CustomMade(r, ch)
  OBVIOUS
<1>8. Extended(r, ch) /\ Go(c, t) /\ live' = live
  BY <1>1, <1>7 DEF SetCustomJob, CustomMade, Handle, Same, SameLogs
<1>9. /\ t \in SessType /\ SessOK(t, infos) /\ Grown(r, t)
      /\ \A m \in Nat : Known(r, m) => Known(t, m)
  <2>1. Extended(r, ch)
    BY <1>8
  <2> QED
    BY ONLY <1>2, <1>3, <1>7, <2>1, CustomOK
<1>10. Stays(r, t) /\ Quietly(r, t) /\ Ended(t, c \in live)
  BY <1>2, <1>9, GrownStays
<1>11. t.msgs = r.msgs
  BY <1>9 DEF Grown, Rest
<1> QED
  BY <1>1, <1>8, <1>9, <1>10, <1>11, ReadMoves

(* A share is credited that was not before, and its reply is on its way.    *)
Credits(s, t, share) ==
    /\ t.mode = s.mode /\ t.calls = s.calls /\ (s.forgot => t.forgot)
    /\ t.accepted = s.accepted \cup {share}
    /\ Appended(s, t, [at |-> "replied", share |-> share])
    /\ share \in s.accepted => s.forgot

LEMMA SubmitMoves ==
    ASSUME HoldsInv, NEW c \in Conns, NEW ch, About(c, ch), Submit(c, ch)
    PROVE  \/ \E t : MovedQuietly(c, t)
           \/ \E t : \E share \in ShareType :
                 MovedTo(c, t) /\ Credits(sess[c], t, share) /\ share.conn = c
<1>1. PICK r : r = Reading(c)
  OBVIOUS
<1>2. /\ r \in SessType /\ SessOK(r, infos) /\ Ended(r, c \in live) /\ Chain(infos)
      /\ (r.destroyed => r.racing) /\ infos \in Seq(Nat) /\ BlocksOK
      /\ r.chans = sess[c].chans /\ r.writes = sess[c].writes /\ r.calls = sess[c].calls
      /\ r.accepted = sess[c].accepted /\ r.forgot = sess[c].forgot /\ r.mode = sess[c].mode
  BY <1>1, ReadIs DEF HoldsInv, Typed
<1>3. ch \in Open(r) /\ r.row = "have"
  BY <1>1, AboutHasRow
<1>4. PICK lives : lives = (c \in live)
  OBVIOUS
<1>5. PICK n \in r.chans[ch].sent, work \in Work :
         LET t == Remember(r, ch, <<n, work>>)
         IN  IF <<n, work>> \in r.chans[ch].hashes THEN Handle(c, r)
             ELSE IF \A j \in Found(r, ch, n) : work < j.diff THEN Handle(c, t)
             ELSE \E j \in Found(r, ch, n) :
                     LET share == [conn |-> c, job |-> j, work |-> work]
                     IN  Handle(c, Write(
                           [t EXCEPT !.accepted = @ \cup {share},
                                     !.stale = @ \cup {x \in {share} : Stale(j.on)}],
                           [at |-> "replied", share |-> share]))
  BY <1>1, <1>2 DEF Submit
<1>6. n \in Nat \ {0}
  <2>1. r.chans[ch].sent \in SUBSET (Nat \ {0})
    BY <1>2, <1>3, ChansOf DEF ChanType
  <2> QED
    BY <2>1
<1>7. CASE <<n, work>> \in r.chans[ch].hashes
  <2>1. Go(c, r) /\ live' = live
    BY <1>5, <1>7 DEF Handle, Same, SameLogs
  <2>2. Stays(r, r) /\ Quietly(r, r)
    BY DEF Stays, Quietly, SameReplies
  <2> QED
    BY <1>1, <1>2, <2>1, <2>2, ReadMoves
<1>8. CASE <<n, work>> \notin r.chans[ch].hashes /\ \A j \in Found(r, ch, n) : work < j.diff
  <2>1. PICK t : t = Remember(r, ch, <<n, work>>)
    OBVIOUS
  <2>2. Go(c, t) /\ live' = live
    BY <1>5, <1>8, <2>1 DEF Handle, Same, SameLogs
  <2>3. PICK key \in (Nat \ {0}) \X Work : key = <<n, work>>
    BY <1>6
  <2>4. /\ t \in SessType /\ SessOK(t, infos) /\ Stays(r, t) /\ Quietly(r, t)
        /\ Ended(t, lives) /\ t.msgs = r.msgs
    BY <1>2, <1>3, <1>4, <2>1, <2>3, RefusedOK
  <2> QED
    BY <1>1, <1>4, <2>2, <2>4, ReadMoves
<1>9. CASE <<n, work>> \notin r.chans[ch].hashes /\ ~\A j \in Found(r, ch, n) : work < j.diff
  <2>1. PICK job \in Found(r, ch, n) :
           LET share == [conn |-> c, job |-> job, work |-> work]
           IN  Handle(c, Write(
                 [Remember(r, ch, <<n, work>>) EXCEPT
                    !.accepted = @ \cup {share},
                    !.stale = @ \cup {x \in {share} : Stale(job.on)}],
                 [at |-> "replied", share |-> share]))
    BY <1>5, <1>9
  <2>2. job \in JobType
    BY <1>2, <1>3, FoundIs
  <2>3. PICK share \in ShareType : share = [conn |-> c, job |-> job, work |-> work]
    <3>1. [conn |-> c, job |-> job, work |-> work] \in ShareType
      BY <2>2 DEF ShareType
    <3> QED
      BY <3>1
  <2>10. share.conn = c /\ share.job = job /\ share.work = work
    BY <2>3
  <2>11. share.job \in Found(r, ch, n) /\ <<n, share.work>> \notin r.chans[ch].hashes
    BY <1>9, <2>10
  <2>4. PICK t : t = Write(Accepted(Remember(r, ch, <<n, share.work>>), share),
                           [at |-> "replied", share |-> share])
    OBVIOUS
  <2>5. Handle(c, t)
    BY <2>1, <2>3, <2>4, <2>10 DEF Accepted
  <2>6. Go(c, t) /\ live' = live
    BY <2>5 DEF Handle, Same, SameLogs
  <2>7. /\ t \in SessType /\ SessOK(t, infos) /\ Stays(r, t) /\ Ended(t, lives)
        /\ t.msgs = r.msgs
        /\ t.mode = r.mode /\ t.calls = r.calls /\ (r.forgot => t.forgot)
        /\ t.accepted = r.accepted \cup {share}
        /\ Appended(r, t, [at |-> "replied", share |-> share])
        /\ share \in r.accepted => r.forgot
    BY <1>2, <1>3, <1>4, <1>6, <2>4, <2>11, SubmittedOK
  <2>8. MovedTo(c, t)
    BY <1>1, <1>4, <2>6, <2>7, ReadMoves
  <2>9. Credits(sess[c], t, share)
    BY <1>2, <2>7 DEF Credits, Appended
  <2> QED
    BY <2>8, <2>9, <2>10
<1> QED
  BY <1>7, <1>8, <1>9

(* A channel is opened. *)
LEMMA OpenedMsgs ==
    ASSUME NEW s \in SessType, NEW type, NEW d
    PROVE  WithChannel(s, type, d).msgs = s.msgs
<1>1. ASSUME NEW t, NEW ch, NEW first
      PROVE  EnsureRow(t, ch, first).msgs = t.msgs
  <2>1. OpenSuccess(t, ch, first).msgs = t.msgs
    BY DEF OpenSuccess, With, Write
  <2>2. Closed(t).msgs = t.msgs
    BY DEF Closed, Destroyed, Torn, Call
  <2> QED
    BY <2>1, <2>2 DEF EnsureRow
<1>2. PICK x : x = [s EXCEPT !.diff = Clamp(IF d = 0 THEN s.diff ELSE d),
                    !.chans = [ch \in Open(s) \cup {nextChannel} |->
                        IF ch = nextChannel
                        THEN NewChannel(type, Clamp(IF d = 0 THEN s.diff ELSE d)) ELSE @[ch]]]
  OBVIOUS
<1>3. x.msgs = s.msgs
  BY <1>2
<1>4. WithChannel(s, type, d) = EnsureRow(x, nextChannel, Open(s) = {})
  BY <1>2 DEF WithChannel
<1> QED
  BY <1>1, <1>3, <1>4

LEMMA NextIsFree ==
    ASSUME nextPrefix \in 1..MaxPrefix, \E p \in 1..MaxPrefix : ~Used(p)
    PROVE  /\ NextFree \in 1..MaxPrefix /\ ~Used(NextFree)
           /\ (NextFree % MaxPrefix) + 1 \in 1..MaxPrefix
<1> DEFINE Distance(p) == (p - nextPrefix) % MaxPrefix
           free == {p \in 1..MaxPrefix : ~Used(p)}
           away == {Distance(p) : p \in free}
<1>1. MaxPrefix \in Nat \ {0} /\ nextPrefix \in Nat
  BY StratumV2SessionAssumption
<1>2. \A p \in free : Distance(p) \in Nat
  BY <1>1
<1>3. away \in SUBSET Nat /\ away # {}
  BY <1>2
<1>4. PICK least \in away : \A y \in away : least <= y
  BY <1>3, LeastOf
<1>5. PICK p \in free : Distance(p) = least
  OBVIOUS
<1>6. \A q \in free : Distance(p) <= Distance(q)
  BY <1>4, <1>5
<1> HIDE DEF Distance
<1>7. NextFree = CHOOSE x \in free : \A q \in free : Distance(x) <= Distance(q)
  BY DEF NextFree, Distance
<1>8. NextFree \in free
  BY <1>5, <1>6, <1>7
<1>9. NextFree \in 1..MaxPrefix /\ ~Used(NextFree)
  BY <1>8
<1>10. \A x \in Nat, m \in Nat \ {0} : x % m \in 0 .. m - 1
  OBVIOUS
<1>11. NextFree % MaxPrefix \in 0 .. MaxPrefix - 1
  BY <1>1, <1>9, <1>10
<1> QED
  BY <1>1, <1>9, <1>11

(* Session c becomes t by a step that opens the next channel.               *)
OpenedTo(c, t, type) ==
    /\ t \in SessType /\ sess' = [sess EXCEPT ![c] = t]
    /\ SessOK(t, infos) /\ WithOne(sess[c], t, nextChannel, type) /\ Fresh(t)
    /\ Known(t, nextChannel + 1) /\ Ended(t, c \in live')

LEMMA WithMoves ==
    ASSUME HoldsInv, NEW c \in Conns, Settled(sess[c]), NEW d \in OpeningDifficulties,
           NEW type \in {"standard", "extended"}, NEW t, t = WithChannel(Reading(c), type, d),
           sess' = [sess EXCEPT ![c] = t], live' = live
    PROVE  OpenedTo(c, t, type)
<1>1. PICK r : r = Reading(c)
  OBVIOUS
<1>2. /\ sess[c] \in SessType
      /\ r \in SessType /\ SessOK(r, infos) /\ Ended(r, c \in live) /\ infos \in Seq(Nat)
      /\ (r.destroyed => r.racing) /\ Settled(r) /\ Open(r) = Open(sess[c])
      /\ r.chans = sess[c].chans /\ Stays(sess[c], r) /\ Quietly(sess[c], r) /\ r.msgs # 0
  BY <1>1, ReadIs
<1>3. nextChannel \in Nat \ {0} /\ Known(r, nextChannel)
  BY <1>2 DEF HoldsInv, Typed, SessionOK, Stays
<1>4. d \in Nat
  BY StratumV2SessionAssumption
<1>5. PICK lives : lives = (c \in live)
  OBVIOUS
<1>6. /\ t \in SessType /\ SessOK(t, infos) /\ Ended(t, lives)
      /\ WithOne(r, t, nextChannel, type)
      /\ Known(t, nextChannel + 1)
  <2>1. r.socket = "destroyed" => \A i \in DOMAIN r.writes : r.writes[i].fails
    BY <1>2 DEF Settled
  <2> QED
    BY <1>1, <1>2, <1>3, <1>4, <1>5, <2>1, WithChannelOK
<1>7. Quietly(sess[c], t)
  BY <1>2, <1>6, QuietlyTwice DEF WithOne
<1>8. WithOne(sess[c], t, nextChannel, type)
  BY <1>2, <1>6, <1>7 DEF WithOne, Stays
<1>9. Fresh(t)
  BY <1>1, <1>2, OpenedMsgs DEF Fresh
<1>10. Ended(t, c \in live')
  BY <1>5, <1>6, EndedIff
<1> QED
  BY <1>6, <1>8, <1>9, <1>10 DEF OpenedTo

LEMMA OpenedInv ==
    ASSUME HoldsInv, NEW c \in Conns, NEW type \in {"standard", "extended"},
           NEW t, OpenedTo(c, t, type), UNCHANGED chain, live' = live,
           nextChannel' = nextChannel + 1, nextPrefix' \in 1..MaxPrefix,
           (submitted \cup dropped)' \subseteq ShareType,
           \/ type = "standard" /\ allocated' = Released(sess[c], t)
           \/ /\ type = "extended"
              /\ \E p \in 1..MaxPrefix :
                    ~Used(p) /\ allocated' = Released(sess[c], t) \cup {<<nextChannel, p>>}
    PROVE  HoldsInv'
<1>1. /\ t \in SessType /\ sess' = [sess EXCEPT ![c] = t]
      /\ SessOK(t, infos) /\ WithOne(sess[c], t, nextChannel, type) /\ Fresh(t)
      /\ Known(t, nextChannel + 1) /\ Ended(t, c \in live')
  BY DEF OpenedTo
<1>2. infos' = infos /\ blocks' = blocks
  BY DEF chain
<1>3. PICK n \in Nat \ {0} : n = nextChannel
  BY DEF HoldsInv, Typed
<1>4. /\ Chain(infos) /\ BlocksOK /\ allocated \subseteq (1 .. n - 1) \X (1..MaxPrefix)
      /\ \A d \in Conns : Open(sess[d]) \subseteq 1 .. n - 1
  BY <1>3 DEF HoldsInv, Typed, SessionOK, Known
<1>5. n + 1 \in Nat /\ n <= n + 1 /\ 1 .. n - 1 \subseteq 1 .. n + 1 - 1 /\ n \in 1 .. n + 1 - 1
      /\ n \notin 1 .. n - 1
  OBVIOUS
<1>6. /\ \A d \in Conns : SessionOK(d)'
      /\ sess' \in [Conns -> SessType] /\ sess'[c] = t
      /\ \A d \in Conns : d # c => sess'[d] = sess[d]
  BY <1>1, <1>2, <1>3, <1>5, OthersStay DEF OnlyRow
<1>7. PICK s : s = sess[c]
  OBVIOUS
<1>8. PICK kept : kept = {a \in allocated : a[1] \notin Open(s) \ Open(t)}
  OBVIOUS
<1>9. \/ type = "standard" /\ allocated' = kept
      \/ /\ type = "extended"
         /\ \E p \in 1..MaxPrefix : ~Used(p) /\ allocated' = kept \cup {<<n, p>>}
  BY <1>3, <1>7, <1>8 DEF Released
<1>10. /\ Open(t) \subseteq Open(s) \cup {n}
       /\ \A d \in Open(t) : d # n => t.chans[d].type = s.chans[d].type
       /\ n \in Open(t) => t.chans[n].type = type
       /\ n \in Open(t) \/ t.racing
       /\ s.racing => t.racing
  BY <1>1, <1>3, <1>7 DEF WithOne
<1>11. /\ \A d, e \in Conns : \A ch \in Open(sess[d]) : ch \in Open(sess[e]) => d = e
       /\ \A a, b \in allocated : a # b => a[1] # b[1] /\ a[2] # b[2]
       /\ \A d \in Conns : \A ch \in Open(sess[d]) :
             Extended(sess[d], ch) => \E a \in allocated : a[1] = ch
       /\ \A a \in allocated :
             \/ \E d \in Conns : a[1] \in Open(sess[d]) /\ Extended(sess[d], a[1])
             \/ \E d \in Conns : sess[d].racing
  BY DEF HoldsInv, PoolOK
<1>12. \A d \in Conns : n \notin Open(sess[d])
  BY <1>4, <1>5
<1>13. \A d \in Conns : \A ch \in Open(sess'[d]) :
          \/ d = c /\ ch = n
          \/ ch # n /\ ch \in Open(sess[d]) /\ (Extended(sess'[d], ch) <=> Extended(sess[d], ch))
  BY <1>6, <1>7, <1>10, <1>12 DEF Extended
<1>14. \A a \in kept : a \in allocated /\ a[1] # n /\ a[1] \notin Open(s) \ Open(t)
  BY <1>4, <1>5, <1>8
<1>15. \A d, e \in Conns : \A ch \in Open(sess'[d]) : ch \in Open(sess'[e]) => d = e
  <2> SUFFICES ASSUME NEW d \in Conns, NEW e \in Conns,
                      NEW ch \in Open(sess'[d]), ch \in Open(sess'[e])
               PROVE  d = e
    OBVIOUS
  <2>1. (d = c /\ ch = n) \/ (ch # n /\ ch \in Open(sess[d]))
    BY ONLY <1>13, d \in Conns, ch \in Open(sess'[d]), Zenon
  <2>2. (e = c /\ ch = n) \/ (ch # n /\ ch \in Open(sess[e]))
    BY ONLY <1>13, e \in Conns, ch \in Open(sess'[e]), Zenon
  <2>3. CASE ch # n
    BY ONLY <1>11, <2>1, <2>2, <2>3, d \in Conns, e \in Conns, Zenon
  <2> QED
    BY ONLY <2>1, <2>2, <2>3, Zenon
<1>16. \A a, b \in allocated' : a # b => a[1] # b[1] /\ a[2] # b[2]
  <2>1. CASE allocated' = kept
    BY <1>11, <1>14, <2>1
  <2>2. ASSUME NEW p \in 1..MaxPrefix, ~Used(p), allocated' = kept \cup {<<n, p>>}
        PROVE  \A a, b \in allocated' : a # b => a[1] # b[1] /\ a[2] # b[2]
    <3>1. \A a \in kept : a[1] # n /\ a[2] # p
      BY <1>14, <2>2 DEF Used
    <3>2. <<n, p>>[1] = n /\ <<n, p>>[2] = p
      OBVIOUS
    <3> QED
      BY <1>11, <1>14, <2>2, <3>1, <3>2
  <2> QED
    BY <1>9, <2>1, <2>2
<1>17. kept \subseteq allocated' /\ (type = "extended" => \E a \in allocated' : a[1] = n)
  <2>1. \A p : <<n, p>>[1] = n
    OBVIOUS
  <2> QED
    BY <1>9, <2>1
<1>18. ASSUME NEW d \in Conns, NEW ch \in Open(sess'[d]), Extended(sess'[d], ch)
       PROVE  \E a \in allocated' : a[1] = ch
  <2>1. CASE ch = n
    <3>1. d = c
      BY <1>13, <2>1
    <3>2. type = "extended"
      BY <1>6, <1>10, <1>18, <2>1, <3>1 DEF Extended
    <3> QED
      BY <1>17, <2>1, <3>2
  <2>2. CASE ch # n
    <3>1. ch \in Open(sess[d]) /\ Extended(sess[d], ch)
      BY <1>13, <1>18, <2>2
    <3>2. PICK a \in allocated : a[1] = ch
      BY <1>11, <3>1
    <3>3. ch \notin Open(s) \ Open(t)
      BY <1>6, <1>7, <1>11, <3>1
    <3> QED
      BY <1>8, <1>17, <3>2, <3>3
  <2> QED
    BY <2>1, <2>2
<1>19. ASSUME NEW a \in allocated'
       PROVE  \/ \E d \in Conns : a[1] \in Open(sess'[d]) /\ Extended(sess'[d], a[1])
              \/ \E d \in Conns : sess'[d].racing
  <2>1. \A d \in Conns : sess[d].racing => sess'[d].racing
    BY <1>6, <1>7, <1>10
  <2>2. CASE a \in kept
    <3>1. CASE \E d \in Conns : sess[d].racing
      BY <2>1, <3>1
    <3>2. CASE \E d \in Conns : a[1] \in Open(sess[d]) /\ Extended(sess[d], a[1])
      <4>1. PICK d \in Conns : a[1] \in Open(sess[d]) /\ Extended(sess[d], a[1])
        BY <3>2
      <4>2. a[1] \in Open(sess'[d])
        BY <1>6, <1>7, <1>14, <2>2, <4>1
      <4> QED
        BY <1>13, <1>14, <2>2, <4>1, <4>2
    <3> QED
      BY <1>11, <1>14, <2>2, <3>1, <3>2
  <2>3. CASE a \notin kept
    <3>1. a[1] = n /\ type = "extended"
      <4>1. \A p : <<n, p>>[1] = n
        OBVIOUS
      <4> QED
        BY <1>9, <2>3, <4>1
    <3> QED
      BY <1>6, <1>10, <3>1 DEF Extended
  <2> QED
    BY <2>2, <2>3
<1>20. PoolOK'
  BY <1>15, <1>16, <1>18, <1>19 DEF PoolOK
<1>21. allocated' \subseteq (1 .. nextChannel' - 1) \X (1..MaxPrefix)
  <2>1. kept \subseteq (1 .. n + 1 - 1) \X (1..MaxPrefix)
    BY <1>4, <1>5, <1>8
  <2>2. \A p \in 1..MaxPrefix : <<n, p>> \in (1 .. n + 1 - 1) \X (1..MaxPrefix)
    BY <1>5
  <2>3. nextChannel' = n + 1
    BY <1>3
  <2> QED
    BY <1>9, <2>1, <2>2, <2>3
<1>22. BlocksOK'
  BY <1>2, <1>4 DEF BlocksOK, LastBlock, Latest
<1>23. nextChannel' \in Nat \ {0}
  BY <1>3
<1>24. Typed'
  BY <1>2, <1>4, <1>6, <1>21, <1>22, <1>23 DEF Typed
<1> QED
  BY <1>6, <1>20, <1>24 DEF HoldsInv

(* The open of a channel keeps the invariant and the shares under way.      *)
LEMMA OpenStandardInv ==
    ASSUME HoldsInv, NEW c \in Conns, Settled(sess[c]), NEW d \in OpeningDifficulties,
           OpenStandard(c, d)
    PROVE  HoldsInv' /\ \E t : sess' = [sess EXCEPT ![c] = t] /\ Quietly(sess[c], t)
<1>1. PICK t : t = WithChannel(Reading(c), "standard", d)
  OBVIOUS
<1>2. /\ sess' = [sess EXCEPT ![c] = t] /\ allocated' = Released(sess[c], t)
      /\ nextChannel' = nextChannel + 1 /\ UNCHANGED <<chain, nextPrefix>> /\ SameLogs
  BY <1>1 DEF OpenStandard, Go
<1>3. live' = live /\ UNCHANGED logs
  BY <1>2 DEF SameLogs
<1>4. OpenedTo(c, t, "standard")
  BY <1>1, <1>2, <1>3, WithMoves
<1>5. nextPrefix' \in 1..MaxPrefix /\ (submitted \cup dropped)' \subseteq ShareType
  BY <1>2, <1>3 DEF HoldsInv, Typed, logs
<1>6. HoldsInv'
  BY <1>2, <1>3, <1>4, <1>5, OpenedInv
<1> QED
  BY <1>2, <1>4, <1>6 DEF OpenedTo, WithOne

LEMMA OpenExtendedInv ==
    ASSUME HoldsInv, NEW c \in Conns, Settled(sess[c]), NEW d \in OpeningDifficulties,
           OpenExtended(c, d)
    PROVE  HoldsInv' /\ \E t : sess' = [sess EXCEPT ![c] = t] /\ Quietly(sess[c], t)
<1>1. PICK t : t = WithChannel(Reading(c), "extended", d)
  OBVIOUS
<1>2. /\ sess' = [sess EXCEPT ![c] = t]
      /\ allocated' = Released(sess[c], t) \cup {<<nextChannel, NextFree>>}
      /\ nextPrefix' = (NextFree % MaxPrefix) + 1
      /\ nextChannel' = nextChannel + 1 /\ UNCHANGED chain /\ SameLogs
      /\ \E p \in 1..MaxPrefix : ~Used(p)
  BY <1>1 DEF OpenExtended
<1>3. live' = live /\ UNCHANGED logs
  BY <1>2 DEF SameLogs
<1>4. OpenedTo(c, t, "extended")
  BY <1>1, <1>2, <1>3, WithMoves
<1>5. NextFree \in 1..MaxPrefix /\ ~Used(NextFree) /\ (NextFree % MaxPrefix) + 1 \in 1..MaxPrefix
  BY <1>2, NextIsFree DEF HoldsInv, Typed
<1>6. nextPrefix' \in 1..MaxPrefix /\ (submitted \cup dropped)' \subseteq ShareType
  BY <1>2, <1>3, <1>5 DEF HoldsInv, Typed, logs
<1>7. HoldsInv'
  BY <1>2, <1>3, <1>4, <1>5, <1>6, OpenedInv
<1> QED
  BY <1>2, <1>4, <1>7 DEF OpenedTo, WithOne

(* The session before a step. *)
LEMMA SessIs ==
    ASSUME HoldsInv, NEW c \in Conns, NEW s, s = sess[c]
    PROVE  /\ s \in SessType /\ SessOK(s, infos) /\ Known(s, nextChannel)
           /\ Ended(s, c \in live) /\ Fresh(s)
           /\ Chain(infos) /\ infos \in Seq(Nat) /\ BlocksOK /\ sess \in [Conns -> SessType]
BY DEF HoldsInv, Typed, SessionOK, Chain

LEMMA Moves ==
    ASSUME NEW c, NEW s, s = sess[c], NEW t \in SessType, Go(c, t),
           SessOK(t, infos), Stays(s, t), Fresh(t), Ended(t, c \in live')
    PROVE  MovedTo(c, t) /\ (Quietly(s, t) => MovedQuietly(c, t))
BY DEF MovedTo, MovedQuietly, Go

(* The handshake, and the setup of the connection. *)
LEMMA HandshakeMoves ==
    ASSUME HoldsInv, NEW c \in Conns, Handshake(c)
    PROVE  \E t : MovedQuietly(c, t)
<1>1. PICK s : s = sess[c]
  OBVIOUS
<1>2. /\ s \in SessType /\ SessOK(s, infos) /\ Ended(s, c \in live) /\ Fresh(s)
      /\ infos \in Seq(Nat)
  BY <1>1, SessIs
<1>3. PICK lives : lives = (c \in live)
  OBVIOUS
<1>4. PICK r : r = [s EXCEPT !.handshake = "answering"]
  OBVIOUS
<1>5. PICK t : t = Write(r, [at |-> "act2"])
  OBVIOUS
<1>6. ~s.destroyed /\ Go(c, t) /\ live' = live
  BY <1>1, <1>4, <1>5 DEF Handshake, Same, SameLogs
<1>7. /\ r \in SessType /\ SessOK(r, infos) /\ Stays(s, r) /\ Quietly(s, r)
      /\ Ended(r, lives) /\ r.msgs = s.msgs /\ r.row = s.row /\ r.destroyed = s.destroyed
  BY <1>2, <1>3, <1>4, ShakenOK DEF Shakes
<1>8. PICK task : task = [at |-> "act2"]
  OBVIOUS
<1>9. task \in TaskType /\ task.at = "act2"
  BY <1>8 DEF TaskType, Act2Task
<1>10. /\ t \in SessType /\ SessOK(t, infos) /\ Grown(r, t)
       /\ \A m \in Nat : Known(r, m) => Known(t, m)
  BY <1>2, <1>5, <1>7, <1>8, <1>9, WrittenOK
<1>11. Stays(r, t) /\ Quietly(r, t) /\ Ended(t, lives)
  BY <1>6, <1>7, <1>10, GrownStays
<1>12. Stays(s, t) /\ Quietly(s, t)
  BY <1>2, <1>7, <1>10, <1>11, StaysTwice, QuietlyTwice
<1>13. Fresh(t)
  BY <1>2, <1>7, <1>10 DEF Fresh, Grown, Rest
<1>14. Ended(t, c \in live')
  BY <1>3, <1>6, <1>11
<1> QED
  BY <1>1, <1>6, <1>10, <1>12, <1>13, <1>14, Moves

(* The socket or the session is torn down. *)
LEMMA DownMoves ==
    ASSUME HoldsInv, NEW c \in Conns, Settled(sess[c]),
           BadHandshake(c) \/ LoseSocket(c) \/ OnClose(c)
    PROVE  \E t : MovedQuietly(c, t)
<1>1. PICK s : s = sess[c]
  OBVIOUS
<1>2. /\ s \in SessType /\ SessOK(s, infos) /\ Ended(s, c \in live) /\ Fresh(s)
      /\ infos \in Seq(Nat)
  BY <1>1, SessIs
<1>3. PICK lives : lives = (c \in live)
  OBVIOUS
<1>4. Ended(s, lives) /\ Endable(s, lives)
  BY <1>2, <1>3 DEF Ended, Endable
<1>5. s.socket = "destroyed" => \A i \in DOMAIN s.writes : s.writes[i].fails
  BY <1>1 DEF Settled
<1>6. PICK t : /\ Go(c, t) /\ live' = live
               /\ t = Closed(s) \/ t = Torn(s) \/ (t = Destroyed(s) /\ s.socket = "destroyed")
  BY <1>1 DEF BadHandshake, LoseSocket, OnClose, Same, SameLogs
<1>7. t \in SessType /\ SessOK(t, infos) /\ Emptied(s, t) /\ Ended(t, lives)
  <2>1. CASE t = Closed(s)
    BY <1>2, <1>4, <1>5, <2>1, ClosedOK
  <2>2. CASE t = Torn(s)
    BY <1>2, <1>4, <2>2, TornOK
  <2>3. CASE t = Destroyed(s) /\ s.socket = "destroyed"
    BY <1>2, <1>4, <1>5, <2>3, DestroyedOK
  <2> QED
    BY <1>6, <2>1, <2>2, <2>3
<1>8. Stays(s, t) /\ Quietly(s, t)
  BY <1>2, <1>7, EmptiedStays
<1>9. Fresh(t)
  BY <1>2, <1>6, MsgsStay DEF Fresh
<1>10. Ended(t, c \in live')
  BY <1>3, <1>6, <1>7
<1> QED
  BY <1>1, <1>6, <1>7, <1>8, <1>9, <1>10, Moves

LEMMA SetupMoves ==
    ASSUME HoldsInv, NEW c \in Conns, Setup(c)
    PROVE  \E t : MovedQuietly(c, t)
<1>1. PICK s : s = sess[c]
  OBVIOUS
<1>2. /\ s \in SessType /\ SessOK(s, infos) /\ Ended(s, c \in live) /\ Fresh(s)
      /\ infos \in Seq(Nat)
  BY <1>1, SessIs
<1>3. PICK lives : lives = (c \in live)
  OBVIOUS
<1>4. PICK t : t = [s EXCEPT !.workSelection = TRUE]
  OBVIOUS
<1>5. s.msgs = 0 /\ Go(c, t) /\ live' = live
  BY <1>1, <1>4 DEF Setup, Same, SameLogs
<1>6. ~s.stream
  BY <1>2, <1>5 DEF Fresh, SessOK, RowOK
<1>7. /\ t \in SessType /\ SessOK(t, infos) /\ Stays(s, t) /\ Quietly(s, t)
      /\ Ended(t, lives) /\ t.msgs = s.msgs /\ t.row = s.row
  BY <1>2, <1>3, <1>4, <1>6, SetupOK
<1>8. Fresh(t) /\ Ended(t, c \in live')
  BY <1>2, <1>3, <1>5, <1>7 DEF Fresh
<1> QED
  BY <1>1, <1>5, <1>7, <1>8, Moves

(* The timer and the row. *)
LEMMA CheckDifficultyMoves ==
    ASSUME HoldsInv, NEW c \in Conns, NEW d \in Difficulties, CheckDifficulty(c, d)
    PROVE  \E t : MovedQuietly(c, t)
<1>1. PICK s : s = sess[c]
  OBVIOUS
<1>2. /\ s \in SessType /\ SessOK(s, infos) /\ Ended(s, c \in live) /\ Fresh(s)
      /\ Chain(infos)
  BY <1>1, SessIs
<1>3. PICK lives : lives = (c \in live)
  OBVIOUS
<1>4. PICK x \in Nat : x = Clamp(d)
  BY ClampNat, StratumV2SessionAssumption
<1>5. PICK t : t = SetTargets([s EXCEPT !.diff = x, !.msgs = @ + 1], 0)
  OBVIOUS
<1>6. s.stream /\ Go(c, t) /\ live' = live
  BY <1>1, <1>4, <1>5 DEF CheckDifficulty, Same, SameLogs
<1>7. /\ t \in SessType /\ SessOK(t, infos) /\ Stays(s, t) /\ Quietly(s, t)
      /\ Ended(t, lives) /\ Fresh(t)
  BY <1>2, <1>3, <1>5, <1>6, TimerOK
<1>8. Ended(t, c \in live')
  BY <1>3, <1>6, <1>7
<1> QED
  BY <1>1, <1>6, <1>7, <1>8, Moves

LEMMA InsertRowMoves ==
    ASSUME HoldsInv, NEW c \in Conns, InsertRow(c)
    PROVE  \E t : MovedQuietly(c, t)
<1>1. PICK s : s = sess[c]
  OBVIOUS
<1>2. /\ s \in SessType /\ SessOK(s, infos) /\ Ended(s, c \in live) /\ Fresh(s)
      /\ infos \in Seq(Nat)
  BY <1>1, SessIs
<1>3. PICK t : t = OpenAll([s EXCEPT !.row = "have"])
  OBVIOUS
<1>4. s.row = "inserting" /\ Go(c, t) /\ live' = live \cup {c}
  BY <1>1, <1>3 DEF InsertRow
<1>5. Ended(s, FALSE)
  BY <1>2 DEF Ended
<1>6. /\ t \in SessType /\ SessOK(t, infos) /\ Quietly(s, t) /\ Ended(t, TRUE)
      /\ Open(t) = Open(s) /\ t.racing = s.racing
      /\ \A ch \in Open(s) : t.chans[ch].type = s.chans[ch].type
      /\ \A m \in Nat : Known(s, m) => Known(t, m)
  BY <1>2, <1>3, <1>4, <1>5, OpenAllOK
<1>7. Stays(s, t)
  BY <1>6 DEF Stays
<1>8. t.msgs = s.msgs
  BY <1>3 DEF OpenAll
<1>9. Fresh(t)
  BY <1>2, <1>4, <1>8 DEF Fresh
<1>10. Ended(t, c \in live')
  <2>1. TRUE <=> c \in live'
    BY <1>4
  <2> QED
    BY <1>6, <2>1, EndedIff
<1> QED
  BY <1>1, <1>4, <1>6, <1>7, <1>9, <1>10, Moves

LEMMA FailRowMoves ==
    ASSUME HoldsInv, NEW c \in Conns, Settled(sess[c]), FailRow(c)
    PROVE  \E t : MovedQuietly(c, t)
<1>1. PICK s : s = sess[c]
  OBVIOUS
<1>2. /\ s \in SessType /\ SessOK(s, infos) /\ Ended(s, c \in live) /\ Fresh(s)
      /\ infos \in Seq(Nat)
  BY <1>1, SessIs
<1>3. PICK lives : lives = (c \in live)
  OBVIOUS
<1>4. PICK t : t = Closed([s EXCEPT !.row = "failed", !.openings = << >>])
  OBVIOUS
<1>5. s.row = "inserting" /\ Go(c, t) /\ live' = live
  BY <1>1, <1>4 DEF FailRow, Same, SameLogs
<1>6. s.socket = "destroyed" => \A i \in DOMAIN s.writes : s.writes[i].fails
  BY <1>1 DEF Settled
<1>7. /\ t \in SessType /\ SessOK(t, infos) /\ Stays(s, t) /\ Quietly(s, t)
      /\ Ended(t, lives) /\ Fresh(t)
  BY <1>2, <1>3, <1>4, <1>5, <1>6, FailedOK
<1>8. Ended(t, c \in live')
  BY <1>3, <1>5, <1>7
<1> QED
  BY <1>1, <1>5, <1>7, <1>8, Moves

(* A write ends. *)
LEMMA DoneIs ==
    ASSUME HoldsInv, NEW c \in Conns, NEW s, s = sess[c], NEW i \in DOMAIN s.writes,
           NEW r, r = Done(s, i)
    PROVE  /\ r \in SessType /\ SessOK(r, infos) /\ Stays(s, r)
           /\ Ended(r, c \in live) /\ Fresh(r) /\ r.row = s.row
           /\ Task(s, i).at = "job" => Free(r, Task(s, i))
           /\ Settled(s) => Settled(r)
           /\ ~s.writes[i].fails => (r.destroyed => r.racing)
<1>1. /\ s \in SessType /\ SessOK(s, infos) /\ Ended(s, c \in live) /\ Fresh(s)
      /\ infos \in Seq(Nat)
  BY SessIs
<1>2. /\ r \in SessType /\ Rest(s, r) /\ Flags(s, r) /\ Jobs(s, r)
      /\ r.chans = s.chans /\ Open(r) = Open(s)
      /\ \A j \in DOMAIN r.writes :
            \E k \in DOMAIN s.writes : /\ k # i /\ r.writes[j] = s.writes[k]
                                       /\ k = IF j < i THEN j ELSE j + 1
  BY <1>1, DoneEffect
<1>3. /\ SessOK(r, infos)
      /\ \A m \in Nat : Known(s, m) => Known(r, m)
      /\ Task(s, i).at = "job" => Free(r, Task(s, i))
  BY <1>1, DoneOK
<1>4. Stays(s, r)
  BY <1>2, <1>3 DEF Stays, Rest
<1>5. Ended(r, c \in live)
  BY <1>1, <1>2 DEF Ended, Rest, Flags
<1>6. Fresh(r) /\ r.row = s.row
  BY <1>1, <1>2 DEF Fresh, Rest
<1>7. Settled(s) => Settled(r)
  BY <1>2 DEF Settled, Rest
<1>8. ~s.writes[i].fails => (r.destroyed => r.racing)
  BY <1>1, <1>2 DEF Ended, Rest
<1> QED
  BY <1>2, <1>3, <1>4, <1>5, <1>6, <1>7, <1>8

(* The call that follows a reply. *)
NextCall(share) ==
    IF share.work >= NetworkDifficulty /\ ~share.job.custom THEN "node" ELSE "record"

LEMMA WriteEndsMoves ==
    ASSUME HoldsInv, NEW c \in Conns, NEW s, s = sess[c], NEW i \in DOMAIN s.writes,
           WriteEnds(c, i)
    PROVE  \E t : /\ MovedTo(c, t)
                  /\ IF Task(s, i).at = "replied"
                     THEN t = Call(Done(s, i), NextCall(Task(s, i).share), Task(s, i).share)
                     ELSE Quietly(Done(s, i), t)
<1>1. /\ s \in SessType /\ SessOK(s, infos) /\ Chain(infos) /\ infos \in Seq(Nat)
  BY SessIs
<1>2. PICK r : r = Done(s, i)
  OBVIOUS
<1>3. PICK task \in TaskType : task = Task(s, i)
  BY <1>1, WritesTyped
<1>4. PICK t : t = After(r, task)
  OBVIOUS
<1>5. ~s.writes[i].fails /\ Go(c, t) /\ live' = live
  BY <1>2, <1>3, <1>4 DEF WriteEnds, Same, SameLogs, Task
<1>6. /\ r \in SessType /\ SessOK(r, infos) /\ Stays(s, r)
      /\ Ended(r, c \in live) /\ Fresh(r) /\ r.row = s.row
      /\ task.at = "job" => Free(r, task)
      /\ (r.destroyed => r.racing)
  BY <1>2, <1>3, <1>5, DoneIs
<1>7. PICK lives : lives = (c \in live)
  OBVIOUS
<1>8. task.at # "act2" => r.row = "have"
  BY <1>1, <1>3, <1>6 DEF SessOK, RowOK
<1>9. CASE task.at = "act2"
  <2>1. t = [r EXCEPT !.handshake = "done"]
    BY <1>4, <1>9 DEF After
  <2>2. /\ t \in SessType /\ SessOK(t, infos) /\ Stays(r, t) /\ Quietly(r, t)
        /\ Ended(t, lives) /\ t.msgs = r.msgs /\ t.row = r.row
    BY <1>1, <1>6, <1>7, <2>1, ShakenOK DEF Shakes
  <2>3. Stays(s, t) /\ Fresh(t) /\ Ended(t, c \in live')
    BY <1>1, <1>5, <1>6, <1>7, <2>2, StaysTwice DEF Fresh
  <2>4. MovedTo(c, t)
    BY <1>5, <2>2, <2>3, Moves
  <2> QED
    BY <1>2, <1>3, <1>9, <2>2, <2>4
<1>10. CASE task.at = "replied"
  <2>1. PICK share \in ShareType : share = task.share
    BY <1>10 DEF TaskType, JobTask, Act2Task, OpenedTask, TargetTask, ReplyTask
  <2>2. PICK at \in {"node", "record"} : at = NextCall(share)
    BY DEF NextCall
  <2>3. t = Call(r, at, share)
    BY <1>4, <1>10, <2>1, <2>2 DEF After, NextCall
  <2>4. /\ t \in SessType /\ SessOK(t, infos) /\ Stays(r, t) /\ ButCalls(r, t)
        /\ Ended(t, lives)
    BY <1>1, <1>6, <1>7, <1>8, <1>10, <2>3, RepliedOK
  <2>5. Stays(s, t) /\ Fresh(t) /\ Ended(t, c \in live')
    BY <1>1, <1>5, <1>6, <1>7, <2>4, StaysTwice DEF Fresh, ButCalls
  <2>6. MovedTo(c, t)
    BY <1>5, <2>4, <2>5, Moves
  <2> QED
    BY <1>2, <1>3, <1>10, <2>1, <2>2, <2>3, <2>6
<1>11. CASE task.at \notin {"act2", "replied"}
  <2>1. task.at \in {"job", "active"} => task.template <= Len(infos)
    BY <1>1, <1>3 DEF SessOK, CurrentOK
  <2>2. /\ t \in SessType /\ SessOK(t, infos) /\ Grown(r, t)
        /\ \A m \in Nat : Known(r, m) /\ (task.at = "opened" => task.ch < m) => Known(t, m)
    BY <1>4, <1>1, <1>6, <1>8, <1>11, <2>1, AfterOK
  <2>3. ASSUME NEW m \in Nat, Known(s, m) PROVE Known(t, m)
    <3>1. Known(r, m)
      BY <1>6, <2>3 DEF Stays
    <3>2. task.at = "opened" => task.ch < m
      BY <1>3, <2>3 DEF Known
    <3> QED
      BY <2>2, <3>1, <3>2
  <2>4. Stays(s, t)
    BY <1>6, <2>2, <2>3 DEF Stays, Grown, Rest
  <2>5. Quietly(r, t)
    BY <2>2, GrownQuietly
  <2>6. Ended(t, c \in live')
    BY <1>5, <1>6, <2>2 DEF Ended, Grown, Rest
  <2>7. Fresh(t)
    BY <1>6, <2>2 DEF Fresh, Grown, Rest
  <2>8. MovedTo(c, t)
    BY <1>5, <2>2, <2>4, <2>6, <2>7, Moves
  <2> QED
    BY <1>2, <1>3, <1>11, <2>5, <2>8
<1> QED
  BY <1>9, <1>10, <1>11

LEMMA WriteFailsMoves ==
    ASSUME HoldsInv, NEW c \in Conns, NEW s, s = sess[c], Settled(s),
           NEW i \in DOMAIN s.writes, WriteFails(c, i)
    PROVE  /\ \E t : MovedTo(c, t) /\ Quietly(Done(s, i), t)
           /\ dropped' = IF Task(s, i).at = "replied" THEN dropped \cup {Task(s, i).share}
                         ELSE dropped
           /\ Task(s, i).at = "replied" => Task(s, i).share \in ShareType
<1>1. /\ s \in SessType /\ SessOK(s, infos) /\ Chain(infos) /\ infos \in Seq(Nat)
  BY SessIs
<1>2. PICK r : r = Done(s, i)
  OBVIOUS
<1>3. PICK t : t = Closed(r)
  OBVIOUS
<1>4. /\ Go(c, t) /\ live' = live
      /\ dropped' = IF Task(s, i).at = "replied" THEN dropped \cup {Task(s, i).share}
                    ELSE dropped
  BY <1>2, <1>3 DEF WriteFails, Task
<1>5. /\ r \in SessType /\ SessOK(r, infos) /\ Stays(s, r)
      /\ Ended(r, c \in live) /\ Fresh(r) /\ Settled(r)
  BY <1>2, DoneIs
<1>6. PICK lives : lives = (c \in live)
  OBVIOUS
<1>7. Endable(r, lives)
  BY <1>5, <1>6 DEF Ended, Endable
<1>8. r.socket = "destroyed" => \A k \in DOMAIN r.writes : r.writes[k].fails
  BY <1>5 DEF Settled
<1>9. t \in SessType /\ SessOK(t, infos) /\ Emptied(r, t) /\ Ended(t, lives)
  BY <1>1, <1>3, <1>5, <1>7, <1>8, ClosedOK
<1>10. Stays(s, t) /\ Quietly(r, t)
  BY <1>1, <1>5, <1>9, EmptiedStays, StaysTwice
<1>11. Fresh(t)
  BY <1>3, <1>5, MsgsStay DEF Fresh
<1>12. Ended(t, c \in live')
  BY <1>4, <1>6, <1>9
<1>13. MovedTo(c, t)
  BY <1>4, <1>9, <1>10, <1>11, <1>12, Moves
<1>14. Task(s, i).at = "replied" => Task(s, i).share \in ShareType
  BY <1>1, WritesTyped DEF TaskType, JobTask, Act2Task, OpenedTask, TargetTask, ReplyTask
<1> QED
  BY <1>2, <1>4, <1>10, <1>13, <1>14

(* A call ends. *)
LEMMA CallIs ==
    ASSUME HoldsInv, NEW c \in Conns, NEW s, s = sess[c], NEW i, NEW at, Called(c, i, at)
    PROVE  /\ i \in DOMAIN s.calls /\ s.calls[i].at = at /\ ShareOf(c, i) = s.calls[i].share
           /\ at # "delete" => s.calls[i] \in ShareCall /\ s.calls[i].share \in ShareType
<1>1. s \in SessType
  BY SessIs
<1>2. i \in DOMAIN s.calls /\ s.calls[i].at = at /\ ShareOf(c, i) = s.calls[i].share
  BY DEF Called, ShareOf
<1>3. at # "delete" => s.calls[i] \in ShareCall
  BY <1>1, <1>2, CallsTyped
<1> QED
  BY <1>2, <1>3 DEF ShareCall

LEMMA FinishedMoves ==
    ASSUME HoldsInv, NEW c \in Conns, NEW s, s = sess[c], NEW i \in DOMAIN s.calls,
           Go(c, Finished(s, i)), c \in live' => s.calls[i].at # "delete"
    PROVE  MovedTo(c, Finished(s, i))
<1>1. /\ s \in SessType /\ SessOK(s, infos) /\ Ended(s, c \in live) /\ Fresh(s)
      /\ infos \in Seq(Nat)
  BY SessIs
<1>2. PICK lives : lives = (c \in live)
  OBVIOUS
<1>3. PICK t : t = Finished(s, i)
  OBVIOUS
<1>4. /\ t \in SessType /\ SessOK(t, infos) /\ Stays(s, t) /\ ButCalls(s, t)
      /\ \A l : ~l \/ s.calls[i].at # "delete" => Ended(t, l)
  BY <1>1, <1>2, <1>3, FinishedOK
<1>5. Ended(t, c \in live')
  <2>1. PICK l : l = (c \in live')
    OBVIOUS
  <2>2. ~l \/ s.calls[i].at # "delete"
    BY <2>1
  <2> QED
    BY <1>4, <2>1, <2>2
<1>6. Fresh(t)
  BY <1>1, <1>4 DEF Fresh, ButCalls
<1> QED
  BY <1>3, <1>4, <1>5, <1>6, Moves

LEMMA CallGoesMoves ==
    ASSUME HoldsInv, NEW c \in Conns, NEW s, s = sess[c], NEW i \in DOMAIN s.calls,
           NEW at \in {"node", "save", "record", "touch"}, s.calls[i].at # "delete",
           Go(c, CallGoes(s, i, at)), live' = live
    PROVE  MovedTo(c, CallGoes(s, i, at))
<1>1. /\ s \in SessType /\ SessOK(s, infos) /\ Ended(s, c \in live) /\ Fresh(s)
      /\ infos \in Seq(Nat)
  BY SessIs
<1>2. PICK lives : lives = (c \in live)
  OBVIOUS
<1>3. PICK t : t = CallGoes(s, i, at)
  OBVIOUS
<1>4. /\ t \in SessType /\ SessOK(t, infos) /\ Stays(s, t) /\ ButCalls(s, t)
      /\ Ended(t, lives)
  BY <1>1, <1>2, <1>3, CallGoesOK
<1>5. Ended(t, c \in live')
  BY <1>2, <1>4
<1>6. Fresh(t)
  BY <1>1, <1>4 DEF Fresh, ButCalls
<1> QED
  BY <1>3, <1>4, <1>5, <1>6, Moves

LEMMA CallFailsMoves ==
    ASSUME HoldsInv, NEW c \in Conns, NEW s, s = sess[c], Settled(s), NEW i, CallFails(c, i)
    PROVE  \E t : MovedTo(c, t) /\ Quietly(Finished(s, i), t)
<1>1. /\ s \in SessType /\ SessOK(s, infos) /\ Ended(s, c \in live) /\ Fresh(s)
      /\ infos \in Seq(Nat)
  BY SessIs
<1>2. i \in DOMAIN s.calls /\ s.calls[i].at # "delete"
  BY CallIs DEF CallFails
<1>3. PICK lives : lives = (c \in live)
  OBVIOUS
<1>4. PICK r : r = Finished(s, i)
  OBVIOUS
<1>5. PICK t : t = Closed(r)
  OBVIOUS
<1>6. Go(c, t) /\ live' = live
  BY <1>4, <1>5 DEF CallFails
<1>7. /\ r \in SessType /\ SessOK(r, infos) /\ Stays(s, r) /\ ButCalls(s, r)
      /\ \A l : ~l \/ s.calls[i].at # "delete" => Ended(r, l)
  BY <1>1, <1>2, <1>3, <1>4, FinishedOK
<1>8. Endable(r, lives)
  BY <1>2, <1>7 DEF Ended, Endable
<1>9. r.socket = "destroyed" => \A k \in DOMAIN r.writes : r.writes[k].fails
  BY <1>7 DEF Settled, ButCalls
<1>10. t \in SessType /\ SessOK(t, infos) /\ Emptied(r, t) /\ Ended(t, lives)
  BY <1>1, <1>5, <1>7, <1>8, <1>9, ClosedOK
<1>11. Stays(s, t) /\ Quietly(r, t)
  BY <1>1, <1>7, <1>10, EmptiedStays, StaysTwice
<1>12. Fresh(t)
  BY <1>1, <1>5, <1>7, MsgsStay DEF Fresh, ButCalls
<1>13. Ended(t, c \in live')
  BY <1>3, <1>6, <1>10
<1>14. MovedTo(c, t)
  BY <1>6, <1>10, <1>11, <1>12, <1>13, Moves
<1> QED
  BY <1>4, <1>11, <1>14

-----------------------------------------------------------------------------
(* The invariant holds. *)

LEMMA NewSessionOK ==
    ASSUME NEW mode \in PayoutModes, NEW s, s = NewSession(mode), NEW h \in Seq(Nat)
    PROVE  /\ s \in SessType /\ SessOK(s, h) /\ Known(s, 1) /\ Ended(s, FALSE) /\ Fresh(s)
           /\ Open(s) = {} /\ s.accepted = {}
           /\ DOMAIN s.writes = {} /\ DOMAIN s.calls = {}
<1>1. << >> \in ChansType /\ DOMAIN << >> = {}
  BY NoChans
<1>2. StartDifficulty \in Nat
  BY StratumV2SessionAssumption
<1>3. << >> \in Seq(OpeningType) /\ << >> \in Seq(WriteType) /\ << >> \in Seq(CallType)
  OBVIOUS
<1>4. /\ s.handshake = "act1" /\ s.socket = "open" /\ ~s.destroyed /\ s.row = "none"
      /\ ~s.stream /\ s.chans = << >> /\ s.openings = << >> /\ s.writes = << >>
      /\ s.calls = << >> /\ s.accepted = {} /\ s.stale = {} /\ ~s.racing /\ s.msgs = 0
      /\ s.made = 0
  BY DEF NewSession
<1>5. s \in SessType
  BY <1>1, <1>2, <1>3 DEF NewSession, SessType, Shakes, Sockets, RowStates
<1>6. /\ Open(s) = {} /\ DOMAIN s.writes = {} /\ DOMAIN s.openings = {} /\ DOMAIN s.calls = {}
  BY <1>1, <1>4 DEF Open
<1>7. SessOK(s, h)
  <2>1. RowOK(s)
    BY <1>4, <1>6 DEF RowOK
  <2>2. ToldOK(s) /\ Counted(s) /\ Apart(s) /\ Remembered(s)
    BY <1>4, <1>6 DEF ToldOK, Counted, Apart, Remembered
  <2>3. CurrentOK(s, h)
    BY <1>4, <1>6 DEF CurrentOK
  <2> QED
    BY <2>1, <2>2, <2>3 DEF SessOK
<1>8. Known(s, 1) /\ Ended(s, FALSE) /\ Fresh(s)
  BY <1>4, <1>6 DEF Known, Ended, Fresh
<1> QED
  BY <1>4, <1>5, <1>6, <1>7, <1>8

LEMMA HoldsInit == Init => HoldsInv
<1> SUFFICES ASSUME Init PROVE HoldsInv
  OBVIOUS
<1>1. PICK mode \in [Conns -> PayoutModes] : sess = [c \in Conns |-> NewSession(mode[c])]
  BY DEF Init
<1>2. /\ infos = <<1>> /\ blocks = {1} /\ allocated = {} /\ nextPrefix = 1
      /\ nextChannel = 1 /\ live = {} /\ dropped = {} /\ submitted = {}
  BY DEF Init
<1>3. MaxTemplates \in Nat \ {0} /\ MaxPrefix \in Nat \ {0}
  BY StratumV2SessionAssumption
<1>4. infos \in Seq(Nat) /\ Len(infos) = 1 /\ infos[1] = 1
  BY <1>2
<1>5. Chain(infos)
  BY <1>3, <1>4 DEF Chain
<1>6. \A c \in Conns : /\ sess[c] \in SessType /\ SessOK(sess[c], infos) /\ Known(sess[c], 1)
                       /\ Ended(sess[c], FALSE) /\ Fresh(sess[c]) /\ Open(sess[c]) = {}
  BY <1>1, <1>4, NewSessionOK
<1>7. sess \in [Conns -> SessType]
  BY <1>1, <1>6
<1>8. BlocksOK
  BY <1>2, <1>4 DEF BlocksOK, LastBlock, Latest
<1>9. Typed
  BY <1>2, <1>3, <1>5, <1>7, <1>8 DEF Typed
<1>10. PoolOK
  BY <1>2, <1>6 DEF PoolOK
<1>11. ASSUME NEW c \in Conns PROVE SessionOK(c)
  <2>1. FALSE <=> c \in live
    BY <1>2
  <2>2. Ended(sess[c], c \in live)
    BY <1>6, <2>1 DEF Ended
  <2> QED
    BY <1>2, <1>6, <2>2 DEF SessionOK
<1> QED
  BY <1>9, <1>10, <1>11 DEF HoldsInv

LEMMA EmitHolds ==
    ASSUME HoldsInv, NEW info \in {LastBlock, LastBlock + 1}, NEW height \in Heights,
           NEW old \in 0..Latest, EmitTemplate(info, height, old)
    PROVE  /\ HoldsInv'
           /\ sess' \in [Conns -> SessType] /\ \A c \in Conns : Quietly(sess[c], sess'[c])
<1>1. /\ infos \in Seq(Nat) /\ Latest \in 1..MaxTemplates /\ Latest = Len(infos)
      /\ infos # << >> /\ BlocksOK /\ Chain(infos) /\ sess \in [Conns -> SessType]
  BY EmptySeq DEF HoldsInv, Typed, Chain, Latest
<1>2. LastBlock \in Nat /\ info \in Nat
  <2>1. infos[Len(infos)] \in Nat
    BY <1>1, ElementOfSeq
  <2> QED
    BY <2>1 DEF LastBlock, Latest
<1>3. PICK clear \in BOOLEAN : clear = (info # LastBlock)
  OBVIOUS
<1>4. PICK g \in Seq(Nat) : g = Append(infos, info)
  BY <1>1, <1>2, GrownHeights
<1>5. /\ Len(g) = Latest + 1 /\ \A t \in 1..Latest : g[t] = infos[t]
      /\ g[Latest + 1] = info /\ infos' = g /\ Latest < MaxTemplates
  <2>1. infos' = g /\ Latest < MaxTemplates
    BY <1>4 DEF EmitTemplate
  <2>2. /\ Len(g) = Len(infos) + 1 /\ \A t \in 1..Len(infos) : g[t] = infos[t]
        /\ g[Len(g)] = info
    BY <1>1, <1>2, <1>4, GrownHeights
  <2> QED
    BY <1>1, <2>1, <2>2
<1>6. Latest' = Latest + 1 /\ LastBlock' = info
  BY <1>5 DEF Latest, LastBlock
<1>7. Chain(g)
  BY <1>1, <1>5, StratumV2SessionAssumption DEF Chain
<1>8. UNCHANGED <<pool, live, logs>>
  BY DEF EmitTemplate
<1>9. PICK jobs, early :
         sess' = [c \in Conns |->
             IF sess[c].stream
             THEN OnTemplate([sess[c] EXCEPT !.jobs = jobs[c], !.early = early[c]],
                             Latest + 1, clear)
             ELSE [sess[c] EXCEPT !.jobs = jobs[c], !.early = early[c]]]
         /\ \A c \in Conns : jobs[c] \in SUBSET sess[c].jobs /\ early[c] \in BOOLEAN
  <2>1. PICK jobs : jobs = [c \in Conns |-> {j \in sess[c].jobs : ~clear /\ j.template > old}]
    OBVIOUS
  <2>2. PICK early : early = [c \in Conns |-> sess[c].early \/ (clear /\ ~sess[c].stream
                                                               /\ Open(sess[c]) # {})]
    OBVIOUS
  <2>3. \A c \in Conns : jobs[c] \in SUBSET sess[c].jobs /\ early[c] \in BOOLEAN
    BY <2>1, <2>2
  <2>4. sess' = [c \in Conns |->
             IF sess[c].stream
             THEN OnTemplate([sess[c] EXCEPT !.jobs = jobs[c], !.early = early[c]],
                             Latest + 1, clear)
             ELSE [sess[c] EXCEPT !.jobs = jobs[c], !.early = early[c]]]
    BY <1>3, <2>1, <2>2 DEF EmitTemplate
  <2> QED
    BY <2>3, <2>4
<1>10. ASSUME NEW c \in Conns
       PROVE  /\ sess'[c] \in SessType /\ SessOK(sess'[c], g) /\ Stays(sess[c], sess'[c])
              /\ Quietly(sess[c], sess'[c]) /\ Ended(sess'[c], c \in live)
              /\ Fresh(sess'[c]) /\ Open(sess'[c]) = Open(sess[c])
  <2>1. PICK s : s = sess[c]
    OBVIOUS
  <2>2. /\ s \in SessType /\ SessOK(s, infos) /\ Ended(s, c \in live) /\ Fresh(s)
    BY <2>1, SessIs
  <2>3. PICK lives : lives = (c \in live)
    OBVIOUS
  <2>4. PICK js \in SUBSET s.jobs, e \in BOOLEAN : js = jobs[c] /\ e = early[c]
    BY <1>9, <2>1
  <2>5. PICK t : t = Emitted(s, js, e, clear)
    OBVIOUS
  <2>6. sess'[c] = t
    BY <1>9, <2>1, <2>4, <2>5 DEF Emitted
  <2>7. /\ t \in SessType /\ SessOK(t, g) /\ Stays(s, t)
        /\ Quietly(s, t) /\ Ended(t, lives) /\ Fresh(t) /\ Open(t) = Open(s)
    <3>1. Ended(s, lives) /\ Latest < MaxTemplates /\ Chain(infos)
      BY <1>1, <1>5, <2>2, <2>3
    <3>2. s \in SessType /\ SessOK(s, infos) /\ Fresh(s) /\ info \in Nat
      BY <1>2, <2>2
    <3>3. PICK x \in Nat : x = info
      BY <1>2
    <3>4. clear = (x # LastBlock)
      BY <1>3, <3>3
    <3>5. g = Append(infos, x)
      BY <1>4, <3>3
    <3>6. Emitting(s, js, e, clear, g, lives)
      BY <3>1, <3>2, <3>4, <3>5 DEF Emitting
    <3> QED
      BY ONLY <2>5, <3>6, EmittedOK
  <2> QED
    BY <2>1, <2>3, <2>6, <2>7
<1>11. sess' \in [Conns -> SessType]
  BY <1>9, <1>10
<1>12. BlocksOK'
  <2>1. blocks' = {t \in blocks : ~clear /\ t > old} \cup {Latest + 1}
    BY <1>3 DEF EmitTemplate
  <2>2. ASSUME NEW t \in blocks, ~clear
        PROVE  t \in 1 .. Latest + 1 /\ g[t] = info
    <3>1. t \in 1..Latest /\ infos[t] = LastBlock /\ info = LastBlock
      BY <1>1, <1>3, <2>2 DEF BlocksOK
    <3>2. 1..Latest \subseteq 1 .. Latest + 1
      BY <1>1
    <3> QED
      BY <1>5, <3>1, <3>2
  <2>3. Latest + 1 \in 1 .. Latest + 1 /\ g[Latest + 1] = info
    BY <1>1, <1>5
  <2>4. \A t \in blocks' : t \in 1 .. Latest + 1 /\ g[t] = info
    BY <2>1, <2>2, <2>3
  <2> QED
    BY <1>5, <1>6, <2>4 DEF BlocksOK
<1>13. Typed'
  BY <1>5, <1>7, <1>8, <1>11, <1>12 DEF HoldsInv, Typed, pool, logs
<1>14. PoolOK'
  <2>1. \A c \in Conns : /\ Open(sess'[c]) = Open(sess[c])
                         /\ \A ch \in Open(sess[c]) :
                               Extended(sess'[c], ch) <=> Extended(sess[c], ch)
                         /\ sess[c].racing => sess'[c].racing
    BY <1>10 DEF Stays, Extended
  <2>2. allocated' = allocated /\ PoolOK
    BY <1>8 DEF pool, HoldsInv
  <2>3. \A c, d \in Conns : \A ch \in Open(sess'[c]) : ch \in Open(sess'[d]) => c = d
    BY <2>1, <2>2 DEF PoolOK
  <2>4. \A c \in Conns : \A ch \in Open(sess'[c]) :
           Extended(sess'[c], ch) => \E a \in allocated : a[1] = ch
    BY <2>1, <2>2 DEF PoolOK
  <2>5. \A a \in allocated :
           \/ \E c \in Conns : a[1] \in Open(sess'[c]) /\ Extended(sess'[c], a[1])
           \/ \E c \in Conns : sess'[c].racing
    <3> SUFFICES ASSUME NEW a \in allocated
                 PROVE  \/ \E c \in Conns : a[1] \in Open(sess'[c]) /\ Extended(sess'[c], a[1])
                        \/ \E c \in Conns : sess'[c].racing
      OBVIOUS
    <3>1. \/ \E c \in Conns : a[1] \in Open(sess[c]) /\ Extended(sess[c], a[1])
          \/ \E c \in Conns : sess[c].racing
      BY <2>2 DEF PoolOK
    <3> QED
      BY <2>1, <3>1
  <2> QED
    BY <2>2, <2>3, <2>4, <2>5 DEF PoolOK
<1>15. ASSUME NEW c \in Conns PROVE SessionOK(c)'
  <2>1. Known(sess'[c], nextChannel)
    BY <1>10 DEF HoldsInv, Typed, SessionOK, Stays
  <2>2. nextChannel' = nextChannel /\ live' = live
    BY <1>8 DEF pool
  <2> QED
    BY <1>5, <1>10, <2>1, <2>2 DEF SessionOK
<1> QED
  BY <1>5, <1>10, <1>11, <1>13, <1>14, <1>15 DEF HoldsInv

(* The frames of a step of one session. *)
LEMMA MovedHolds ==
    ASSUME HoldsInv, NEW c \in Conns, \E t : MovedTo(c, t), OnlyRow(c), UNCHANGED chain,
           UNCHANGED <<nextPrefix, nextChannel>>, (submitted \cup dropped)' \subseteq ShareType
    PROVE  HoldsInv'
<1>1. PICK n \in Nat : n = nextChannel
  BY DEF HoldsInv, Typed
<1>2. nextChannel' \in Nat /\ nextChannel <= nextChannel' /\ nextPrefix' \in 1..MaxPrefix
  BY <1>1 DEF HoldsInv, Typed
<1> QED
  BY <1>2, MovedInv

LEMMA SameHolds ==
    ASSUME HoldsInv, NEW c \in Conns, \E t : MovedTo(c, t), Same
    PROVE  HoldsInv'
<1>1. OnlyRow(c) /\ UNCHANGED chain /\ UNCHANGED <<nextPrefix, nextChannel>>
  BY DEF Same, SameLogs, OnlyRow
<1>2. (submitted \cup dropped)' \subseteq ShareType
  BY DEF Same, SameLogs, logs, HoldsInv, Typed
<1> QED
  BY <1>1, <1>2, MovedHolds

LEMMA ReceiveHolds ==
    ASSUME HoldsInv, NEW c \in Conns, Settled(sess[c]), Receive(c)
    PROVE  HoldsInv'
<1>1. CASE Handshake(c)
  BY <1>1, HandshakeMoves, SameHolds DEF MovedQuietly, Handshake
<1>2. CASE BadHandshake(c)
  BY <1>2, DownMoves, SameHolds DEF MovedQuietly, BadHandshake
<1>3. CASE Setup(c)
  BY <1>3, SetupMoves, SameHolds DEF MovedQuietly, Setup
<1>4. CASE Refuse(c)
  BY <1>4, RefuseMoves, SameHolds DEF MovedQuietly, Refuse, Handle
<1>5. ASSUME NEW d \in OpeningDifficulties, OpenStandard(c, d) \/ OpenExtended(c, d)
      PROVE  HoldsInv'
  BY <1>5, OpenStandardInv, OpenExtendedInv
<1>6. CASE OpenTooLarge(c)
  <2>1. \E t : MovedTo(c, t)
    BY <1>6, OpenTooLargeMoves DEF MovedQuietly
  <2>2. /\ \E p \in 1..MaxPrefix : ~Used(p)
        /\ nextPrefix' = (NextFree % MaxPrefix) + 1
        /\ nextChannel' = nextChannel + 1
        /\ UNCHANGED chain /\ SameLogs
    BY <1>6 DEF OpenTooLarge
  <2>3. nextPrefix' \in 1..MaxPrefix
    BY <2>2, NextIsFree DEF HoldsInv, Typed
  <2>4. PICK n \in Nat : n = nextChannel
    BY DEF HoldsInv, Typed
  <2>5. nextChannel' \in Nat /\ nextChannel <= nextChannel'
    BY <2>2, <2>4
  <2>6. OnlyRow(c) /\ (submitted \cup dropped)' \subseteq ShareType
    BY <2>2 DEF SameLogs, logs, OnlyRow, HoldsInv, Typed
  <2> QED
    BY <2>1, <2>2, <2>3, <2>5, <2>6, MovedInv
<1>7. CASE OpenExhausted(c)
  <2>1. \E t : MovedTo(c, t)
    BY <1>7, OpenExhaustedMoves DEF MovedQuietly
  <2>2. /\ nextChannel' = nextChannel + 1
        /\ UNCHANGED <<chain, nextPrefix>> /\ SameLogs
    BY <1>7 DEF OpenExhausted
  <2>3. nextPrefix' \in 1..MaxPrefix
    BY <2>2 DEF HoldsInv, Typed
  <2>4. PICK n \in Nat : n = nextChannel
    BY DEF HoldsInv, Typed
  <2>5. nextChannel' \in Nat /\ nextChannel <= nextChannel'
    BY <2>2, <2>4
  <2>6. OnlyRow(c) /\ (submitted \cup dropped)' \subseteq ShareType
    BY <2>2 DEF SameLogs, logs, OnlyRow, HoldsInv, Typed
  <2> QED
    BY <2>1, <2>2, <2>3, <2>5, <2>6, MovedInv
<1>8. ASSUME NEW ch, About(c, ch),
             \/ \E d \in Difficulties : UpdateChannel(c, ch, d)
             \/ CloseChannel(c, ch)
             \/ SetCustomJob(c, ch)
             \/ Submit(c, ch)
      PROVE  HoldsInv'
  <2>1. \A s : Handle(c, s) => Same
    BY DEF Handle
  <2>2. ASSUME NEW d \in Difficulties, UpdateChannel(c, ch, d) PROVE HoldsInv'
    <3>1. Same
      BY <2>1, <2>2 DEF UpdateChannel
    <3> QED
      BY <1>8, <2>2, <3>1, UpdateChannelMoves, SameHolds DEF MovedQuietly
  <2>3. CASE CloseChannel(c, ch)
    <3>1. Same
      BY <2>1, <2>3 DEF CloseChannel
    <3> QED
      BY <1>8, <2>3, <3>1, CloseChannelMoves, SameHolds DEF MovedQuietly
  <2>4. CASE SetCustomJob(c, ch)
    <3>1. Same
      BY <2>1, <2>4 DEF SetCustomJob
    <3> QED
      BY <1>8, <2>4, <3>1, SetCustomJobMoves, SameHolds DEF MovedQuietly
  <2>5. CASE Submit(c, ch)
    <3>1. Same
      BY <2>1, <2>5 DEF Submit
    <3>2. \E t : MovedTo(c, t)
      BY <1>8, <2>5, SubmitMoves DEF MovedQuietly
    <3> QED
      BY <3>1, <3>2, SameHolds
  <2> QED
    BY <1>8, <2>2, <2>3, <2>4, <2>5
<1> QED
  BY <1>1, <1>2, <1>3, <1>4, <1>5, <1>6, <1>7, <1>8 DEF Receive, About

LEMMA WriteHolds ==
    ASSUME HoldsInv, NEW c \in Conns, NEW i \in DOMAIN sess[c].writes,
           WriteEnds(c, i) \/ (WriteFails(c, i) /\ Settled(sess[c]))
    PROVE  HoldsInv'
<1>1. PICK s : s = sess[c]
  OBVIOUS
<1>2. CASE WriteEnds(c, i)
  BY <1>1, <1>2, WriteEndsMoves, SameHolds DEF WriteEnds
<1>3. CASE WriteFails(c, i) /\ Settled(sess[c])
  <2>1. /\ \E t : MovedTo(c, t)
        /\ dropped' = IF Task(s, i).at = "replied" THEN dropped \cup {Task(s, i).share}
                      ELSE dropped
        /\ Task(s, i).at = "replied" => Task(s, i).share \in ShareType
    BY <1>1, <1>3, WriteFailsMoves
  <2>2. UNCHANGED <<chain, nextPrefix, nextChannel, live, recorded, submitted, finalized>>
    BY <1>3 DEF WriteFails
  <2>3. OnlyRow(c) /\ UNCHANGED chain /\ UNCHANGED <<nextPrefix, nextChannel>>
    BY <2>2 DEF OnlyRow
  <2>4. submitted \subseteq ShareType /\ dropped \subseteq ShareType
    BY DEF HoldsInv, Typed
  <2>5. submitted' \subseteq ShareType /\ dropped' \subseteq ShareType
    BY <2>1, <2>2, <2>4
  <2>6. (submitted \cup dropped)' \subseteq ShareType
    BY <2>5
  <2> QED
    BY <2>1, <2>3, <2>6, MovedHolds
<1> QED
  BY <1>2, <1>3

LEMMA ContinueHolds ==
    ASSUME HoldsInv, NEW c \in Conns, Settled(sess[c]), NEW i \in DOMAIN sess[c].calls,
           Continue(c, i)
    PROVE  HoldsInv'
<1>1. PICK s : s = sess[c]
  OBVIOUS
<1>2. submitted \subseteq ShareType /\ dropped \subseteq ShareType
  BY DEF HoldsInv, Typed
<1>3. SamePool
  BY DEF Continue, SubmitBlock, SaveBlock, CallFails, Record, TouchRow, DeleteRow
<1>4. ASSUME \E t : MovedTo(c, t), OnlyRow(c), submitted' \subseteq ShareType,
             dropped' \subseteq ShareType
      PROVE  HoldsInv'
  <2>1. UNCHANGED chain /\ UNCHANGED <<nextPrefix, nextChannel>>
    BY <1>3 DEF SamePool
  <2>2. (submitted \cup dropped)' \subseteq ShareType
    BY <1>4
  <2> QED
    BY <1>4, <2>1, <2>2, MovedHolds
<1>5. CASE SubmitBlock(c, i)
  <2>1. s.calls[i].at = "node" /\ ShareOf(c, i) \in ShareType
    BY <1>1, <1>5, CallIs DEF SubmitBlock
  <2>2. /\ Go(c, CallGoes(s, i, "save")) /\ live' = live /\ dropped' = dropped
        /\ submitted' = submitted \cup {ShareOf(c, i)}
    BY <1>1, <1>5 DEF SubmitBlock
  <2>3. MovedTo(c, CallGoes(s, i, "save"))
    BY <1>1, <2>1, <2>2, CallGoesMoves
  <2> QED
    BY <1>2, <1>4, <2>1, <2>2, <2>3 DEF OnlyRow
<1>6. CASE SaveBlock(c, i)
  <2>1. s.calls[i].at = "save"
    BY <1>1, <1>6, CallIs DEF SaveBlock
  <2>2. /\ Go(c, CallGoes(s, i, "record")) /\ live' = live /\ dropped' = dropped
        /\ submitted' = submitted
    BY <1>1, <1>6 DEF SaveBlock
  <2>3. MovedTo(c, CallGoes(s, i, "record"))
    BY <1>1, <2>1, <2>2, CallGoesMoves
  <2> QED
    BY <1>2, <1>4, <2>2, <2>3 DEF OnlyRow
<1>7. CASE CallFails(c, i)
  <2>1. \E t : MovedTo(c, t)
    BY <1>1, <1>7, CallFailsMoves
  <2>2. ShareOf(c, i) \in ShareType
    BY <1>1, <1>7, CallIs DEF CallFails
  <2>3. /\ live' = live /\ dropped' = dropped \cup {ShareOf(c, i)} /\ submitted' = submitted
    BY <1>7 DEF CallFails
  <2> QED
    BY <1>2, <1>4, <2>1, <2>2, <2>3 DEF OnlyRow
<1>8. CASE Record(c, i)
  <2>1. s.calls[i].at = "record"
    BY <1>1, <1>8, CallIs DEF Record
  <2>2. /\ Go(c, Finished(s, i)) \/ Go(c, CallGoes(s, i, "touch"))
        /\ live' = live /\ dropped' = dropped /\ submitted' = submitted
    BY <1>1, <1>8 DEF Record
  <2>3. \E t : MovedTo(c, t)
    BY <1>1, <2>1, <2>2, CallGoesMoves, FinishedMoves
  <2> QED
    BY <1>2, <1>4, <2>2, <2>3 DEF OnlyRow
<1>9. CASE TouchRow(c, i)
  <2>1. s.calls[i].at = "touch"
    BY <1>1, <1>9, CallIs DEF TouchRow
  <2>2. /\ Go(c, Finished(s, i)) /\ live' = live \cup {c}
        /\ UNCHANGED logs
    BY <1>1, <1>9 DEF TouchRow
  <2>3. MovedTo(c, Finished(s, i))
    BY <1>1, <2>1, <2>2, FinishedMoves
  <2>4. OnlyRow(c)
    BY <2>2 DEF OnlyRow
  <2> QED
    BY <1>2, <1>4, <2>2, <2>3, <2>4 DEF logs
<1>10. CASE DeleteRow(c, i)
  <2>1. s.calls[i].at = "delete"
    BY <1>1, <1>10, CallIs DEF DeleteRow
  <2>2. /\ Go(c, Finished(s, i)) /\ live' = live \ {c}
        /\ UNCHANGED logs
    BY <1>1, <1>10 DEF DeleteRow
  <2>3. MovedTo(c, Finished(s, i))
    BY <1>1, <2>1, <2>2, FinishedMoves
  <2>4. OnlyRow(c)
    BY <2>2 DEF OnlyRow
  <2> QED
    BY <1>2, <1>4, <2>2, <2>3, <2>4 DEF logs
<1> QED
  BY <1>5, <1>6, <1>7, <1>8, <1>9, <1>10 DEF Continue

LEMMA SessionHolds ==
    ASSUME HoldsInv, NEW c \in Conns, Settled(sess[c]), Session(c)
    PROVE  HoldsInv'
<1>1. CASE Receive(c)
  BY <1>1, ReceiveHolds
<1>2. CASE AnyWrite(c)
  BY <1>2, WriteHolds DEF AnyWrite
<1>3. CASE AnyCall(c)
  BY <1>3, ContinueHolds DEF AnyCall
<1>4. CASE InsertRow(c)
  <2>1. \E t : MovedTo(c, t)
    BY <1>4, InsertRowMoves DEF MovedQuietly
  <2>2. live' = live \cup {c} /\ SamePool /\ UNCHANGED logs
    BY <1>4 DEF InsertRow
  <2>3. UNCHANGED chain /\ UNCHANGED <<nextPrefix, nextChannel>> /\ OnlyRow(c)
    BY <2>2 DEF SamePool, OnlyRow
  <2>4. (submitted \cup dropped)' \subseteq ShareType
    BY <2>2 DEF HoldsInv, Typed, logs
  <2> QED
    BY <2>1, <2>3, <2>4, MovedHolds
<1>5. CASE FailRow(c)
  BY <1>5, FailRowMoves, SameHolds DEF MovedQuietly, FailRow
<1>6. ASSUME NEW d \in Difficulties, CheckDifficulty(c, d) PROVE HoldsInv'
  <2>1. Same
    BY <1>6 DEF CheckDifficulty
  <2> QED
    BY <1>6, <2>1, CheckDifficultyMoves, SameHolds DEF MovedQuietly
<1>7. CASE LoseSocket(c)
  BY <1>7, DownMoves, SameHolds DEF MovedQuietly, LoseSocket
<1>8. CASE OnClose(c)
  BY <1>8, DownMoves, SameHolds DEF MovedQuietly, OnClose
<1> QED
  BY <1>1, <1>2, <1>3, <1>4, <1>5, <1>6, <1>7, <1>8 DEF Session

LEMMA HoldsNext == HoldsInv /\ [Next]_vars => HoldsInv'
<1> SUFFICES ASSUME HoldsInv, [Next]_vars PROVE HoldsInv'
  OBVIOUS
<1>1. CASE UNCHANGED vars
  <2>1. UNCHANGED <<sess, infos, blocks, allocated, nextPrefix, nextChannel, live,
                    submitted, dropped>>
    BY <1>1 DEF vars, chain, pool, logs
  <2> QED
    BY <2>1 DEF HoldsInv, Typed, PoolOK, SessionOK, BlocksOK, LastBlock, Latest
<1>2. ASSUME NEW c \in Conns, NEW i \in Unwritten(c), WriteEnds(c, i) PROVE HoldsInv'
  BY <1>2, WriteHolds DEF Unwritten
<1>3. ASSUME NEW c \in Conns, Unwritten(c) = {}, Session(c) PROVE HoldsInv'
  <2>1. Settled(sess[c])
    BY <1>3 DEF Unwritten, Settled
  <2> QED
    BY <1>3, <2>1, SessionHolds
<1>4. ASSUME NEW info \in {LastBlock, LastBlock + 1}, NEW height \in Heights,
             NEW old \in 0..Latest, EmitTemplate(info, height, old)
      PROVE  HoldsInv'
  BY <1>4, EmitHolds
<1> QED
  BY <1>1, <1>2, <1>3, <1>4 DEF Next

LEMMA TheInvariant == Spec => []HoldsInv
BY HoldsInit, HoldsNext, PTL DEF Spec

-----------------------------------------------------------------------------
(* Every template emitted builds on some block, and keeps it.               *)

HeightsOK == heights \in Seq(Heights) /\ Len(heights) = Latest

(* No session changes the chain. *)
LEMMA ChainStays ==
    ASSUME NEW c, Session(c) \/ \E i : WriteEnds(c, i)
    PROVE  UNCHANGED <<infos, heights>>
<1>1. Same \/ SamePool => UNCHANGED <<infos, heights>>
  BY DEF Same, SamePool, chain
<1>2. CASE Receive(c)
  <2>1. ASSUME NEW ch, CloseChannel(c, ch) \/ \E d \in Difficulties : UpdateChannel(c, ch, d)
        PROVE  Same
    BY <2>1 DEF CloseChannel, UpdateChannel, Handle
  <2>2. ASSUME NEW ch, SetCustomJob(c, ch) PROVE Same
    BY <2>2, Zenon DEF SetCustomJob, Handle
  <2>3. ASSUME NEW ch, Submit(c, ch) PROVE Same
    <3>1. \E t : Handle(c, t)
      BY <2>3, Zenon DEF Submit
    <3> QED
      BY <3>1 DEF Handle
  <2>4. ASSUME Handshake(c) \/ BadHandshake(c) \/ Setup(c) \/ Refuse(c) PROVE Same
    BY <2>4 DEF Handshake, BadHandshake, Setup, Refuse, Handle
  <2>5. ASSUME \/ \E d \in OpeningDifficulties : OpenStandard(c, d) \/ OpenExtended(c, d)
               \/ OpenTooLarge(c) \/ OpenExhausted(c)
        PROVE  UNCHANGED <<infos, heights>>
    BY <2>5, Zenon DEF OpenStandard, OpenExtended, OpenTooLarge, OpenExhausted, chain
  <2> QED
    BY <1>1, <1>2, <2>1, <2>2, <2>3, <2>4, <2>5 DEF Receive
<1>3. CASE \E i : WriteEnds(c, i)
  BY <1>1, <1>3 DEF WriteEnds
<1>4. ASSUME NEW i, WriteFails(c, i) PROVE UNCHANGED <<infos, heights>>
  BY <1>4, Zenon DEF WriteFails, chain
<1>5. CASE AnyCall(c)
  BY <1>1, <1>5
     DEF AnyCall, Continue, SubmitBlock, SaveBlock, CallFails, Record, TouchRow, DeleteRow
<1>6. CASE InsertRow(c) \/ FailRow(c) \/ LoseSocket(c) \/ OnClose(c)
  BY <1>1, <1>6 DEF InsertRow, FailRow, LoseSocket, OnClose
<1>7. CASE \E d \in Difficulties : CheckDifficulty(c, d)
  BY <1>1, <1>7 DEF CheckDifficulty
<1> QED
  BY <1>2, <1>3, <1>4, <1>5, <1>6, <1>7 DEF Session, AnyWrite

LEMMA EmitHeights ==
    ASSUME HeightsOK, NEW info, NEW height \in Heights, NEW old, EmitTemplate(info, height, old),
           Chain(infos), NEW k, k = Latest
    PROVE  HeightsOK' /\ \A n \in 1..Latest : heights'[n] = heights[n]
<1>1. PICK h \in Seq(Heights) : h = heights /\ Len(h) = k
  BY DEF HeightsOK
<1>2. PICK f \in Seq(Nat) : f = infos /\ Len(f) = k
  BY DEF Chain, Latest
<1>3. infos' = Append(f, info) /\ heights' = Append(h, height)
  BY <1>1, <1>2 DEF EmitTemplate
<1>4. /\ Append(h, height) \in Seq(Heights) /\ Len(Append(h, height)) = k + 1
      /\ \A n \in 1..k : Append(h, height)[n] = h[n]
  BY <1>1
<1>5. Len(Append(f, info)) = k + 1
  BY <1>2
<1>6. Latest' = k + 1
  BY <1>3, <1>5 DEF Latest
<1> QED
  BY <1>1, <1>3, <1>4, <1>6 DEF HeightsOK

LEMMA HeightsInit == Init => HeightsOK
<1> SUFFICES ASSUME Init PROVE HeightsOK
  OBVIOUS
<1>1. infos = <<1>>
  BY DEF Init
<1>2. PICK height \in Heights : heights = <<height>>
  BY DEF Init
<1> QED
  BY <1>1, <1>2 DEF HeightsOK, Latest

LEMMA HeightsNext == HoldsInv /\ HeightsOK /\ [Next]_vars => HeightsOK'
<1> SUFFICES ASSUME HoldsInv, HeightsOK, [Next]_vars PROVE HeightsOK'
  OBVIOUS
<1>1. ASSUME UNCHANGED <<infos, heights>> PROVE HeightsOK'
  BY <1>1 DEF HeightsOK, Latest
<1>2. CASE UNCHANGED vars
  BY <1>1, <1>2 DEF vars, chain
<1>3. ASSUME NEW c \in Conns, Session(c) \/ \E i \in Unwritten(c) : WriteEnds(c, i)
      PROVE  HeightsOK'
  BY <1>1, <1>3, ChainStays
<1>4. ASSUME NEW info \in {LastBlock, LastBlock + 1}, NEW height \in Heights,
             NEW old \in 0..Latest, EmitTemplate(info, height, old)
      PROVE  HeightsOK'
  <2>1. Chain(infos)
    BY DEF HoldsInv, Typed
  <2> QED
    BY <1>4, <2>1, EmitHeights
<1> QED
  BY <1>2, <1>3, <1>4 DEF Next

-----------------------------------------------------------------------------
(* What follows from it. *)

LEMMA TypesHold == HoldsInv => TypeOK
<1> SUFFICES ASSUME HoldsInv PROVE TypeOK
  OBVIOUS
<1>1. ASSUME NEW c \in Conns, NEW s, s = sess[c]
      PROVE  /\ s.handshake \in {"act1", "answering", "done"}
             /\ s.socket \in {"open", "destroyed"}
             /\ s.row \in {"none", "inserting", "have", "failed"}
             /\ Open(s) \subseteq 1..(nextChannel - 1)
             /\ \A ch \in Open(s) :
                   /\ s.chans[ch].held \subseteq JobType
                   /\ \A j \in s.chans[ch].held : j.retired \/ j.custom => Extended(s, ch)
             /\ \A i \in DOMAIN s.writes :
                   LET task == s.writes[i].task
                   IN  /\ task.at \in {"act2", "opened", "job", "active", "target", "replied"}
                       /\ task.at = "replied" => task.share \in ShareType
                       /\ task.at \in {"job", "active"} => task.template \in 1..Latest
             /\ \A i \in DOMAIN s.calls :
                   s.calls[i].at = "delete" \/ s.calls[i].share \in ShareType
  <2>1. s \in SessType /\ SessOK(s, infos) /\ Known(s, nextChannel)
    BY <1>1, SessIs
  <2>2. /\ s.handshake \in Shakes /\ s.socket \in Sockets /\ s.row \in RowStates
        /\ s.writes \in Seq(WriteType) /\ s.calls \in Seq(CallType)
    BY <2>1 DEF SessType
  <2>3. Open(s) \subseteq 1..(nextChannel - 1)
    BY <2>1 DEF Known
  <2>4. ASSUME NEW ch \in Open(s)
        PROVE  /\ s.chans[ch].held \subseteq JobType
               /\ \A j \in s.chans[ch].held : j.retired \/ j.custom => Extended(s, ch)
    <3>1. s.chans[ch] \in ChanType
      BY <2>1, ChansOf
    <3>2. Current(s, s.chans[ch], infos)
      BY <2>1 DEF SessOK, CurrentOK
    <3> QED
      BY <3>1, <3>2 DEF ChanType, Current, Extended
  <2>5. ASSUME NEW i \in DOMAIN s.writes, NEW task, task = s.writes[i].task
        PROVE  /\ task.at \in {"act2", "opened", "job", "active", "target", "replied"}
               /\ task.at = "replied" => task.share \in ShareType
               /\ task.at \in {"job", "active"} => task.template \in 1..Latest
    <3>1. s.writes[i] \in WriteType
      BY <2>2, ElementOfSeq
    <3>2. task \in TaskType
      BY <2>5, <3>1 DEF WriteType
    <3>3. task.at \in {"job", "active"} => task.template <= Latest
      BY <2>1, <2>5 DEF SessOK, CurrentOK, Task, Latest
    <3> QED
      BY <3>2, <3>3 DEF TaskType, Act2Task, OpenedTask, JobTask, TargetTask, ReplyTask
  <2>6. ASSUME NEW i \in DOMAIN s.calls
        PROVE  s.calls[i].at = "delete" \/ s.calls[i].share \in ShareType
    <3>1. s.calls[i] \in CallType
      BY <2>2, ElementOfSeq
    <3> QED
      BY <3>1 DEF CallType, ShareCall
  <2> QED
    BY <2>2, <2>3, <2>4, <2>5, <2>6 DEF Shakes, Sockets, RowStates
<1>2. /\ allocated \subseteq (1..(nextChannel - 1)) \X (1..MaxPrefix)
      /\ submitted \cup dropped \subseteq ShareType
  BY DEF HoldsInv, Typed
<1> QED
  BY <1>1, <1>2 DEF TypeOK

LEMMA PrefixesHold == HoldsInv => PrefixesDiffer
<1> SUFFICES ASSUME HoldsInv PROVE PrefixesDiffer
  OBVIOUS
<1>1. PoolOK
  BY DEF HoldsInv
<1>2. PICK extended :
         extended = UNION {{ch \in Open(sess[c]) : Extended(sess[c], ch)} : c \in Conns}
  OBVIOUS
<1>3. PICK held : held = {a[1] : a \in allocated}
  OBVIOUS
<1>4. extended \subseteq held
  <2> SUFFICES ASSUME NEW ch \in extended PROVE ch \in held
    OBVIOUS
  <2>1. PICK c \in Conns : ch \in Open(sess[c]) /\ Extended(sess[c], ch)
    BY <1>2
  <2>2. PICK a \in allocated : a[1] = ch
    BY <1>1, <2>1 DEF PoolOK
  <2> QED
    BY <1>3, <2>2
<1>5. held # extended => \E c \in Conns : sess[c].racing
  <2> SUFFICES ASSUME held # extended PROVE \E c \in Conns : sess[c].racing
    OBVIOUS
  <2>1. PICK a \in allocated : a[1] \notin extended
    BY <1>3, <1>4
  <2> QED
    BY <1>1, <1>2, <2>1 DEF PoolOK
<1> QED
  BY <1>1, <1>2, <1>3, <1>4, <1>5 DEF PoolOK, PrefixesDiffer

LEMMA EndsHold == HoldsInv => NothingIsLeft
<1> SUFFICES ASSUME HoldsInv, NEW c \in Conns,
                    sess[c].destroyed, Quiet(c), ~sess[c].racing
             PROVE  c \notin live /\ ~sess[c].stream /\ Open(sess[c]) = {}
  BY DEF NothingIsLeft
<1>1. Ended(sess[c], c \in live)
  BY DEF HoldsInv, SessionOK
<1> QED
  BY <1>1 DEF Ended, Quiet

LEMMA StaleHolds == HoldsInv => StaleIsRefused
<1> SUFFICES ASSUME HoldsInv, NEW c \in Conns, NEW share \in sess[c].stale
             PROVE  share.job.custom \/ ~share.job.current
  BY DEF StaleIsRefused
<1>1. CurrentOK(sess[c], infos)
  BY DEF HoldsInv, SessionOK, SessOK
<1> QED
  BY <1>1 DEF CurrentOK

LEMMA ToldHolds == HoldsInv => DifficultyWasTold
<1> SUFFICES ASSUME HoldsInv, NEW c \in Conns, NEW ch \in Open(sess[c]),
                    NEW j \in sess[c].chans[ch].held
             PROVE  j.diff \in sess[c].chans[ch].told
  BY DEF DifficultyWasTold
<1>1. ToldOK(sess[c])
  BY DEF HoldsInv, SessionOK, SessOK
<1> QED
  BY <1>1 DEF ToldOK, Told

(* No two open extended channels have the same prefix of the extranonce,     *)
(* whichever of their sessions opened them and however often the allocator   *)
(* went round; each has one, and one that no open channel has is of a        *)
(* connection destroyed with handlers under way.  What a session that ended  *)
(* quietly held, its client row, its subscription and its channels, is gone  *)
(* (allocate and free of Sv2ExtranonceManager, destroy and ensureClientEntity *)
(* of StratumV2Client).                                                      *)
THEOREM HoldingsAreOwned == Spec => []HoldingsInv
<1>1. HoldsInv => HoldingsInv
  BY TypesHold, PrefixesHold, EndsHold DEF HoldingsInv
<1> QED
  BY <1>1, TheInvariant, PTL

(* Work that does not extend the tip is accepted only from a job that was    *)
(* still being sent when the block came, from one sent before the session    *)
(* subscribed, or from a custom job: the others were retired with the block, *)
(* on every channel at once (the subscriber of newMiningJob$).  While        *)
(* templates of two blocks are mixed (Misfiled) this is so of work that is   *)
(* older than the last clearJobs, after which alone the code retires jobs.   *)
THEOREM StaleWorkIsRefused == Spec => []StaleIsRefused
BY StaleHolds, TheInvariant, PTL

(* The difficulty a job is kept with, which its submissions are credited at, *)
(* is one the miner had been told on that channel, whatever the timer does   *)
(* between the frames (jobIdToDifficulty and SetTarget).                     *)
THEOREM DifficultiesWereTold == Spec => []DifficultyWasTold
BY ToldHolds, TheInvariant, PTL

-----------------------------------------------------------------------------
(* The books.  D stands for the shares dropped, B for those recorded, S and  *)
(* F for what the node and the snapshots got, h for the heights.             *)

Waits == {"node", "save", "record"}
Replied(s, i) == i \in DOMAIN s.writes /\ Task(s, i).at = "replied"
Waiting(s, k) == k \in DOMAIN s.calls /\ s.calls[k].at \in Waits

(* A share of the pool's that makes a block, and what has been done for it.  *)
Own(x) == x.work >= NetworkDifficulty /\ ~x.job.custom
Settles(mode, x, S, F, h) ==
    Own(x) => /\ x \in S
              /\ mode = "pplns" => <<x.job.template, h[x.job.template]>> \in F

(* Every accepted share waits for a write or a call, unless it was recorded  *)
(* or dropped ...                                                            *)
Kept(s, D, B) ==
    \A x \in s.accepted :
        \/ x \in D \/ x \in B
        \/ \E i : Replied(s, i) /\ Task(s, i).share = x
        \/ \E k : Waiting(s, k) /\ s.calls[k].share = x

(* ... and only accepted ones do, of the connection ... *)
Belong(c, s) ==
    /\ \A x \in s.accepted : x.conn = c
    /\ \A i : Replied(s, i) => Task(s, i).share \in s.accepted
    /\ \A k \in DOMAIN s.calls : s.calls[k].at # "delete" => s.calls[k].share \in s.accepted

(* ... each once, and not when it is recorded. *)
Nowhere(s, x) ==
    /\ \A i : Replied(s, i) => Task(s, i).share # x
    /\ \A k : Waiting(s, k) => s.calls[k].share # x
Single(s, B) ==
    /\ \A i, j : Replied(s, i) /\ Replied(s, j) /\ i # j => Task(s, i).share # Task(s, j).share
    /\ \A k, l : Waiting(s, k) /\ Waiting(s, l) /\ k # l => s.calls[k].share # s.calls[l].share
    /\ \A i, k : Replied(s, i) /\ Waiting(s, k) => Task(s, i).share # s.calls[k].share
    /\ \A x \in B : Nowhere(s, x)

(* A block goes to the node, then to the books, and is recorded last.        *)
Paid(s, S, F, h) ==
    \A k : Waiting(s, k) =>
        /\ s.calls[k].at \in {"node", "save"} => Own(s.calls[k].share)
        /\ s.calls[k].at = "save" => s.calls[k].share \in S
        /\ s.calls[k].at = "record" => Settles(s.mode, s.calls[k].share, S, F, h)

Books(c, s, D, B, S, F, h) ==
    /\ Kept(s, D, B) /\ Belong(c, s) /\ (~s.forgot => Single(s, B)) /\ Paid(s, S, F, h)

LEMMA QuietBooks ==
    ASSUME NEW c, NEW s, NEW t, NEW D, NEW B, NEW S, NEW F, NEW h,
           Books(c, s, D, B, S, F, h), Quietly(s, t)
    PROVE  Books(c, t, D, B, S, F, h)
<1>1. /\ t.mode = s.mode /\ t.accepted = s.accepted
      /\ ~t.forgot => ~s.forgot
  BY DEF Quietly
<1>2. \A i : /\ Replied(s, i) <=> Replied(t, i)
             /\ Replied(s, i) => Task(t, i) = Task(s, i)
  BY DEF Quietly, SameReplies, Replied
<1>3. \A k \in DOMAIN t.calls : t.calls[k].at # "delete" =>
          k \in DOMAIN s.calls /\ t.calls[k] = s.calls[k]
  BY DEF Quietly
<1>4. \A k : /\ Waiting(s, k) <=> Waiting(t, k)
             /\ Waiting(s, k) => t.calls[k] = s.calls[k]
  BY DEF Quietly, Waiting, Waits
<1>5. Kept(t, D, B)
  BY <1>1, <1>2, <1>4 DEF Books, Kept
<1>6. Belong(c, t)
  BY <1>1, <1>2, <1>3 DEF Books, Belong
<1>7. ~t.forgot => Single(t, B)
  BY <1>1, <1>2, <1>4 DEF Books, Single, Nowhere
<1>8. Paid(t, S, F, h)
  BY <1>1, <1>4 DEF Books, Paid
<1> QED
  BY <1>5, <1>6, <1>7, <1>8 DEF Books

(* More is dropped, submitted and finalized, templates are added. *)
LEMMA MoreBooks ==
    ASSUME NEW c, NEW s, NEW D, NEW B, NEW S, NEW F, NEW h, Books(c, s, D, B, S, F, h),
           NEW D2, D \subseteq D2, NEW S2, S \subseteq S2, NEW F2, F \subseteq F2,
           NEW g, \A x \in s.accepted : g[x.job.template] = h[x.job.template]
    PROVE  Books(c, s, D2, B, S2, F2, g)
<1>1. Kept(s, D2, B)
  BY DEF Books, Kept
<1>2. ASSUME NEW k, Waiting(s, k)
      PROVE  /\ s.calls[k].at \in {"node", "save"} => Own(s.calls[k].share)
             /\ s.calls[k].at = "save" => s.calls[k].share \in S2
             /\ s.calls[k].at = "record" => Settles(s.mode, s.calls[k].share, S2, F2, g)
  <2>1. s.calls[k].share \in s.accepted
    BY <1>2 DEF Books, Belong, Waiting, Waits
  <2>2. g[s.calls[k].share.job.template] = h[s.calls[k].share.job.template]
    BY <2>1
  <2>3. /\ s.calls[k].at \in {"node", "save"} => Own(s.calls[k].share)
        /\ s.calls[k].at = "save" => s.calls[k].share \in S
        /\ s.calls[k].at = "record" => Settles(s.mode, s.calls[k].share, S, F, h)
    BY <1>2 DEF Books, Paid
  <2> QED
    BY <2>2, <2>3 DEF Settles
<1> QED
  BY <1>1, <1>2 DEF Books, Paid

(* A share of another connection is recorded. *)
LEMMA OtherBooks ==
    ASSUME NEW c, NEW s, NEW D, NEW B, NEW S, NEW F, NEW h, Books(c, s, D, B, S, F, h),
           NEW x, x.conn # c
    PROVE  Books(c, s, D, B \cup {x}, S, F, h)
<1>1. Kept(s, D, B \cup {x})
  BY DEF Books, Kept
<1>2. Nowhere(s, x)
  BY DEF Books, Belong, Nowhere, Waiting, Waits
<1> QED
  BY <1>1, <1>2 DEF Books, Single

(* Once nothing waits for it, a share may be recorded instead of dropped.    *)
LEMMA RecordedBooks ==
    ASSUME NEW c, NEW s, NEW D, NEW B, NEW S, NEW F, NEW h, NEW x,
           Books(c, s, D \cup {x}, B, S, F, h), ~s.forgot => Nowhere(s, x)
    PROVE  Books(c, s, D, B \cup {x}, S, F, h)
<1>1. Kept(s, D, B \cup {x})
  BY DEF Books, Kept
<1> QED
  BY <1>1 DEF Books, Single

(* A handler that waited for a write has gone on. *)
LEMMA DoneBooks ==
    ASSUME NEW c, NEW s \in SessType, NEW D, NEW B, NEW S, NEW F, NEW h,
           Books(c, s, D, B, S, F, h), NEW i \in DOMAIN s.writes, NEW r, r = Done(s, i)
    PROVE  IF Task(s, i).at = "replied"
           THEN /\ Books(c, r, D \cup {Task(s, i).share}, B, S, F, h)
                /\ Task(s, i).share \in r.accepted
                /\ ~r.forgot => Nowhere(r, Task(s, i).share) /\ Task(s, i).share \notin B
           ELSE Books(c, r, D, B, S, F, h)
<1>1. /\ Rest(s, r)
      /\ \A j \in DOMAIN r.writes :
            \E k \in DOMAIN s.writes : /\ k # i /\ r.writes[j] = s.writes[k]
                                       /\ k = IF j < i THEN j ELSE j + 1
      /\ \A k \in DOMAIN s.writes : k # i =>
            \E j \in DOMAIN r.writes : r.writes[j] = s.writes[k]
  BY DoneEffect
<1>2. r.mode = s.mode /\ r.accepted = s.accepted /\ r.calls = s.calls /\ r.forgot = s.forgot
  BY <1>1 DEF Rest
<1>3. \A k : Waiting(r, k) <=> Waiting(s, k)
  BY <1>2 DEF Waiting
<1>4. PICK from : from = [j \in DOMAIN r.writes |-> IF j < i THEN j ELSE j + 1]
  OBVIOUS
<1>5. \A j \in DOMAIN r.writes : /\ from[j] \in DOMAIN s.writes /\ from[j] # i
                                 /\ Task(r, j) = Task(s, from[j])
  BY <1>1, <1>4 DEF Task
<1>6. \A j, k \in DOMAIN r.writes : j # k => from[j] # from[k]
  <2>1. DOMAIN r.writes \subseteq Nat /\ i \in Nat
    <3>1. r \in SessType
      BY DoneEffect
    <3> QED
      BY <3>1, WritesTyped
  <2> QED
    BY <1>4, <2>1
<1>7. \A j : Replied(r, j) => /\ Replied(s, from[j]) /\ from[j] # i
                              /\ Task(r, j).share = Task(s, from[j]).share
  BY <1>5 DEF Replied
<1>8. \A k : Replied(s, k) /\ k # i =>
         \E j : Replied(r, j) /\ Task(r, j).share = Task(s, k).share
  BY <1>1 DEF Replied, Task
<1>9. Belong(c, r)
  BY <1>2, <1>7 DEF Books, Belong
<1>10. Paid(r, S, F, h)
  BY <1>2, <1>3 DEF Books, Paid
<1>11. ~r.forgot => Single(r, B)
  <2> SUFFICES ASSUME ~r.forgot PROVE Single(r, B)
    OBVIOUS
  <2>1. Single(s, B)
    BY <1>2 DEF Books
  <2>2. \A j, k : Replied(r, j) /\ Replied(r, k) /\ j # k => Task(r, j).share # Task(r, k).share
    BY <1>6, <1>7, <2>1 DEF Single, Replied
  <2>3. \A x : Nowhere(s, x) => Nowhere(r, x)
    BY <1>2, <1>3, <1>7 DEF Nowhere
  <2>4. \A j, k : Replied(r, j) /\ Waiting(r, k) => Task(r, j).share # r.calls[k].share
    BY <1>2, <1>3, <1>7, <2>1 DEF Single
  <2>5. \A k, l : Waiting(r, k) /\ Waiting(r, l) /\ k # l => r.calls[k].share # r.calls[l].share
    BY <1>2, <1>3, <2>1 DEF Single
  <2> QED
    BY <2>1, <2>2, <2>3, <2>4, <2>5 DEF Single
<1>12. CASE Task(s, i).at = "replied"
  <2>1. PICK x : x = Task(s, i).share
    OBVIOUS
  <2>2. Replied(s, i)
    BY <1>12 DEF Replied
  <2>3. x \in r.accepted
    BY <1>2, <2>1, <2>2 DEF Books, Belong
  <2>4. Kept(r, D \cup {x}, B)
    <3> SUFFICES ASSUME NEW y \in s.accepted, y \notin D, y # x, y \notin B
                 PROVE  \/ \E j : Replied(r, j) /\ Task(r, j).share = y
                        \/ \E k : Waiting(r, k) /\ r.calls[k].share = y
      BY <1>2 DEF Kept
    <3>1. \/ \E j : Replied(s, j) /\ Task(s, j).share = y
          \/ \E k : Waiting(s, k) /\ s.calls[k].share = y
      BY DEF Books, Kept
    <3> QED
      BY <1>2, <1>3, <1>8, <2>1, <3>1
  <2>5. ASSUME ~r.forgot PROVE Nowhere(r, x) /\ x \notin B
    <3>1. Single(s, B)
      BY <1>2, <2>5 DEF Books
    <3>2. x \notin B
      BY <2>1, <2>2, <3>1 DEF Single, Nowhere
    <3>3. \A j : Replied(r, j) => Task(r, j).share # x
      BY <1>7, <2>1, <2>2, <3>1 DEF Single
    <3>4. \A k : Waiting(r, k) => r.calls[k].share # x
      BY <1>2, <1>3, <2>1, <2>2, <3>1 DEF Single
    <3> QED
      BY <3>2, <3>3, <3>4 DEF Nowhere
  <2> QED
    BY <1>9, <1>10, <1>11, <1>12, <2>1, <2>3, <2>4, <2>5 DEF Books
<1>13. CASE Task(s, i).at # "replied"
  <2>1. Kept(r, D, B)
    <3>1. ~Replied(s, i)
      BY <1>13 DEF Replied
    <3> SUFFICES ASSUME NEW y \in s.accepted, y \notin D, y \notin B
                 PROVE  \/ \E j : Replied(r, j) /\ Task(r, j).share = y
                        \/ \E k : Waiting(r, k) /\ r.calls[k].share = y
      BY <1>2 DEF Kept
    <3>2. \/ \E j : Replied(s, j) /\ Task(s, j).share = y
          \/ \E k : Waiting(s, k) /\ s.calls[k].share = y
      BY DEF Books, Kept
    <3> QED
      BY <1>2, <1>3, <1>8, <3>1, <3>2
  <2> QED
    BY <1>9, <1>10, <1>11, <1>13, <2>1 DEF Books
<1> QED
  BY <1>12, <1>13

(* A handler that waited for a call has come to its end. *)
LEMMA FinishedBooks ==
    ASSUME NEW c, NEW s \in SessType, NEW hs \in Seq(Nat), SessOK(s, hs), NEW lives,
           Ended(s, lives), NEW D, NEW B, NEW S, NEW F, NEW h,
           Books(c, s, D, B, S, F, h), NEW i \in DOMAIN s.calls, NEW r, r = Finished(s, i)
    PROVE  IF s.calls[i].at \in Waits
           THEN /\ Books(c, r, D \cup {s.calls[i].share}, B, S, F, h)
                /\ s.calls[i].share \in r.accepted
                /\ ~r.forgot => Nowhere(r, s.calls[i].share)
                /\ ~s.forgot => s.calls[i].share \notin B
           ELSE Books(c, r, D, B, S, F, h)
<1>1. /\ r \in SessType /\ ButCalls(s, r) /\ SameReplies(s, r)
      /\ \A j \in DOMAIN r.calls :
            \E k \in DOMAIN s.calls : /\ k # i /\ r.calls[j] = s.calls[k]
                                      /\ k = IF j < i THEN j ELSE j + 1
      /\ \A k \in DOMAIN s.calls : k # i =>
            \E j \in DOMAIN r.calls : r.calls[j] = s.calls[k]
  BY FinishedOK
<1>2. r.mode = s.mode /\ r.accepted = s.accepted /\ r.forgot = s.forgot
  BY <1>1 DEF ButCalls, SameShares
<1>3. \A j : /\ Replied(r, j) <=> Replied(s, j)
             /\ Replied(r, j) => Task(r, j) = Task(s, j)
  BY <1>1 DEF SameReplies, Replied
<1>4. PICK from : from = [j \in DOMAIN r.calls |-> IF j < i THEN j ELSE j + 1]
  OBVIOUS
<1>5. \A j \in DOMAIN r.calls : /\ from[j] \in DOMAIN s.calls /\ from[j] # i
                                /\ r.calls[j] = s.calls[from[j]]
  BY <1>1, <1>4
<1>6. \A j, k \in DOMAIN r.calls : j # k => from[j] # from[k]
  <2>1. DOMAIN r.calls \subseteq Nat /\ i \in Nat
    BY <1>1, CallsTyped
  <2> QED
    BY <1>4, <2>1
<1>7. \A j : Waiting(r, j) => /\ Waiting(s, from[j]) /\ from[j] # i
                              /\ r.calls[j] = s.calls[from[j]]
  BY <1>5 DEF Waiting
<1>8. \A k : Waiting(s, k) /\ k # i =>
         \E j : Waiting(r, j) /\ r.calls[j].share = s.calls[k].share
  BY <1>1 DEF Waiting
<1>9. Belong(c, r)
  BY <1>2, <1>3, <1>5 DEF Books, Belong
<1>10. Paid(r, S, F, h)
  BY <1>2, <1>7 DEF Books, Paid
<1>11. ~r.forgot => Single(r, B)
  <2> SUFFICES ASSUME ~r.forgot PROVE Single(r, B)
    OBVIOUS
  <2>1. Single(s, B)
    BY <1>2 DEF Books
  <2>2. \A j, k : Replied(r, j) /\ Replied(r, k) /\ j # k => Task(r, j).share # Task(r, k).share
    BY <1>3, <2>1 DEF Single
  <2>3. \A x : Nowhere(s, x) => Nowhere(r, x)
    BY <1>3, <1>7 DEF Nowhere
  <2>4. \A j, k : Replied(r, j) /\ Waiting(r, k) => Task(r, j).share # r.calls[k].share
    BY <1>3, <1>7, <2>1 DEF Single
  <2>5. \A k, l : Waiting(r, k) /\ Waiting(r, l) /\ k # l => r.calls[k].share # r.calls[l].share
    <3> SUFFICES ASSUME NEW k, NEW l, Waiting(r, k), Waiting(r, l), k # l
                 PROVE  r.calls[k].share # r.calls[l].share
      OBVIOUS
    <3>1. from[k] # from[l]
      BY <1>6 DEF Waiting
    <3>2. Waiting(s, from[k]) /\ Waiting(s, from[l])
      BY <1>7
    <3>3. s.calls[from[k]].share # s.calls[from[l]].share
      BY <2>1, <3>1, <3>2 DEF Single
    <3> QED
      BY <1>7, <3>3
  <2> QED
    BY <2>1, <2>2, <2>3, <2>4, <2>5 DEF Single
<1>12. CASE s.calls[i].at \in Waits
  <2>1. PICK x : x = s.calls[i].share
    OBVIOUS
  <2>2. Waiting(s, i)
    BY <1>12 DEF Waiting
  <2>3. x \in r.accepted
    BY <1>2, <1>12, <2>1 DEF Books, Belong, Waits
  <2>4. Kept(r, D \cup {x}, B)
    <3> SUFFICES ASSUME NEW y \in s.accepted, y \notin D, y # x, y \notin B
                 PROVE  \/ \E j : Replied(r, j) /\ Task(r, j).share = y
                        \/ \E k : Waiting(r, k) /\ r.calls[k].share = y
      BY <1>2 DEF Kept
    <3>1. \/ \E j : Replied(s, j) /\ Task(s, j).share = y
          \/ \E k : Waiting(s, k) /\ s.calls[k].share = y
      BY DEF Books, Kept
    <3> QED
      BY <1>3, <1>8, <2>1, <3>1
  <2>5. ASSUME ~r.forgot PROVE Nowhere(r, x) /\ x \notin B
    <3>1. Single(s, B)
      BY <1>2, <2>5 DEF Books
    <3>2. x \notin B
      BY <2>1, <2>2, <3>1 DEF Single, Nowhere
    <3>3. \A j : Replied(r, j) => Task(r, j).share # x
      BY <1>3, <2>1, <2>2, <3>1 DEF Single
    <3>4. \A k : Waiting(r, k) => r.calls[k].share # x
      BY <1>7, <2>1, <2>2, <3>1 DEF Single
    <3> QED
      BY <3>2, <3>3, <3>4 DEF Nowhere
  <2> QED
    BY <1>2, <1>9, <1>10, <1>11, <1>12, <2>1, <2>3, <2>4, <2>5 DEF Books
<1>13. CASE s.calls[i].at \notin Waits
  <2>1. Kept(r, D, B)
    <3>1. ~Waiting(s, i)
      BY <1>13 DEF Waiting
    <3> SUFFICES ASSUME NEW y \in s.accepted, y \notin D, y \notin B
                 PROVE  \/ \E j : Replied(r, j) /\ Task(r, j).share = y
                        \/ \E k : Waiting(r, k) /\ r.calls[k].share = y
      BY <1>2 DEF Kept
    <3>2. \/ \E j : Replied(s, j) /\ Task(s, j).share = y
          \/ \E k : Waiting(s, k) /\ s.calls[k].share = y
      BY DEF Books, Kept
    <3> QED
      BY <1>3, <1>8, <3>1, <3>2
  <2> QED
    BY <1>9, <1>10, <1>11, <1>13, <2>1 DEF Books
<1> QED
  BY <1>12, <1>13

(* The share of a reply goes on to a call. *)
LEMMA CallBooks ==
    ASSUME NEW c, NEW s \in SessType, NEW hs \in Seq(Nat), SessOK(s, hs), NEW lives,
           Ended(s, lives), s.row = "have", s.destroyed => s.racing,
           NEW D, NEW B, NEW S, NEW F, NEW h, NEW x \in ShareType,
           Books(c, s, D \cup {x}, B, S, F, h), x \in s.accepted,
           ~s.forgot => Nowhere(s, x) /\ x \notin B,
           NEW at \in {"node", "record"}, at = "node" <=> Own(x),
           NEW t, t = Call(s, at, x)
    PROVE  Books(c, t, D, B, S, F, h)
<1>1. /\ ButCalls(s, t) /\ SameReplies(s, t)
      /\ DOMAIN s.calls = 1..Len(s.calls) /\ Len(s.calls) \in Nat
      /\ DOMAIN t.calls = 1 .. Len(s.calls) + 1
      /\ \A k \in DOMAIN s.calls : t.calls[k] = s.calls[k]
      /\ t.calls[Len(s.calls) + 1] = [at |-> at, share |-> x]
  BY RepliedOK
<1>2. t.mode = s.mode /\ t.accepted = s.accepted /\ t.forgot = s.forgot
  BY <1>1 DEF ButCalls, SameShares
<1>3. \A j : /\ Replied(t, j) <=> Replied(s, j)
             /\ Replied(t, j) => Task(t, j) = Task(s, j)
  BY <1>1 DEF SameReplies, Replied
<1>4. PICK n : n = Len(s.calls) + 1
  OBVIOUS
<1>5. /\ n \notin DOMAIN s.calls /\ n \in DOMAIN t.calls
      /\ \A k \in DOMAIN t.calls : k # n => k \in DOMAIN s.calls
      /\ \A k \in DOMAIN s.calls : k \in DOMAIN t.calls /\ t.calls[k] = s.calls[k]
      /\ t.calls[n].at = at /\ t.calls[n].share = x
  BY <1>1, <1>4
<1>6. /\ \A k : k # n => (Waiting(t, k) <=> Waiting(s, k))
      /\ \A k : Waiting(s, k) => k # n /\ t.calls[k] = s.calls[k]
      /\ Waiting(t, n)
  BY <1>5 DEF Waiting, Waits
<1>7. Kept(t, D, B)
  <2> SUFFICES ASSUME NEW y \in s.accepted, y \notin D, y \notin B
               PROVE  \/ \E j : Replied(t, j) /\ Task(t, j).share = y
                      \/ \E k : Waiting(t, k) /\ t.calls[k].share = y
    BY <1>2 DEF Kept
  <2>1. CASE y = x
    BY <1>5, <1>6, <2>1
  <2>2. CASE y # x
    <3>1. \/ \E j : Replied(s, j) /\ Task(s, j).share = y
          \/ \E k : Waiting(s, k) /\ s.calls[k].share = y
      BY <2>2 DEF Books, Kept
    <3> QED
      BY <1>3, <1>6, <3>1
  <2> QED
    BY <2>1, <2>2
<1>8. Belong(c, t)
  BY <1>2, <1>3, <1>5 DEF Books, Belong
<1>9. ASSUME ~t.forgot PROVE Single(t, B)
  <2>1. Single(s, B) /\ Nowhere(s, x) /\ x \notin B
    BY <1>2, <1>9 DEF Books
  <2>2. \A j, k : Replied(t, j) /\ Replied(t, k) /\ j # k => Task(t, j).share # Task(t, k).share
    BY <1>3, <2>1 DEF Single
  <2>3. ASSUME NEW j, NEW k, Replied(t, j), Waiting(t, k)
        PROVE  Task(t, j).share # t.calls[k].share
    BY <1>3, <1>5, <1>6, <2>1, <2>3 DEF Single, Nowhere
  <2>4. ASSUME NEW k, NEW l, Waiting(t, k), Waiting(t, l), k # l
        PROVE  t.calls[k].share # t.calls[l].share
    BY <1>5, <1>6, <2>1, <2>4 DEF Single, Nowhere
  <2>5. ASSUME NEW y \in B PROVE Nowhere(t, y)
    <3>1. Nowhere(s, y) /\ y # x
      BY <2>1, <2>5 DEF Single
    <3> QED
      BY <1>3, <1>5, <1>6, <3>1 DEF Nowhere
  <2> QED
    BY <2>2, <2>3, <2>4, <2>5 DEF Single
<1>10. ASSUME NEW k, Waiting(t, k)
       PROVE  /\ t.calls[k].at \in {"node", "save"} => Own(t.calls[k].share)
              /\ t.calls[k].at = "save" => t.calls[k].share \in S
              /\ t.calls[k].at = "record" => Settles(t.mode, t.calls[k].share, S, F, h)
  <2>1. CASE k = n
    BY <1>5, <2>1 DEF Settles
  <2>2. CASE k # n
    <3>1. Waiting(s, k) /\ t.calls[k] = s.calls[k]
      BY <1>6, <1>10, <2>2
    <3> QED
      BY <1>2, <3>1 DEF Books, Paid
  <2> QED
    BY <2>1, <2>2
<1> QED
  BY <1>7, <1>8, <1>9, <1>10 DEF Books, Paid

(* A submission is replied to as accepted. *)
LEMMA CreditsBooks ==
    ASSUME NEW c, NEW s, NEW t, NEW x, Credits(s, t, x), x.conn = c,
           NEW D, NEW B, NEW S, NEW F, NEW h, Books(c, s, D, B, S, F, h),
           x \in B => x \in s.accepted
    PROVE  Books(c, t, D, B, S, F, h)
<1>1. /\ t.mode = s.mode /\ t.calls = s.calls /\ (s.forgot => t.forgot)
      /\ t.accepted = s.accepted \cup {x}
      /\ x \in s.accepted => s.forgot
  BY DEF Credits
<1>2. PICK n : n = Len(s.writes) + 1
  OBVIOUS
<1>3. /\ \A i \in DOMAIN s.writes : i \in DOMAIN t.writes /\ t.writes[i] = s.writes[i]
      /\ n \in DOMAIN t.writes /\ n \notin DOMAIN s.writes
      /\ t.writes[n] = [task |-> [at |-> "replied", share |-> x], fails |-> FALSE]
      /\ \A i \in DOMAIN t.writes : i \in DOMAIN s.writes \/ i = n
  BY <1>2 DEF Credits, Appended
<1>4. /\ \A i : Replied(s, i) => i # n /\ Replied(t, i) /\ Task(t, i) = Task(s, i)
      /\ \A i : Replied(t, i) /\ i # n => Replied(s, i) /\ Task(t, i) = Task(s, i)
      /\ Replied(t, n) /\ Task(t, n).share = x
  BY <1>3 DEF Replied, Task
<1>5. \A k : Waiting(t, k) <=> Waiting(s, k)
  BY <1>1 DEF Waiting
<1>6. Kept(t, D, B)
  BY <1>1, <1>4, <1>5 DEF Books, Kept
<1>7. Belong(c, t)
  <2>1. \A i : Replied(t, i) => Task(t, i).share \in t.accepted
    BY <1>1, <1>4 DEF Books, Belong
  <2>2. \A y \in t.accepted : y.conn = c
    BY <1>1 DEF Books, Belong
  <2> QED
    BY <1>1, <2>1, <2>2 DEF Books, Belong
<1>8. ASSUME ~t.forgot PROVE Single(t, B)
  <2>1. Single(s, B) /\ x \notin s.accepted /\ x \notin B
    BY <1>1, <1>8 DEF Books
  <2>2. Nowhere(s, x)
    BY <2>1 DEF Books, Belong, Nowhere, Waiting, Waits
  <2>3. ASSUME NEW i, NEW j, Replied(t, i), Replied(t, j), i # j
        PROVE  Task(t, i).share # Task(t, j).share
    BY <1>4, <2>1, <2>2, <2>3 DEF Single, Nowhere
  <2>4. ASSUME NEW i, NEW k, Replied(t, i), Waiting(t, k)
        PROVE  Task(t, i).share # t.calls[k].share
    BY <1>1, <1>4, <1>5, <2>1, <2>2, <2>4 DEF Single, Nowhere
  <2>5. ASSUME NEW y \in B PROVE Nowhere(t, y)
    <3>1. Nowhere(s, y) /\ y # x
      BY <2>1, <2>5 DEF Single
    <3> QED
      BY <1>1, <1>4, <1>5, <3>1 DEF Nowhere
  <2>6. \A k, l : Waiting(t, k) /\ Waiting(t, l) /\ k # l => t.calls[k].share # t.calls[l].share
    BY <1>1, <1>5, <2>1 DEF Single
  <2> QED
    BY <2>3, <2>4, <2>5, <2>6 DEF Single
<1>9. Paid(t, S, F, h)
  BY <1>1, <1>5 DEF Books, Paid
<1> QED
  BY <1>6, <1>7, <1>8, <1>9 DEF Books

(* The node or the snapshots have got a share, and its next call is made;    *)
(* once it is recorded, only the row may still be touched.                   *)
LEMMA GoesBooks ==
    ASSUME NEW c, NEW s \in SessType, NEW D, NEW B, NEW S, NEW F, NEW h,
           Books(c, s, D, B, S, F, h), NEW i, Waiting(s, i), NEW x, x = s.calls[i].share,
           NEW at \in {"save", "record", "touch"}, NEW t, t = CallGoes(s, i, at),
           at \in {"save"} => Own(x) /\ x \in S,
           at = "record" => Settles(s.mode, x, S, F, h)
    PROVE  IF at = "touch" THEN Books(c, t, D, B \cup {x}, S, F, h) ELSE Books(c, t, D, B, S, F, h)
<1>1. i \in DOMAIN s.calls /\ s.calls[i].at # "delete"
  BY DEF Waiting, Waits
<1>2. /\ ButCalls(s, t) /\ SameReplies(s, t)
      /\ DOMAIN t.calls = DOMAIN s.calls
      /\ \A k \in DOMAIN s.calls : k # i => t.calls[k] = s.calls[k]
      /\ t.calls[i] = [at |-> at, share |-> x]
  <2>1. ButCalls(s, t) /\ GoesOn(s, t, i, at)
    BY <1>1, CallGoesEffect
  <2>2. SameReplies(s, t)
    BY <2>1 DEF SameReplies, ButCalls, Task
  <2> QED
    BY <2>1, <2>2 DEF GoesOn
<1>3. t.mode = s.mode /\ t.accepted = s.accepted /\ t.forgot = s.forgot
  BY <1>2 DEF ButCalls, SameShares
<1>4. \A j : /\ Replied(t, j) <=> Replied(s, j)
             /\ Replied(t, j) => Task(t, j) = Task(s, j)
  BY <1>2 DEF SameReplies, Replied
<1>5. /\ \A k : k # i => (Waiting(t, k) <=> Waiting(s, k))
      /\ \A k : k # i /\ Waiting(s, k) => t.calls[k] = s.calls[k]
      /\ Waiting(t, i) <=> at # "touch"
      /\ t.calls[i].share = x /\ t.calls[i].at = at
  BY <1>1, <1>2 DEF Waiting, Waits
<1>6. \A k : Waiting(t, k) => Waiting(s, k) /\ t.calls[k].share = s.calls[k].share
  BY <1>5
<1>7. x \in s.accepted
  BY <1>1 DEF Books, Belong
<1>8. Belong(c, t)
  <2>1. \A k \in DOMAIN t.calls : t.calls[k].at # "delete" => t.calls[k].share \in t.accepted
    BY <1>2, <1>3, <1>5, <1>7 DEF Books, Belong
  <2> QED
    BY <1>3, <1>4, <2>1 DEF Books, Belong
<1>9. Paid(t, S, F, h)
  <2> SUFFICES ASSUME NEW k, Waiting(t, k)
               PROVE  /\ t.calls[k].at \in {"node", "save"} => Own(t.calls[k].share)
                      /\ t.calls[k].at = "save" => t.calls[k].share \in S
                      /\ t.calls[k].at = "record" => Settles(t.mode, t.calls[k].share, S, F, h)
    BY DEF Paid
  <2>1. CASE k = i
    BY <1>3, <1>5, <2>1
  <2>2. CASE k # i
    <3>1. Waiting(s, k) /\ t.calls[k] = s.calls[k]
      BY <1>5, <2>2
    <3> QED
      BY <1>3, <3>1 DEF Books, Paid
  <2> QED
    BY <2>1, <2>2
<1>10. ASSUME NEW y \in s.accepted, y \notin D, y \notin B
       PROVE  \/ \E j : Replied(t, j) /\ Task(t, j).share = y
              \/ \E k : Waiting(t, k) /\ t.calls[k].share = y
              \/ at = "touch" /\ y = x
  <2>1. \/ \E j : Replied(s, j) /\ Task(s, j).share = y
        \/ \E k : Waiting(s, k) /\ s.calls[k].share = y
    BY <1>10 DEF Books, Kept
  <2>2. CASE \E j : Replied(s, j) /\ Task(s, j).share = y
    BY <1>4, <2>2
  <2>3. ASSUME NEW k, Waiting(s, k), s.calls[k].share = y
        PROVE  (Waiting(t, k) /\ t.calls[k].share = y) \/ (at = "touch" /\ y = x)
    BY <1>5, <2>3
  <2> QED
    BY <2>1, <2>2, <2>3
<1>11. ASSUME ~t.forgot PROVE Single(t, B) /\ (at = "touch" => Nowhere(t, x))
  <2>1. Single(s, B)
    BY <1>3, <1>11 DEF Books
  <2>2. Single(t, B)
    <3>1. \A j, k : Replied(t, j) /\ Replied(t, k) /\ j # k => Task(t, j).share # Task(t, k).share
      BY <1>4, <2>1 DEF Single
    <3>2. \A j, k : Replied(t, j) /\ Waiting(t, k) => Task(t, j).share # t.calls[k].share
      BY <1>4, <1>6, <2>1 DEF Single
    <3>3. \A k, l : Waiting(t, k) /\ Waiting(t, l) /\ k # l => t.calls[k].share # t.calls[l].share
      BY <1>6, <2>1 DEF Single
    <3>4. \A y : Nowhere(s, y) => Nowhere(t, y)
      BY <1>4, <1>6 DEF Nowhere
    <3> QED
      BY <2>1, <3>1, <3>2, <3>3, <3>4 DEF Single
  <2>3. ASSUME at = "touch" PROVE Nowhere(t, x)
    <3>1. \A j : Replied(t, j) => Task(t, j).share # x
      BY <1>4, <2>1 DEF Single
    <3>2. \A k : Waiting(t, k) => k # i /\ Waiting(s, k) /\ t.calls[k] = s.calls[k]
      BY <1>5, <2>3
    <3>3. \A k : Waiting(t, k) => t.calls[k].share # x
      BY <2>1, <3>2 DEF Single
    <3> QED
      BY <3>1, <3>3 DEF Nowhere
  <2> QED
    BY <2>2, <2>3
<1>12. CASE at = "touch"
  <2>1. Kept(t, D, B \cup {x})
    BY <1>3, <1>10 DEF Kept
  <2>2. ~t.forgot => Single(t, B \cup {x})
    BY <1>11, <1>12 DEF Single
  <2> QED
    BY <1>8, <1>9, <1>12, <2>1, <2>2 DEF Books
<1>13. CASE at # "touch"
  <2>1. Kept(t, D, B)
    BY <1>3, <1>10, <1>13 DEF Kept
  <2> QED
    BY <1>8, <1>9, <1>11, <1>13, <2>1 DEF Books
<1> QED
  BY <1>12, <1>13

(* The books of all connections.  Besides, what is recorded was accepted,    *)
(* once, and a block of it settled.                                          *)
Booked == Range(recorded)
BooksAt(c, s) == Books(c, s, dropped, Booked, submitted, finalized, heights)
LogInv ==
    /\ recorded \in Seq(ShareType)
    /\ \A c \in Conns : BooksAt(c, sess[c])
    /\ \A x \in Booked :
          /\ x.conn \in Conns /\ x \in sess[x.conn].accepted
          /\ Settles(sess[x.conn].mode, x, submitted, finalized, heights)
    /\ CreditedOnce

(* A session forgets no share it accepted. *)
Grows(s, t) ==
    s.accepted \subseteq t.accepted /\ (s.forgot => t.forgot) /\ t.mode = s.mode

LEMMA GrowsBy ==
    ASSUME NEW s, NEW t
    PROVE  /\ Quietly(s, t) => Grows(s, t)
           /\ \A x : Credits(s, t, x) => Grows(s, t)
           /\ ButCalls(s, t) => Grows(s, t)
           /\ Rest(s, t) => Grows(s, t)
           /\ \A r : Grows(s, r) /\ Grows(r, t) => Grows(s, t)
<1>1. Quietly(s, t) => Grows(s, t)
  BY DEF Quietly, Grows
<1>2. \A x : Credits(s, t, x) => Grows(s, t)
  BY DEF Credits, Grows
<1>3. ButCalls(s, t) => Grows(s, t)
  BY DEF ButCalls, SameShares, Grows
<1>4. Rest(s, t) => Grows(s, t)
  BY DEF Rest, Grows
<1>5. \A r : Grows(s, r) /\ Grows(r, t) => Grows(s, t)
  BY DEF Grows
<1> QED
  BY <1>1, <1>2, <1>3, <1>4, <1>5

LEMMA AcceptedWork ==
    ASSUME HoldsInv, NEW c \in Conns, NEW x \in sess[c].accepted
    PROVE  x \in ShareType /\ x.job.template \in 1..Latest
<1>1. PICK s : s = sess[c]
  OBVIOUS
<1>2. s \in SessType /\ SessOK(s, infos)
  BY <1>1, SessIs
<1>3. x \in ShareType
  BY <1>1, <1>2 DEF SessType
<1>4. x.job.template \in 1..MaxTemplates
  BY <1>3 DEF ShareType, JobType
<1>5. x.job.template <= Len(infos)
  BY <1>1, <1>2 DEF SessOK, CurrentOK
<1>6. Len(infos) \in Nat
  BY DEF HoldsInv, Typed, Chain
<1> QED
  BY <1>3, <1>4, <1>5, <1>6 DEF Latest

(* The sessions go on, and nothing is recorded. *)
LEMMA LogsKeep ==
    ASSUME HoldsInv, LogInv, \A c \in Conns : Grows(sess[c], sess'[c]),
           \A c \in Conns : BooksAt(c, sess[c])',
           recorded' = recorded, submitted \subseteq submitted', finalized \subseteq finalized',
           \A n \in 1..Latest : heights'[n] = heights[n]
    PROVE  LogInv'
<1>1. Booked' = Booked
  BY DEF Booked
<1>2. ASSUME NEW x \in Booked
      PROVE  /\ x.conn \in Conns /\ x \in sess'[x.conn].accepted
             /\ Settles(sess'[x.conn].mode, x, submitted', finalized', heights')
  <2>1. /\ x.conn \in Conns /\ x \in sess[x.conn].accepted
        /\ Settles(sess[x.conn].mode, x, submitted, finalized, heights)
    BY DEF LogInv
  <2>2. x \in sess'[x.conn].accepted /\ sess'[x.conn].mode = sess[x.conn].mode
    BY <2>1 DEF Grows
  <2>3. heights'[x.job.template] = heights[x.job.template]
    BY <2>1, AcceptedWork
  <2> QED
    BY <2>1, <2>2, <2>3 DEF Settles
<1>3. CreditedOnce'
  <2> SUFFICES ASSUME NEW a \in DOMAIN recorded, NEW b \in DOMAIN recorded, a # b,
                      recorded[a] = recorded[b]
               PROVE  sess'[recorded[a].conn].forgot
    BY DEF CreditedOnce
  <2>1. sess[recorded[a].conn].forgot
    BY DEF LogInv, CreditedOnce
  <2>2. recorded[a] \in Booked
    BY DEF Booked, Range
  <2>3. recorded[a].conn \in Conns
    BY <2>2 DEF LogInv
  <2> QED
    BY <2>1, <2>3 DEF Grows
<1>4. \A x \in Booked' : /\ x.conn \in Conns /\ (x \in sess[x.conn].accepted)'
                         /\ Settles(sess[x.conn].mode, x, submitted, finalized, heights)'
  BY <1>1, <1>2
<1> QED
  BY <1>3, <1>4 DEF LogInv

(* One session goes on. *)
LEMMA OneKeeps ==
    ASSUME HoldsInv, LogInv, NEW c \in Conns, NEW t, sess' = [sess EXCEPT ![c] = t],
           Grows(sess[c], t), UNCHANGED heights, recorded' = recorded,
           dropped \subseteq dropped', submitted \subseteq submitted',
           finalized \subseteq finalized',
           Books(c, t, dropped', Booked, submitted', finalized', heights)
    PROVE  LogInv'
<1>1. sess \in [Conns -> SessType]
  BY DEF HoldsInv, Typed
<1>2. sess'[c] = t /\ \A d \in Conns : d # c => sess'[d] = sess[d]
  BY <1>1
<1>3. \A d \in Conns : Grows(sess[d], sess'[d])
  BY <1>2 DEF Grows
<1>4. Booked' = Booked
  BY DEF Booked
<1>5. ASSUME NEW d \in Conns PROVE BooksAt(d, sess[d])'
  <2>1. CASE d = c
    BY <1>2, <1>4, <2>1 DEF BooksAt
  <2>2. CASE d # c
    <3>1. Books(d, sess[d], dropped, Booked, submitted, finalized, heights)
      BY DEF LogInv, BooksAt
    <3>2. Books(d, sess[d], dropped', Booked, submitted', finalized', heights)
      BY <3>1, MoreBooks
    <3> QED
      BY <1>2, <1>4, <2>2, <3>2 DEF BooksAt
  <2> QED
    BY <2>1, <2>2
<1>6. \A n \in 1..Latest : heights'[n] = heights[n]
  OBVIOUS
<1> QED
  BY <1>3, <1>5, <1>6, LogsKeep

LEMMA QuietKeeps ==
    ASSUME HoldsInv, LogInv, NEW c \in Conns,
           \E t : sess' = [sess EXCEPT ![c] = t] /\ Quietly(sess[c], t),
           UNCHANGED heights, UNCHANGED logs
    PROVE  LogInv'
<1>1. PICK t : sess' = [sess EXCEPT ![c] = t] /\ Quietly(sess[c], t)
  OBVIOUS
<1>2. recorded' = recorded /\ dropped' = dropped /\ submitted' = submitted /\ finalized' = finalized
  BY DEF logs
<1>3. Books(c, sess[c], dropped, Booked, submitted, finalized, heights)
  BY DEF LogInv, BooksAt
<1>4. Books(c, t, dropped, Booked, submitted, finalized, heights)
  BY <1>1, <1>3, QuietBooks
<1>5. Grows(sess[c], t)
  BY <1>1, GrowsBy
<1> QED
  BY <1>1, <1>2, <1>4, <1>5, OneKeeps

(* Sequence g has x after what q has. *)
Adds(q, g, x) ==
    /\ g \in Seq(ShareType) /\ Range(g) = Range(q) \cup {x}
    /\ DOMAIN g = DOMAIN q \cup {Len(q) + 1} /\ g[Len(q) + 1] = x
    /\ \A k \in DOMAIN q : g[k] = q[k] /\ g[k] \in Range(q)

LEMMA AppendAdds ==
    ASSUME NEW q \in Seq(ShareType), NEW x \in ShareType, NEW g, g = Append(q, x)
    PROVE  Adds(q, g, x)
<1>1. /\ g \in Seq(ShareType) /\ DOMAIN q = 1..Len(q) /\ Len(q) \in Nat
      /\ DOMAIN g = 1 .. Len(q) + 1 /\ g[Len(q) + 1] = x
      /\ \A k \in 1..Len(q) : g[k] = q[k]
  BY AppendProperties, LenProperties
<1>2. DOMAIN g = DOMAIN q \cup {Len(q) + 1}
  BY <1>1
<1>3. Range(g) = Range(q) \cup {x}
  BY <1>1, <1>2 DEF Range
<1>4. \A k \in DOMAIN q : g[k] = q[k] /\ g[k] \in Range(q)
  BY <1>1 DEF Range
<1> QED
  BY <1>1, <1>2, <1>3, <1>4 DEF Adds

(* A share of a session's is recorded. *)
LEMMA OneRecords ==
    ASSUME HoldsInv, LogInv, NEW c \in Conns, NEW t, sess' = [sess EXCEPT ![c] = t],
           Grows(sess[c], t), UNCHANGED heights, NEW x \in ShareType, x.conn = c,
           recorded' = Append(recorded, x), x \in t.accepted, x \in Booked => t.forgot,
           UNCHANGED <<dropped, submitted, finalized>>,
           Settles(t.mode, x, submitted, finalized, heights),
           Books(c, t, dropped, Booked \cup {x}, submitted, finalized, heights)
    PROVE  LogInv'
<1>1. sess \in [Conns -> SessType]
  BY DEF HoldsInv, Typed
<1>2. sess'[c] = t /\ \A d \in Conns : d # c => sess'[d] = sess[d]
  BY <1>1
<1>3. PICK n : n = Len(recorded) + 1
  OBVIOUS
<1>4. /\ recorded' \in Seq(ShareType) /\ Booked' = Booked \cup {x}
      /\ DOMAIN recorded' = DOMAIN recorded \cup {n} /\ recorded'[n] = x
      /\ \A k \in DOMAIN recorded : recorded'[k] = recorded[k] /\ recorded'[k] \in Booked
  <2>1. PICK q \in Seq(ShareType) : q = recorded
    BY DEF LogInv
  <2>2. PICK g : g = Append(q, x)
    OBVIOUS
  <2>3. Adds(q, g, x)
    BY <2>2, AppendAdds
  <2>4. recorded' = g /\ Booked = Range(q) /\ Booked' = Range(g)
    BY <2>1, <2>2 DEF Booked
  <2> QED
    BY <1>3, <2>1, <2>3, <2>4 DEF Adds
<1>5. ASSUME NEW d \in Conns PROVE BooksAt(d, sess[d])'
  <2>1. CASE d = c
    BY <1>2, <1>4, <2>1 DEF BooksAt
  <2>2. CASE d # c
    <3>1. Books(d, sess[d], dropped, Booked, submitted, finalized, heights)
      BY DEF LogInv, BooksAt
    <3>2. Books(d, sess[d], dropped, Booked \cup {x}, submitted, finalized, heights)
      BY <2>2, <3>1, OtherBooks
    <3> QED
      BY <1>2, <1>4, <2>2, <3>2 DEF BooksAt
  <2> QED
    BY <2>1, <2>2
<1>6. ASSUME NEW y \in Booked'
      PROVE  /\ y.conn \in Conns /\ (y \in sess[y.conn].accepted)'
             /\ Settles(sess[y.conn].mode, y, submitted, finalized, heights)'
  <2>1. CASE y = x
    BY <1>2, <2>1
  <2>2. CASE y # x
    <3>1. /\ y.conn \in Conns /\ y \in sess[y.conn].accepted
          /\ Settles(sess[y.conn].mode, y, submitted, finalized, heights)
      BY <1>4, <2>2 DEF LogInv
    <3>2. y \in sess'[y.conn].accepted /\ sess'[y.conn].mode = sess[y.conn].mode
      BY <1>2, <3>1 DEF Grows
    <3> QED
      BY <3>1, <3>2
  <2> QED
    BY <2>1, <2>2
<1>7. CreditedOnce'
  <2> SUFFICES ASSUME NEW a \in DOMAIN recorded', NEW b \in DOMAIN recorded', a # b,
                      recorded'[a] = recorded'[b]
               PROVE  sess'[recorded'[a].conn].forgot
    BY DEF CreditedOnce
  <2>1. CASE a = n \/ b = n
    <3>1. x \in Booked /\ recorded'[a] = x
      BY <1>4, <2>1
    <3> QED
      BY <1>2, <3>1
  <2>2. CASE a # n /\ b # n
    <3>1. a \in DOMAIN recorded /\ b \in DOMAIN recorded /\ recorded[a] = recorded[b]
      BY <1>4, <2>2
    <3>2. sess[recorded[a].conn].forgot
      BY <3>1 DEF LogInv, CreditedOnce
    <3>3. recorded[a].conn \in Conns
      BY <1>4, <3>1 DEF LogInv
    <3>4. sess'[recorded[a].conn].forgot
      BY <1>2, <3>2, <3>3 DEF Grows
    <3> QED
      BY <1>4, <3>1, <3>4
  <2> QED
    BY <2>1, <2>2
<1> QED
  BY <1>4, <1>5, <1>6, <1>7 DEF LogInv

LEMMA SubmitLogs ==
    ASSUME HoldsInv, LogInv, NEW c \in Conns, NEW ch, About(c, ch), Submit(c, ch)
    PROVE  LogInv'
<1>1. UNCHANGED heights /\ UNCHANGED logs
  <2>1. Same
    BY DEF Submit, Handle
  <2> QED
    BY <2>1 DEF Same, SameLogs, chain
<1>2. ASSUME NEW t, MovedQuietly(c, t) PROVE LogInv'
  BY <1>1, <1>2, QuietKeeps DEF MovedQuietly, MovedTo
<1>3. ASSUME NEW t, NEW x \in ShareType, MovedTo(c, t), Credits(sess[c], t, x), x.conn = c
      PROVE  LogInv'
  <2>1. sess' = [sess EXCEPT ![c] = t]
    BY <1>3 DEF MovedTo
  <2>2. Grows(sess[c], t)
    BY <1>3, GrowsBy
  <2>3. /\ recorded' = recorded /\ dropped' = dropped /\ submitted' = submitted
        /\ finalized' = finalized
    BY <1>1 DEF logs
  <2>4. Books(c, sess[c], dropped, Booked, submitted, finalized, heights)
    BY DEF LogInv, BooksAt
  <2>5. x \in Booked => x \in sess[c].accepted
    BY <1>3 DEF LogInv
  <2>6. Books(c, t, dropped, Booked, submitted, finalized, heights)
    BY <1>3, <2>4, <2>5, CreditsBooks
  <2> QED
    BY <1>1, <2>1, <2>2, <2>3, <2>6, OneKeeps
<1> QED
  BY <1>2, <1>3, SubmitMoves

LEMMA ReceiveLogs ==
    ASSUME HoldsInv, LogInv, NEW c \in Conns, Settled(sess[c]), Receive(c)
    PROVE  LogInv'
<1>1. ASSUME UNCHANGED heights, UNCHANGED logs,
             \E t : sess' = [sess EXCEPT ![c] = t] /\ Quietly(sess[c], t)
      PROVE  LogInv'
  BY <1>1, QuietKeeps
<1>2. \A t : MovedQuietly(c, t) => sess' = [sess EXCEPT ![c] = t] /\ Quietly(sess[c], t)
  BY DEF MovedQuietly, MovedTo
<1>3. SameLogs => UNCHANGED logs
  BY DEF SameLogs
<1>4. Same => UNCHANGED heights /\ UNCHANGED logs
  BY DEF Same, SameLogs, chain
<1>5. CASE Handshake(c)
  <2>1. Same
    BY <1>5 DEF Handshake
  <2> QED
    BY <1>1, <1>2, <1>4, <1>5, <2>1, HandshakeMoves
<1>6. CASE BadHandshake(c)
  <2>1. Same
    BY <1>6 DEF BadHandshake
  <2> QED
    BY <1>1, <1>2, <1>4, <1>6, <2>1, DownMoves
<1>7. CASE Setup(c)
  <2>1. Same
    BY <1>7 DEF Setup
  <2> QED
    BY <1>1, <1>2, <1>4, <1>7, <2>1, SetupMoves
<1>8. CASE Refuse(c)
  <2>1. Same
    BY <1>8 DEF Refuse, Handle
  <2> QED
    BY <1>1, <1>2, <1>4, <1>8, <2>1, RefuseMoves
<1>9. ASSUME NEW d \in OpeningDifficulties, OpenStandard(c, d) PROVE LogInv'
  <2>1. UNCHANGED heights /\ UNCHANGED logs
    BY <1>9 DEF OpenStandard, SameLogs, chain
  <2> QED
    BY <1>1, <1>9, <2>1, OpenStandardInv
<1>10. ASSUME NEW d \in OpeningDifficulties, OpenExtended(c, d) PROVE LogInv'
  <2>1. UNCHANGED heights /\ UNCHANGED logs
    BY <1>10 DEF OpenExtended, SameLogs, chain
  <2> QED
    BY <1>1, <1>10, <2>1, OpenExtendedInv
<1>11. CASE OpenTooLarge(c)
  <2>1. UNCHANGED heights /\ UNCHANGED logs
    BY <1>11 DEF OpenTooLarge, SameLogs, chain
  <2> QED
    BY <1>1, <1>2, <1>11, <2>1, OpenTooLargeMoves
<1>12. CASE OpenExhausted(c)
  <2>1. UNCHANGED heights /\ UNCHANGED logs
    BY <1>12 DEF OpenExhausted, SameLogs, chain
  <2> QED
    BY <1>1, <1>2, <1>12, <2>1, OpenExhaustedMoves
<1>13. ASSUME NEW ch, About(c, ch),
              \/ \E d \in Difficulties : UpdateChannel(c, ch, d)
              \/ CloseChannel(c, ch)
              \/ SetCustomJob(c, ch)
              \/ Submit(c, ch)
       PROVE  LogInv'
  <2>1. ASSUME NEW d \in Difficulties, UpdateChannel(c, ch, d) PROVE LogInv'
    <3>1. Same
      BY <2>1 DEF UpdateChannel, Handle
    <3> QED
      BY <1>1, <1>2, <1>4, <1>13, <2>1, <3>1, UpdateChannelMoves
  <2>2. CASE CloseChannel(c, ch)
    <3>1. Same
      BY <2>2 DEF CloseChannel, Handle
    <3> QED
      BY <1>1, <1>2, <1>4, <1>13, <2>2, <3>1, CloseChannelMoves
  <2>3. CASE SetCustomJob(c, ch)
    <3>1. Same
      BY <2>3 DEF SetCustomJob, Handle
    <3> QED
      BY <1>1, <1>2, <1>4, <1>13, <2>3, <3>1, SetCustomJobMoves
  <2>4. CASE Submit(c, ch)
    BY <1>13, <2>4, SubmitLogs
  <2> QED
    BY <1>13, <2>1, <2>2, <2>3, <2>4
<1> QED
  BY <1>5, <1>6, <1>7, <1>8, <1>9, <1>10, <1>11, <1>12, <1>13 DEF Receive, About

LEMMA WriteLogs ==
    ASSUME HoldsInv, LogInv, NEW c \in Conns, NEW i \in DOMAIN sess[c].writes,
           WriteEnds(c, i) \/ (WriteFails(c, i) /\ Settled(sess[c]))
    PROVE  LogInv'
<1>1. PICK s : s = sess[c]
  OBVIOUS
<1>2. PICK r : r = Done(s, i)
  OBVIOUS
<1>3. /\ s \in SessType /\ SessOK(s, infos) /\ infos \in Seq(Nat)
      /\ Ended(s, c \in live)
  BY <1>1, SessIs
<1>4. r \in SessType /\ Rest(s, r)
  BY <1>1, <1>2, <1>3, DoneEffect
<1>5. Grows(s, r)
  BY <1>4, GrowsBy
<1>6. Books(c, s, dropped, Booked, submitted, finalized, heights)
  BY <1>1 DEF LogInv, BooksAt
<1>7. PICK x : x = Task(s, i).share
  OBVIOUS
<1>8. IF Task(s, i).at = "replied"
      THEN /\ Books(c, r, dropped \cup {x}, Booked, submitted, finalized, heights)
           /\ x \in r.accepted
           /\ ~r.forgot => Nowhere(r, x) /\ x \notin Booked
      ELSE Books(c, r, dropped, Booked, submitted, finalized, heights)
  BY <1>1, <1>2, <1>3, <1>6, <1>7, DoneBooks
<1>9. CASE WriteEnds(c, i)
  <2>1. PICK t : /\ MovedTo(c, t)
                 /\ IF Task(s, i).at = "replied"
                    THEN t = Call(r, NextCall(x), x)
                    ELSE Quietly(r, t)
    BY <1>1, <1>2, <1>7, <1>9, WriteEndsMoves
  <2>2. Same
    BY <1>9 DEF WriteEnds
  <2>3. /\ UNCHANGED heights /\ recorded' = recorded /\ dropped' = dropped
        /\ submitted' = submitted /\ finalized' = finalized
    BY <2>2 DEF Same, SameLogs, logs, chain
  <2>4. sess' = [sess EXCEPT ![c] = t]
    BY <2>1 DEF MovedTo
  <2>5. Grows(s, t) /\ Books(c, t, dropped, Booked, submitted, finalized, heights)
    <3>1. CASE Task(s, i).at = "replied"
      <4>1. ~s.writes[i].fails
        BY <1>1, <1>9 DEF WriteEnds
      <4>2. /\ SessOK(r, infos) /\ Ended(r, c \in live) /\ r.row = s.row
            /\ (r.destroyed => r.racing)
        BY <1>1, <1>2, <4>1, DoneIs
      <4>3. PICK lives : lives = (c \in live)
        OBVIOUS
      <4>4. r.row = "have"
        BY <1>1, <1>3, <3>1, <4>2 DEF SessOK, RowOK
      <4>5. x \in ShareType
        BY <1>3, <1>4, <1>8, <3>1 DEF SessType
      <4>6. PICK at \in {"node", "record"} : at = NextCall(x) /\ (at = "node" <=> Own(x))
        BY DEF NextCall, Own
      <4>7. t = Call(r, at, x)
        BY <2>1, <3>1, <4>6
      <4>8. /\ Books(c, r, dropped \cup {x}, Booked, submitted, finalized, heights)
            /\ x \in r.accepted /\ (~r.forgot => Nowhere(r, x) /\ x \notin Booked)
        BY <1>8, <3>1
      <4>9. Books(c, t, dropped, Booked, submitted, finalized, heights)
        BY <1>3, <1>4, <4>2, <4>3, <4>4, <4>5, <4>6, <4>7, <4>8, CallBooks
      <4>10. ButCalls(r, t)
        BY <1>3, <1>4, <4>2, <4>3, <4>4, <4>5, <4>7, RepliedOK
      <4> QED
        BY <1>5, <4>9, <4>10, GrowsBy
    <3>2. CASE Task(s, i).at # "replied"
      <4>1. Quietly(r, t) /\ Books(c, r, dropped, Booked, submitted, finalized, heights)
        BY <1>8, <2>1, <3>2
      <4> QED
        BY <1>5, <4>1, GrowsBy, QuietBooks
    <3> QED
      BY <3>1, <3>2
  <2> QED
    BY <1>1, <2>3, <2>4, <2>5, OneKeeps
<1>10. CASE WriteFails(c, i) /\ Settled(sess[c])
  <2>1. PICK t : MovedTo(c, t) /\ Quietly(r, t)
    BY <1>1, <1>2, <1>10, WriteFailsMoves
  <2>2. dropped' = IF Task(s, i).at = "replied" THEN dropped \cup {x} ELSE dropped
    BY <1>1, <1>7, <1>10, WriteFailsMoves
  <2>3. /\ UNCHANGED heights /\ recorded' = recorded
        /\ submitted' = submitted /\ finalized' = finalized
    BY <1>10 DEF WriteFails, chain
  <2>4. sess' = [sess EXCEPT ![c] = t]
    BY <2>1 DEF MovedTo
  <2>5. Books(c, r, dropped', Booked, submitted, finalized, heights)
    BY <1>8, <2>2
  <2>6. Books(c, t, dropped', Booked, submitted, finalized, heights)
    BY <2>1, <2>5, QuietBooks
  <2>7. Grows(s, t)
    BY <1>5, <2>1, GrowsBy
  <2>8. dropped \subseteq dropped'
    BY <2>2
  <2> QED
    BY <1>1, <2>3, <2>4, <2>6, <2>7, <2>8, OneKeeps
<1> QED
  BY <1>9, <1>10

LEMMA ContinueLogs ==
    ASSUME HoldsInv, LogInv, NEW c \in Conns, Settled(sess[c]), NEW i \in DOMAIN sess[c].calls,
           Continue(c, i)
    PROVE  LogInv'
<1>1. PICK s : s = sess[c]
  OBVIOUS
<1>2. /\ s \in SessType /\ SessOK(s, infos) /\ infos \in Seq(Nat)
      /\ Ended(s, c \in live)
  BY <1>1, SessIs
<1>3. PICK lives : lives = (c \in live)
  OBVIOUS
<1>4. Books(c, s, dropped, Booked, submitted, finalized, heights)
  BY <1>1 DEF LogInv, BooksAt
<1>5. PICK x : x = s.calls[i].share
  OBVIOUS
<1>6. ShareOf(c, i) = x /\ HeightOf(x) = heights[x.job.template]
  BY <1>1, <1>5 DEF ShareOf, HeightOf
<1>7. UNCHANGED heights
  BY DEF Continue, SubmitBlock, SaveBlock, CallFails, Record, TouchRow, DeleteRow, SamePool, chain
<1>8. s.calls[i].at \in Waits =>
         /\ Waiting(s, i) /\ x \in ShareType /\ x \in s.accepted /\ x.conn = c
  <2> SUFFICES ASSUME s.calls[i].at \in Waits
               PROVE  /\ Waiting(s, i) /\ x \in ShareType /\ x \in s.accepted /\ x.conn = c
    OBVIOUS
  <2>1. Waiting(s, i) /\ i \in DOMAIN s.calls /\ s.calls[i].at # "delete"
    BY <1>1 DEF Waiting, Waits
  <2>2. x \in s.accepted /\ x.conn = c
    BY <1>4, <1>5, <2>1 DEF Books, Belong
  <2>3. x \in ShareType
    BY <1>2, <2>2 DEF SessType
  <2> QED
    BY <2>1, <2>2, <2>3
<1>9. PICK r : r = Finished(s, i)
  OBVIOUS
<1>10. ButCalls(s, r) /\ Grows(s, r)
  <2>1. ButCalls(s, r)
    BY <1>1, <1>2, <1>3, <1>9, FinishedOK
  <2> QED
    BY <2>1, GrowsBy
<1>11. IF s.calls[i].at \in Waits
       THEN /\ Books(c, r, dropped \cup {x}, Booked, submitted, finalized, heights)
            /\ x \in r.accepted
            /\ ~r.forgot => Nowhere(r, x)
            /\ ~s.forgot => x \notin Booked
       ELSE Books(c, r, dropped, Booked, submitted, finalized, heights)
  BY <1>1, <1>2, <1>3, <1>4, <1>5, <1>9, FinishedBooks
<1>12. ASSUME NEW at \in {"save", "record", "touch"}, NEW t, t = CallGoes(s, i, at),
              s.calls[i].at \in Waits
       PROVE  Grows(s, t)
  <2>1. ButCalls(s, t)
    <3>1. i \in DOMAIN s.calls /\ s.calls[i].at # "delete"
      BY <1>1, <1>12 DEF Waits
    <3> QED
      BY <1>2, <1>12, <3>1, CallGoesEffect
  <2> QED
    BY <2>1, GrowsBy
<1>13. CASE SubmitBlock(c, i)
  <2>1. s.calls[i].at = "node" /\ s.calls[i].at \in Waits
    BY <1>1, <1>13 DEF SubmitBlock, Called, Waits
  <2>2. PICK t : t = CallGoes(s, i, "save")
    OBVIOUS
  <2>3. sess' = [sess EXCEPT ![c] = t]
    BY <1>1, <1>13, <2>2 DEF SubmitBlock, Go
  <2>4. /\ submitted' = submitted \cup {x} /\ recorded' = recorded /\ dropped' = dropped
        /\ finalized' = finalized
    BY <1>6, <1>13 DEF SubmitBlock
  <2>5. Books(c, s, dropped, Booked, submitted', finalized, heights)
    BY <1>4, <2>4, MoreBooks
  <2>6. Own(x) /\ x \in submitted'
    BY <1>4, <1>5, <1>8, <2>1, <2>4 DEF Books, Paid
  <2>7. Books(c, t, dropped, Booked, submitted', finalized, heights)
    BY <1>2, <1>5, <1>8, <2>1, <2>2, <2>5, <2>6, GoesBooks
  <2>8. Grows(s, t)
    BY <1>12, <2>1, <2>2
  <2> QED
    BY <1>1, <1>7, <2>3, <2>4, <2>7, <2>8, OneKeeps
<1>14. CASE SaveBlock(c, i)
  <2>1. s.calls[i].at = "save" /\ s.calls[i].at \in Waits
    BY <1>1, <1>14 DEF SaveBlock, Called, Waits
  <2>2. PICK t : t = CallGoes(s, i, "record")
    OBVIOUS
  <2>3. sess' = [sess EXCEPT ![c] = t]
    BY <1>1, <1>14, <2>2 DEF SaveBlock, Go
  <2>4. /\ submitted' = submitted /\ recorded' = recorded /\ dropped' = dropped
        /\ finalized' = IF s.mode = "pplns"
                        THEN finalized \cup {<<x.job.template, heights[x.job.template]>>}
                        ELSE finalized
    BY <1>1, <1>6, <1>14 DEF SaveBlock
  <2>5. finalized \subseteq finalized'
    BY <2>4
  <2>6. Books(c, s, dropped, Booked, submitted, finalized', heights)
    BY <1>4, <2>5, MoreBooks
  <2>7. x \in submitted
    BY <1>4, <1>5, <1>8, <2>1 DEF Books, Paid
  <2>8. Settles(s.mode, x, submitted, finalized', heights)
    BY <2>4, <2>7 DEF Settles
  <2>9. Books(c, t, dropped, Booked, submitted, finalized', heights)
    <3>1. PICK at, F : at = "record" /\ F = finalized'
      OBVIOUS
    <3>2. s \in SessType /\ Waiting(s, i) /\ x = s.calls[i].share /\ t = CallGoes(s, i, at)
      BY <1>2, <1>5, <1>8, <2>1, <2>2, <3>1
    <3>3. at \in {"save", "record", "touch"} /\ at \notin {"save"} /\ at # "touch"
      BY <3>1
    <3>4. /\ Books(c, s, dropped, Booked, submitted, F, heights)
          /\ Settles(s.mode, x, submitted, F, heights)
      BY ONLY <2>6, <2>8, <3>1
    <3>5. Books(c, t, dropped, Booked, submitted, F, heights)
      BY ONLY <3>2, <3>3, <3>4, GoesBooks
    <3> QED
      BY ONLY <3>1, <3>5
  <2>10. Grows(s, t)
    BY <1>12, <2>1, <2>2
  <2> QED
    BY <1>1, <1>7, <2>3, <2>4, <2>5, <2>9, <2>10, OneKeeps
<1>15. CASE CallFails(c, i)
  <2>1. s.calls[i].at \in Waits
    BY <1>1, <1>15 DEF CallFails, Called, Waits
  <2>2. PICK t : MovedTo(c, t) /\ Quietly(r, t)
    BY <1>1, <1>9, <1>15, CallFailsMoves
  <2>3. sess' = [sess EXCEPT ![c] = t]
    BY <2>2 DEF MovedTo
  <2>4. /\ dropped' = dropped \cup {x} /\ recorded' = recorded /\ submitted' = submitted
        /\ finalized' = finalized
    BY <1>6, <1>15 DEF CallFails
  <2>5. Books(c, t, dropped', Booked, submitted, finalized, heights)
    BY <1>11, <2>1, <2>2, <2>4, QuietBooks
  <2>6. Grows(s, t)
    BY <1>10, <2>2, GrowsBy
  <2> QED
    BY <1>1, <1>7, <2>3, <2>4, <2>5, <2>6, OneKeeps
<1>16. CASE Record(c, i)
  <2>1. s.calls[i].at = "record" /\ s.calls[i].at \in Waits
    BY <1>1, <1>16 DEF Record, Called, Waits
  <2>2. /\ recorded' = Append(recorded, x) /\ UNCHANGED <<dropped, submitted, finalized>>
    BY <1>6, <1>16 DEF Record
  <2>3. Settles(s.mode, x, submitted, finalized, heights)
    BY <1>4, <1>5, <1>8, <2>1 DEF Books, Paid
  <2>4. /\ x \in ShareType /\ x.conn = c /\ x \in s.accepted
        /\ x \in Booked => s.forgot
    BY <1>8, <1>11, <2>1
  <2>5. ASSUME NEW t, sess' = [sess EXCEPT ![c] = t], Grows(s, t),
               Books(c, t, dropped, Booked \cup {x}, submitted, finalized, heights)
        PROVE  LogInv'
    <3>1. x \in t.accepted /\ (x \in Booked => t.forgot)
      BY <2>4, <2>5 DEF Grows
    <3>2. Settles(t.mode, x, submitted, finalized, heights)
      BY <2>3, <2>5 DEF Grows
    <3> QED
      BY <1>1, <1>7, <2>2, <2>4, <2>5, <3>1, <3>2, OneRecords
  <2>6. CASE Go(c, Finished(s, i))
    <3>1. sess' = [sess EXCEPT ![c] = r]
      BY <1>9, <2>6 DEF Go
    <3>2. Books(c, r, dropped \cup {x}, Booked, submitted, finalized, heights)
      BY <1>11, <2>1
    <3>3. ~r.forgot => Nowhere(r, x)
      BY <1>11, <2>1
    <3>4. Books(c, r, dropped, Booked \cup {x}, submitted, finalized, heights)
      BY <3>2, <3>3, RecordedBooks
    <3> QED
      BY <1>10, <2>5, <3>1, <3>4
  <2>7. CASE Go(c, CallGoes(s, i, "touch"))
    <3>0. PICK at \in {"save", "record", "touch"} : at = "touch"
      OBVIOUS
    <3>1. PICK t : t = CallGoes(s, i, at)
      OBVIOUS
    <3>2. sess' = [sess EXCEPT ![c] = t]
      BY <2>7, <3>0, <3>1 DEF Go
    <3>3. Books(c, t, dropped, Booked \cup {x}, submitted, finalized, heights)
      <4>1. Waiting(s, i)
        BY <1>8, <2>1
      <4>2. at # "save" /\ at # "record"
        BY <3>0
      <4> QED
        BY <1>2, <1>4, <1>5, <3>0, <3>1, <4>1, <4>2, GoesBooks
    <3>4. Grows(s, t)
      BY <1>12, <2>1, <3>1
    <3> QED
      BY <2>5, <3>2, <3>3, <3>4
  <2> QED
    BY <1>1, <1>16, <2>6, <2>7 DEF Record
<1>17. CASE TouchRow(c, i) \/ DeleteRow(c, i)
  <2>1. s.calls[i].at \notin Waits
    BY <1>1, <1>17 DEF TouchRow, DeleteRow, Called, Waits
  <2>2. sess' = [sess EXCEPT ![c] = r]
    BY <1>1, <1>9, <1>17 DEF TouchRow, DeleteRow, Go
  <2>3. /\ recorded' = recorded /\ dropped' = dropped /\ submitted' = submitted
        /\ finalized' = finalized
    BY <1>17 DEF TouchRow, DeleteRow, logs
  <2>4. Books(c, r, dropped, Booked, submitted, finalized, heights)
    BY <1>11, <2>1
  <2> QED
    BY <1>1, <1>7, <1>10, <2>2, <2>3, <2>4, OneKeeps
<1> QED
  BY <1>13, <1>14, <1>15, <1>16, <1>17 DEF Continue

LEMMA EmitLogs ==
    ASSUME HoldsInv, LogInv, HeightsOK, NEW info \in {LastBlock, LastBlock + 1},
           NEW height \in Heights, NEW old \in 0..Latest, EmitTemplate(info, height, old)
    PROVE  LogInv'
<1>1. /\ \A c \in Conns : Quietly(sess[c], sess'[c])
      /\ \A n \in 1..Latest : heights'[n] = heights[n]
  <2>1. Chain(infos)
    BY DEF HoldsInv, Typed
  <2> QED
    BY <2>1, EmitHolds, EmitHeights
<1>2. /\ recorded' = recorded /\ dropped' = dropped /\ submitted' = submitted
      /\ finalized' = finalized
  BY DEF EmitTemplate, logs
<1>3. ASSUME NEW c \in Conns PROVE Grows(sess[c], sess'[c]) /\ BooksAt(c, sess[c])'
  <2>1. PICK g : g = heights'
    OBVIOUS
  <2>2. \A x \in sess[c].accepted : g[x.job.template] = heights[x.job.template]
    BY <1>1, <2>1, AcceptedWork
  <2>3. Books(c, sess[c], dropped, Booked, submitted, finalized, heights)
    BY DEF LogInv, BooksAt
  <2>4. Books(c, sess[c], dropped, Booked, submitted, finalized, g)
    BY <2>2, <2>3, MoreBooks
  <2>5. PICK t : t = sess'[c]
    OBVIOUS
  <2>6. Books(c, t, dropped, Booked, submitted, finalized, g)
    BY <1>1, <2>4, <2>5, QuietBooks
  <2>7. Booked' = Booked
    BY <1>2 DEF Booked
  <2> QED
    BY <1>1, <1>2, <2>1, <2>5, <2>6, <2>7, GrowsBy DEF BooksAt
<1> QED
  BY <1>1, <1>2, <1>3, LogsKeep

LEMMA SessionLogs ==
    ASSUME HoldsInv, LogInv, NEW c \in Conns, Settled(sess[c]), Session(c)
    PROVE  LogInv'
<1>1. ASSUME UNCHANGED heights, UNCHANGED logs, \E t : MovedQuietly(c, t)
      PROVE  LogInv'
  BY <1>1, QuietKeeps DEF MovedQuietly, MovedTo
<1>2. Same => UNCHANGED heights /\ UNCHANGED logs
  BY DEF Same, SameLogs, chain
<1>3. CASE Receive(c)
  BY <1>3, ReceiveLogs
<1>4. CASE AnyWrite(c)
  BY <1>4, WriteLogs DEF AnyWrite
<1>5. CASE AnyCall(c)
  BY <1>5, ContinueLogs DEF AnyCall
<1>6. CASE InsertRow(c)
  <2>1. UNCHANGED heights /\ UNCHANGED logs
    BY <1>6 DEF InsertRow, SamePool, chain
  <2> QED
    BY <1>1, <1>6, <2>1, InsertRowMoves
<1>7. CASE FailRow(c)
  <2>1. Same
    BY <1>7 DEF FailRow
  <2> QED
    BY <1>1, <1>2, <1>7, <2>1, FailRowMoves
<1>8. ASSUME NEW d \in Difficulties, CheckDifficulty(c, d) PROVE LogInv'
  <2>1. Same
    BY <1>8 DEF CheckDifficulty
  <2> QED
    BY <1>1, <1>2, <1>8, <2>1, CheckDifficultyMoves
<1>9. CASE LoseSocket(c) \/ OnClose(c)
  <2>1. Same
    BY <1>9 DEF LoseSocket, OnClose
  <2> QED
    BY <1>1, <1>2, <1>9, <2>1, DownMoves
<1> QED
  BY <1>3, <1>4, <1>5, <1>6, <1>7, <1>8, <1>9 DEF Session

LEMMA LogNext == HoldsInv /\ LogInv /\ HeightsOK /\ [Next]_vars => LogInv'
<1> SUFFICES ASSUME HoldsInv, LogInv, HeightsOK, [Next]_vars PROVE LogInv'
  OBVIOUS
<1>1. CASE UNCHANGED vars
  <2>1. UNCHANGED <<sess, heights, recorded, dropped, submitted, finalized>>
    BY <1>1 DEF vars, chain, logs
  <2> QED
    BY <2>1 DEF LogInv, BooksAt, Booked, CreditedOnce
<1>2. ASSUME NEW c \in Conns, NEW i \in Unwritten(c), WriteEnds(c, i) PROVE LogInv'
  BY <1>2, WriteLogs DEF Unwritten
<1>3. ASSUME NEW c \in Conns, Unwritten(c) = {}, Session(c) PROVE LogInv'
  <2>1. Settled(sess[c])
    BY <1>3 DEF Unwritten, Settled
  <2> QED
    BY <1>3, <2>1, SessionLogs
<1>4. ASSUME NEW info \in {LastBlock, LastBlock + 1}, NEW height \in Heights,
             NEW old \in 0..Latest, EmitTemplate(info, height, old)
      PROVE  LogInv'
  BY <1>4, EmitLogs
<1> QED
  BY <1>1, <1>2, <1>3, <1>4 DEF Next

LEMMA LogInit == Init => LogInv
<1> SUFFICES ASSUME Init PROVE LogInv
  OBVIOUS
<1>1. PICK mode \in [Conns -> PayoutModes] : sess = [c \in Conns |-> NewSession(mode[c])]
  BY DEF Init
<1>2. recorded = << >> /\ recorded \in Seq(ShareType) /\ DOMAIN recorded = {} /\ Booked = {}
  BY DEF Init, Booked, Range
<1>3. ASSUME NEW c \in Conns PROVE BooksAt(c, sess[c])
  <2>1. PICK s : s = NewSession(mode[c])
    OBVIOUS
  <2>2. s.accepted = {} /\ DOMAIN s.writes = {} /\ DOMAIN s.calls = {}
    <3>1. PICK m \in PayoutModes : m = mode[c]
      OBVIOUS
    <3> QED
      BY <2>1, <3>1, NewSessionOK DEF NewSession
  <2>3. (\A i : ~Replied(s, i)) /\ (\A k : ~Waiting(s, k))
    BY <2>2 DEF Replied, Waiting
  <2>4. Books(c, s, dropped, Booked, submitted, finalized, heights)
    BY <2>2, <2>3 DEF Books, Kept, Belong, Single, Nowhere, Paid
  <2> QED
    BY <1>1, <2>1, <2>4 DEF BooksAt
<1> QED
  BY <1>2, <1>3 DEF LogInv, CreditedOnce

LEMMA TheBooks == Spec => [](HoldsInv /\ LogInv)
<1>1. Init => HoldsInv /\ LogInv /\ HeightsOK
  BY HoldsInit, LogInit, HeightsInit
<1>2. HoldsInv /\ LogInv /\ HeightsOK /\ [Next]_vars => (HoldsInv /\ LogInv /\ HeightsOK)'
  BY HoldsNext, LogNext, HeightsNext
<1> QED
  BY <1>1, <1>2, PTL DEF Spec

LEMMA AllRecorded == HoldsInv /\ LogInv => AcceptedIsRecorded
<1> SUFFICES ASSUME HoldsInv, LogInv PROVE AcceptedIsRecorded
  OBVIOUS
<1>1. ASSUME NEW c \in Conns, Quiet(c)
      PROVE  sess[c].accepted \ dropped \subseteq Range(recorded)
  <2>1. PICK s : s = sess[c]
    OBVIOUS
  <2>2. DOMAIN s.writes = {} /\ DOMAIN s.calls = {}
    BY <1>1, <2>1 DEF Quiet
  <2>3. Kept(s, dropped, Booked)
    BY <2>1 DEF LogInv, BooksAt, Books
  <2> QED
    BY <2>1, <2>2, <2>3 DEF Kept, Replied, Waiting, Booked
<1>2. ASSUME NEW k \in DOMAIN recorded, NEW share, share = recorded[k],
             share.work >= NetworkDifficulty /\ ~share.job.custom
      PROVE  /\ share \in submitted
             /\ sess[share.conn].mode = "pplns" =>
                   <<share.job.template, HeightOf(share)>> \in finalized
  <2>1. share \in Booked
    BY <1>2 DEF Booked, Range
  <2>2. Settles(sess[share.conn].mode, share, submitted, finalized, heights)
    BY <2>1 DEF LogInv
  <2> QED
    BY <1>2, <2>2 DEF Settles, Own, HeightOf
<1> QED
  BY <1>1, <1>2 DEF AcceptedIsRecorded

(* No submission is credited twice: while its job is there it is remembered  *)
(* by its channel, a new block forgets the submissions and retires the jobs  *)
(* they were for, and jobs recorded late have numbers of their own           *)
(* (handleSubmitSharesStandard, handleSubmitSharesExtended,                  *)
(* miningSubmissionHashes and resetForNewBlock); only a channel that had     *)
(* more submissions than it remembers may count one again.                   *)
THEOREM SharesAreCreditedOnce == Spec => []CreditedOnce
<1>1. LogInv => CreditedOnce
  BY DEF LogInv
<1> QED
  BY <1>1, TheBooks, PTL

(* However the writes, the calls of the node and of the database end, an     *)
(* accepted share is recorded or a failure dropped it by the time nothing of *)
(* its session is under way, and one that makes a block of the pool's has    *)
(* gone to the node and, for PPLNS, to its template's snapshot before        *)
(* (submitBlock, blocksService.save, finalizeSnapshotForBlock and            *)
(* recordAcceptedShare after the reply).                                     *)
THEOREM SharesAreRecorded == Spec => []AcceptedIsRecorded
BY AllRecorded, TheBooks, PTL
=============================================================================
