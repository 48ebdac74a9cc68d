------------------------ MODULE StratumV1SessionProofs ------------------------
(***************************************************************************)
(* The four invariants of StratumV1Session hold for every set of           *)
(* connections, identities, difficulties and every bound.                  *)
(*                                                                         *)
(* The inductive invariant Inv has two parts.  SessionsInv says of one     *)
(* session at a time which handler is still to come for what is not yet    *)
(* so: as long as a subscribed and authorized miner is not served, the     *)
(* handler of one of its messages waits (Starts), after that the one that  *)
(* subscribes to the templates (Subscribes), and what it was sent last, or *)
(* will be when its row is there, is current (ServeOK); a deleted row is   *)
(* not written again unless a write was under way (RowsOK).  BooksInv      *)
(* follows an accepted share: it is remembered as long as its template is  *)
(* in the registry, and waits in exactly one handler, is recorded, or is   *)
(* dropped (Books).                                                        *)
(*                                                                         *)
(* Most steps change one session in a way the books do not notice          *)
(* (Quietly); what they leave alone is shown once, in QuietlyKeeps.        *)
(***************************************************************************)
EXTENDS StratumV1Session, SequenceTheorems, TLAPS

(* The types, of a session and of the variables.                            *)
Sockets == {"open", "ended", "destroyed"}
Ends == {"no", "started", "done"}
RowStates == {"none", "inserting", "have", "failed"}

PlainTask == [at : {"handled", "suggest", "payout", "init"}]
TouchTask == [at : {"touch"}, row : RowKeys]
ShareTask == [at : {"replied", "node", "save", "books", "record"}, share : ShareType]
TaskType == PlainTask \cup TouchTask \cup ShareTask

SessType ==
    [mode : PayoutModes, socket : Sockets, closed : BOOLEAN, destroy : Ends,
     subscribed : BOOLEAN, auth : RowKeys, pay : RowKeys, diff : Nat, suggested : Nat,
     used : BOOLEAN, inited : BOOLEAN, stream : BOOLEAN, hashes : SUBSET (JobType \X Work),
     row : [RowKeys -> RowStates], jobs : SUBSET JobType, made : Nat, tasks : Seq(TaskType),
     waits : Seq(1..MaxTemplates), told : Nat, sent : SUBSET JobType, work : Seq(JobType),
     msgs : Nat, retargets : Nat, accepted : SUBSET ShareType, late : BOOLEAN,
     racing : BOOLEAN, beats : [Identities -> Nat]]

TypeInv ==
    /\ sess \in [Conns -> SessType]
    /\ heights \in Seq(Nat) /\ Latest \in 1..MaxTemplates
    /\ blocks \subseteq 1..Latest
    /\ live \in [Conns -> SUBSET RowKeys]
    /\ recorded \in Seq([share : ShareType, to : {j.pay : j \in JobType}, credited : Nat])
    /\ dropped \subseteq ShareType /\ submitted \subseteq ShareType

-----------------------------------------------------------------------------
(* Sequences. *)

(* What is left when the i-th element of a sequence is gone.               *)
LEMMA RemoveAtProperties ==
    ASSUME NEW S, NEW seq \in Seq(S), NEW i \in DOMAIN seq
    PROVE  /\ RemoveAt(seq, i) \in Seq(S)
           /\ Len(RemoveAt(seq, i)) = Len(seq) - 1
           /\ \A j \in 1 .. Len(seq) - 1 :
                 RemoveAt(seq, i)[j] = IF j < i THEN seq[j] ELSE seq[j + 1]
<1> DEFINE n == Len(seq)
           front == SubSeq(seq, 1, i - 1)
           rest == SubSeq(seq, i + 1, n)
<1>1. /\ n \in Nat /\ i \in 1..n
      /\ \A j \in 1..n : seq[j] \in S
  BY LenProperties, ElementOfSeq
<1>2. /\ front \in Seq(S) /\ Len(front) = i - 1
      /\ \A j \in 1 .. i - 1 : front[j] = seq[j]
  <2>1. \A j \in 1 .. i - 1 : seq[j] \in S
    BY <1>1
  <2>2. /\ front \in Seq(S)
        /\ Len(front) = IF 1 <= i - 1 THEN i - 1 - 1 + 1 ELSE 0
        /\ \A j \in 1 .. i - 1 - 1 + 1 : front[j] = seq[1 + j - 1]
    BY <1>1, <2>1, SubSeqProperties
  <2> QED
    BY <1>1, <2>2
<1>3. /\ rest \in Seq(S) /\ Len(rest) = n - i
      /\ \A j \in 1 .. n - i : rest[j] = seq[i + j]
  <2>1. \A j \in i + 1 .. n : seq[j] \in S
    BY <1>1
  <2>2. /\ rest \in Seq(S)
        /\ Len(rest) = IF i + 1 <= n THEN n - (i + 1) + 1 ELSE 0
        /\ \A j \in 1 .. n - (i + 1) + 1 : rest[j] = seq[i + 1 + j - 1]
    BY <1>1, <2>1, SubSeqProperties
  <2> QED
    BY <1>1, <2>2
<1> HIDE DEF n, front, rest
<1>4. /\ front \o rest \in Seq(S) /\ Len(front \o rest) = n - 1
      /\ \A j \in 1 .. n - 1 : (front \o rest)[j] =
            IF j <= i - 1 THEN front[j] ELSE rest[j - (i - 1)]
  <2>1. /\ front \o rest \in Seq(S)
        /\ Len(front \o rest) = Len(front) + Len(rest)
        /\ \A j \in 1 .. Len(front) + Len(rest) : (front \o rest)[j] =
              IF j <= Len(front) THEN front[j] ELSE rest[j - Len(front)]
    BY <1>2, <1>3, ConcatProperties
  <2>2. Len(front) + Len(rest) = n - 1
    BY <1>1, <1>2, <1>3
  <2> QED
    BY <1>2, <2>1, <2>2
<1>5. ASSUME NEW j \in 1 .. n - 1
      PROVE  (front \o rest)[j] = IF j < i THEN seq[j] ELSE seq[j + 1]
  <2>1. CASE j < i
    BY <1>1, <1>2, <1>4, <2>1
  <2>2. CASE ~(j < i)
    <3>1. ~(j <= i - 1) /\ j - (i - 1) \in 1 .. n - i
      BY <1>1, <2>2
    <3>2. (front \o rest)[j] = seq[i + (j - (i - 1))]
      BY <1>3, <1>4, <3>1
    <3>3. i + (j - (i - 1)) = j + 1
      BY <1>1
    <3> QED
      BY <2>2, <3>2, <3>3
  <2> QED
    BY <2>1, <2>2
<1> QED
  BY <1>4, <1>5 DEF RemoveAt, front, rest, n

(* The elements that are left are those of the other places, in order.     *)
LEMMA AfterRemove ==
    ASSUME NEW S, NEW seq \in Seq(S), NEW i \in DOMAIN seq
    PROVE  /\ RemoveAt(seq, i) \in Seq(S)
           /\ \A j \in DOMAIN RemoveAt(seq, i) :
                 \E k \in DOMAIN seq : /\ k # i /\ RemoveAt(seq, i)[j] = seq[k]
                                       /\ k = IF j < i THEN j ELSE j + 1
           /\ \A k \in DOMAIN seq : k # i =>
                 \E j \in DOMAIN RemoveAt(seq, i) :
                    /\ RemoveAt(seq, i)[j] = seq[k]
                    /\ k = IF j < i THEN j ELSE j + 1
<1> DEFINE rest == RemoveAt(seq, i)
<1>1. Len(seq) \in Nat /\ DOMAIN seq = 1..Len(seq)
  BY LenProperties
<1>2. /\ rest \in Seq(S) /\ Len(rest) = Len(seq) - 1
      /\ \A j \in 1 .. Len(seq) - 1 :
            rest[j] = IF j < i THEN seq[j] ELSE seq[j + 1]
  BY RemoveAtProperties
<1>3. DOMAIN rest = 1 .. Len(seq) - 1
  BY <1>2, LenProperties
<1> HIDE DEF rest
<1>4. ASSUME NEW j \in DOMAIN rest
      PROVE  \E k \in DOMAIN seq : /\ k # i /\ rest[j] = seq[k]
                                   /\ k = IF j < i THEN j ELSE j + 1
  BY <1>1, <1>2, <1>3
<1>5. ASSUME NEW k \in DOMAIN seq, k # i
      PROVE  \E j \in DOMAIN rest : /\ rest[j] = seq[k]
                                    /\ k = IF j < i THEN j ELSE j + 1
  <2>1. CASE k < i
    BY <1>1, <1>2, <1>3, <2>1
  <2>2. CASE k > i
    <3>1. k - 1 \in DOMAIN rest /\ rest[k - 1] = seq[k - 1 + 1]
      BY <1>1, <1>2, <1>3, <2>2
    <3> QED
      BY <1>1, <2>2, <3>1
  <2> QED
    BY <1>1, <1>5, <2>1, <2>2
<1> QED
  BY <1>2, <1>4, <1>5 DEF rest

LEMMA AfterAppend ==
    ASSUME NEW S, NEW seq \in Seq(S), NEW e \in S
    PROVE  /\ Append(seq, e) \in Seq(S)
           /\ DOMAIN seq = 1..Len(seq) /\ Len(seq) \in Nat
           /\ Len(Append(seq, e)) = Len(seq) + 1
           /\ DOMAIN Append(seq, e) = 1 .. Len(seq) + 1
           /\ \A j \in DOMAIN seq : Append(seq, e)[j] = seq[j]
           /\ Append(seq, e)[Len(seq) + 1] = e
BY AppendProperties, LenProperties

-----------------------------------------------------------------------------
(* What the methods do to a session. *)

Kept(s, t) ==
    /\ t.mode = s.mode /\ t.subscribed = s.subscribed /\ t.auth = s.auth /\ t.pay = s.pay
    /\ t.diff = s.diff /\ t.suggested = s.suggested /\ t.told = s.told /\ t.late = s.late
    /\ t.inited = s.inited /\ t.accepted = s.accepted
    /\ t.tasks = s.tasks /\ t.beats = s.beats

LEMMA DestroyedEffect ==
    ASSUME NEW s \in SessType
    PROVE  /\ Destroyed(s) \in SessType
           /\ Kept(s, Destroyed(s))
           /\ Destroyed(s).row = s.row /\ Destroyed(s).socket = s.socket
           /\ Destroyed(s).jobs = s.jobs /\ Destroyed(s).made = s.made
           /\ Destroyed(s).waits = s.waits /\ Destroyed(s).sent = s.sent
           /\ Destroyed(s).work = s.work
           /\ IF s.destroy = "no"
              THEN /\ Destroyed(s).destroy = "started" /\ Destroyed(s).closed
                   /\ ~Destroyed(s).stream /\ Destroyed(s).hashes = {}
                   /\ Destroyed(s).racing = RowWrites(s)
              ELSE Destroyed(s) = s
<1>1. RowWrites(s) \in BOOLEAN
  BY DEF RowWrites
<1>2. CASE s.destroy = "no"
  <2>1. \A w \in BOOLEAN :
           LET t == [s EXCEPT !.destroy = "started", !.closed = TRUE, !.stream = FALSE,
                              !.hashes = {}, !.racing = w]
           IN  /\ t \in SessType
               /\ Kept(s, t)
               /\ t.row = s.row /\ t.socket = s.socket
               /\ t.jobs = s.jobs /\ t.made = s.made
               /\ t.waits = s.waits /\ t.sent = s.sent
               /\ t.work = s.work /\ t.destroy = "started" /\ t.closed = TRUE
               /\ t.stream = FALSE /\ t.hashes = {} /\ t.racing = w
    BY ZenonT(60) DEF SessType, Kept, Ends
  <2> QED
    BY <1>1, <1>2, <2>1 DEF Destroyed
<1>3. CASE s.destroy # "no"
  BY <1>3 DEF Destroyed, Kept
<1> QED
  BY <1>2, <1>3

LEMMA WrittenEffect ==
    ASSUME NEW s \in SessType, s.socket # "open"
    PROVE  /\ Written(s) \in SessType
           /\ Kept(s, Written(s))
           /\ Written(s).row = s.row /\ Written(s).socket = "destroyed"
           /\ Written(s).jobs = s.jobs /\ Written(s).made = s.made
           /\ Written(s).waits = s.waits /\ Written(s).sent = s.sent
           /\ Written(s).work = s.work
           /\ IF s.destroy = "no"
              THEN /\ Written(s).destroy = "started" /\ Written(s).closed
                   /\ ~Written(s).stream /\ Written(s).hashes = {}
                   /\ Written(s).racing = RowWrites(s)
              ELSE /\ Written(s).destroy = s.destroy /\ Written(s).closed = s.closed
                   /\ Written(s).stream = s.stream /\ Written(s).hashes = s.hashes
                   /\ Written(s).racing = s.racing
<1> DEFINE t == Destroyed(s)
<1>1. t \in SessType
  BY DestroyedEffect
<1>2. Written(s) = [t EXCEPT !.socket = "destroyed"]
  BY DEF Written
<1> HIDE DEF t
<1>3. /\ Written(s) \in SessType /\ Kept(t, Written(s))
      /\ Written(s).row = t.row /\ Written(s).socket = "destroyed"
      /\ Written(s).jobs = t.jobs /\ Written(s).made = t.made
      /\ Written(s).waits = t.waits /\ Written(s).sent = t.sent
      /\ Written(s).work = t.work /\ Written(s).destroy = t.destroy
      /\ Written(s).closed = t.closed /\ Written(s).stream = t.stream
      /\ Written(s).hashes = t.hashes /\ Written(s).racing = t.racing
  BY ZenonT(60), <1>1, <1>2 DEF SessType, Sockets, Kept
<1> QED
  BY <1>3, DestroyedEffect DEF t, Kept

(* Gone on, and destroyed if that has begun.                               *)
Follows(s, t) ==
    /\ s.socket # "open" => t.socket # "open"
    /\ s.socket = "destroyed" => t.socket = "destroyed"
    /\ s.closed => t.closed
    /\ t.hashes = s.hashes \/ t.closed
    /\ \/ t.destroy = s.destroy /\ t.stream = s.stream /\ t.racing = s.racing
       \/ /\ s.destroy = "no" /\ t.destroy = "started" /\ t.socket = "destroyed"
          /\ ~t.stream /\ t.closed /\ t.racing = RowWrites(t)

Sends(c, s, t, templates) ==
    /\ Kept(s, t) /\ Follows(s, t)
    /\ s.made <= t.made
    /\ \A j \in t.jobs \ s.jobs :
          j.conn = c /\ j.n <= t.made /\ \E k \in DOMAIN templates : j.template = templates[k]
    /\ s.row[Own] = "have" =>
          /\ t.row = s.row /\ t.waits = s.waits
          /\ s.socket = "open" =>
                /\ t.socket = "open" /\ t.work # << >> /\ t.destroy = s.destroy
                /\ Last(t.work).template = templates[Len(templates)]
                /\ Last(t.work).pay = PaysTo(s.mode, s.pay)
    /\ s.row[Own] = "failed" =>
          t.row = s.row /\ t.waits = s.waits /\ t.socket # "open" /\ t.destroy = s.destroy
    /\ s.row[Own] \notin {"have", "failed"} =>
          /\ t.row = [s.row EXCEPT ![Own] = "inserting"]
          /\ t.waits = s.waits \o templates
          /\ t.socket = s.socket /\ t.work = s.work /\ t.destroy = s.destroy

LEMMA MakeJobsEffect ==
    ASSUME NEW c \in Conns, NEW s \in SessType, s.pay \in Identities, s.row[Own] = "have",
           NEW templates \in Seq(1..MaxTemplates), templates # << >>
    PROVE  MakeJobs(c, s, templates) \in SessType /\ Sends(c, s, MakeJobs(c, s, templates), templates)
<1> DEFINE n == Len(templates)
           Job(k) == [conn |-> c, n |-> s.made + k, template |-> templates[k],
                      pay |-> PaysTo(s.mode, s.pay)]
           made == {Job(k) : k \in DOMAIN templates}
           t == [s EXCEPT !.jobs = @ \cup made, !.made = @ + n]
           u == [t EXCEPT !.sent = @ \cup made, !.work = <<Job(n)>>]
<1>1. n \in Nat /\ n > 0 /\ DOMAIN templates = 1..n /\ \A k \in 1..n : templates[k] \in 1..MaxTemplates
  <2>1. n \in Nat /\ DOMAIN templates = 1..n /\ \A k \in 1..n : templates[k] \in 1..MaxTemplates
    BY LenProperties, ElementOfSeq
  <2>2. n # 0
    BY EmptySeq
  <2> QED
    BY <2>1, <2>2
<1>2. s.made \in Nat /\ s.mode \in PayoutModes /\ s.jobs \subseteq JobType /\ s.sent \subseteq JobType
  BY DEF SessType
<1>3. \A k \in DOMAIN templates : /\ Job(k) \in JobType /\ Job(k).conn = c
                                  /\ Job(k).n <= s.made + n /\ Job(k).template = templates[k]
                                  /\ Job(k).pay = PaysTo(s.mode, s.pay)
  BY <1>1, <1>2 DEF JobType
<1>4. /\ made \subseteq JobType /\ Job(n) \in JobType
      /\ Job(n).template = templates[n] /\ Job(n).pay = PaysTo(s.mode, s.pay)
      /\ \A j \in made : j.conn = c /\ j.n <= s.made + n /\ \E k \in DOMAIN templates : j.template = templates[k]
  BY <1>1, <1>3
<1>5. MakeJobs(c, s, templates) = IF s.socket = "open" THEN u ELSE Written(t)
  BY DEF MakeJobs
<1> HIDE DEF Job, made
<1>6. /\ t \in SessType /\ Kept(s, t) /\ t.row = s.row /\ t.socket = s.socket
      /\ t.jobs = s.jobs \cup made /\ t.made = s.made + n /\ t.waits = s.waits
      /\ t.destroy = s.destroy /\ t.closed = s.closed /\ t.stream = s.stream
      /\ t.hashes = s.hashes /\ t.racing = s.racing /\ t.sent = s.sent
  <2>1. s.jobs \cup made \in SUBSET JobType /\ s.made + n \in Nat
    BY <1>1, <1>2, <1>4
  <2> QED
    BY ZenonT(60), <2>1 DEF SessType, Kept
<1> HIDE DEF t
<1>7. CASE s.socket = "open"
  <2>1. t.sent \cup made \in SUBSET JobType /\ <<Job(n)>> \in Seq(JobType)
    BY <1>2, <1>4, <1>6
  <2>2. /\ u \in SessType /\ Kept(t, u) /\ u.row = t.row /\ u.socket = t.socket
        /\ u.jobs = t.jobs /\ u.made = t.made /\ u.waits = t.waits
        /\ u.destroy = t.destroy /\ u.closed = t.closed /\ u.stream = t.stream
        /\ u.hashes = t.hashes /\ u.racing = t.racing /\ u.work = <<Job(n)>>
    BY ZenonT(60), <1>6, <2>1 DEF SessType, Kept
  <2>3. u.work # << >> /\ Last(u.work) = Job(n)
    BY <2>2 DEF Last
  <2> HIDE DEF u
  <2>4. Kept(s, u) /\ Follows(s, u)
    BY <1>6, <2>2 DEF Kept, Follows
  <2>5. MakeJobs(c, s, templates) = u
    BY <1>5, <1>7 DEF u
  <2>6. s.made <= u.made /\ u.row = s.row /\ u.waits = s.waits /\ u.socket = "open"
        /\ u.destroy = s.destroy /\ u.jobs \ s.jobs \subseteq made /\ u.made = s.made + n
    BY <1>1, <1>2, <1>6, <1>7, <2>2
  <2> QED
    BY <1>4, <2>2, <2>3, <2>4, <2>5, <2>6 DEF Sends
<1>8. CASE s.socket # "open"
  <2> DEFINE w == Written(t)
  <2>1. /\ w \in SessType
        /\ Kept(t, w)
        /\ w.row = t.row /\ w.socket = "destroyed"
        /\ w.jobs = t.jobs /\ w.made = t.made /\ w.waits = t.waits
        /\ IF t.destroy = "no"
           THEN /\ w.destroy = "started" /\ w.closed
                /\ ~w.stream /\ w.hashes = {} /\ w.racing = RowWrites(t)
           ELSE /\ w.destroy = t.destroy /\ w.closed = t.closed
                /\ w.stream = t.stream /\ w.hashes = t.hashes /\ w.racing = t.racing
    BY <1>6, <1>8, WrittenEffect
  <2> HIDE DEF w
  <2>2. RowWrites(t) = RowWrites(w)
    BY <2>1 DEF RowWrites, Kept
  <2>3. Kept(s, w) /\ Follows(s, w)
    BY <1>6, <2>1, <2>2 DEF Kept, Follows
  <2>4. MakeJobs(c, s, templates) = w
    BY <1>5, <1>8 DEF w
  <2>5. s.made <= w.made /\ w.row = s.row /\ w.waits = s.waits
        /\ w.jobs \ s.jobs \subseteq made /\ w.made = s.made + n
    BY <1>1, <1>2, <1>6, <2>1
  <2> QED
    BY <1>4, <1>8, <2>1, <2>3, <2>4, <2>5 DEF Sends
<1> QED
  BY <1>7, <1>8

LEMMA EndedEffect ==
    ASSUME NEW s \in SessType
    PROVE  /\ Ended(s) \in SessType
           /\ Kept(s, Ended(s)) /\ Follows(s, Ended(s))
           /\ Ended(s).row = s.row /\ Ended(s).waits = s.waits
           /\ Ended(s).jobs = s.jobs /\ Ended(s).made = s.made /\ Ended(s).destroy = s.destroy
           /\ Ended(s).stream = s.stream /\ Ended(s).racing = s.racing
           /\ Ended(s).hashes = s.hashes /\ Ended(s).closed = s.closed
           /\ Ended(s).socket # "open"
<1>1. CASE s.socket = "open"
  BY ZenonT(60), <1>1 DEF Ended, SessType, Kept, Follows, Sockets
<1>2. CASE s.socket # "open"
  BY <1>2 DEF Ended, Kept, Follows
<1> QED
  BY <1>1, <1>2

LEMMA SendJobsEffect ==
    ASSUME NEW c \in Conns, NEW s \in SessType, s.pay \in Identities,
           NEW templates \in Seq(1..MaxTemplates), templates # << >>
    PROVE  SendJobs(c, s, templates) \in SessType /\ Sends(c, s, SendJobs(c, s, templates), templates)
<1>1. CASE s.row[Own] = "have"
  BY <1>1, MakeJobsEffect DEF SendJobs
<1>2. CASE s.row[Own] = "failed"
  <2> DEFINE t == Ended(s)
  <2>1. SendJobs(c, s, templates) = t
    BY <1>2 DEF SendJobs
  <2>2. /\ t \in SessType /\ Kept(s, t) /\ Follows(s, t)
        /\ t.row = s.row /\ t.waits = s.waits /\ t.jobs = s.jobs /\ t.made = s.made
        /\ t.destroy = s.destroy /\ t.socket # "open"
    BY EndedEffect
  <2>3. s.made <= s.made
    BY DEF SessType
  <2> HIDE DEF t
  <2> QED
    BY <1>2, <2>1, <2>2, <2>3 DEF Sends
<1>3. CASE s.row[Own] \notin {"have", "failed"}
  <2>1. Own \in RowKeys /\ s.row[Own] \in {"none", "inserting"}
    BY <1>3 DEF SessType, RowKeys, RowStates
  <2> DEFINE row == [s.row EXCEPT ![Own] = "inserting"]
             t == [s EXCEPT !.row = row, !.waits = @ \o templates]
  <2>2. SendJobs(c, s, templates) = t
    <3>1. CASE s.row[Own] = "none"
      BY <1>3, <3>1 DEF SendJobs, EnsureRow, SessType
    <3>2. CASE s.row[Own] = "inserting"
      <4>1. row = s.row
        BY <2>1, <3>2 DEF SessType
      <4> HIDE DEF row
      <4> QED
        BY <1>3, <3>2, <4>1 DEF SendJobs, EnsureRow, SessType
    <3> QED
      BY <2>1, <3>1, <3>2
  <2>3. row \in [RowKeys -> RowStates] /\ s.waits \o templates \in Seq(1..MaxTemplates)
    BY <2>1, ConcatProperties DEF SessType, RowStates
  <2> HIDE DEF row
  <2>4. /\ t \in SessType /\ Kept(s, t) /\ t.row = row /\ t.socket = s.socket
        /\ t.jobs = s.jobs /\ t.made = s.made /\ t.waits = s.waits \o templates
        /\ t.destroy = s.destroy /\ t.closed = s.closed /\ t.stream = s.stream
        /\ t.hashes = s.hashes /\ t.racing = s.racing /\ t.work = s.work
    BY ZenonT(60), <2>3 DEF SessType, Kept
  <2>5. Follows(s, t) /\ s.made <= t.made
    BY <2>4 DEF Follows, SessType
  <2> HIDE DEF t
  <2> QED
    BY <1>3, <2>2, <2>4, <2>5 DEF Sends, row
<1> QED
  BY <1>1, <1>2, <1>3

-----------------------------------------------------------------------------
(* What waits. *)

ButTasks(s, t) ==
    /\ t.mode = s.mode /\ t.socket = s.socket /\ t.closed = s.closed /\ t.destroy = s.destroy
    /\ t.subscribed = s.subscribed /\ t.auth = s.auth /\ t.pay = s.pay /\ t.diff = s.diff
    /\ t.suggested = s.suggested /\ t.inited = s.inited /\ t.stream = s.stream
    /\ t.hashes = s.hashes /\ t.row = s.row /\ t.jobs = s.jobs /\ t.made = s.made
    /\ t.waits = s.waits /\ t.told = s.told /\ t.work = s.work
    /\ t.accepted = s.accepted /\ t.late = s.late /\ t.racing = s.racing
    /\ t.beats = s.beats

LEMMA WaitEffect ==
    ASSUME NEW s \in SessType, NEW task \in TaskType
    PROVE  /\ Wait(s, task) \in SessType /\ ButTasks(s, Wait(s, task))
           /\ Wait(s, task).tasks = Append(s.tasks, task)
<1>1. Append(s.tasks, task) \in Seq(TaskType)
  BY AppendProperties DEF SessType
<1>2. Wait(s, task) = [s EXCEPT !.tasks = Append(s.tasks, task)]
  BY DEF Wait, SessType
<1> QED
  BY ZenonT(60), <1>1, <1>2 DEF SessType, ButTasks

LEMMA DoneEffect ==
    ASSUME NEW s \in SessType, NEW i \in DOMAIN s.tasks
    PROVE  /\ Done(s, i) \in SessType /\ ButTasks(s, Done(s, i))
           /\ Done(s, i).tasks = RemoveAt(s.tasks, i)
<1>1. RemoveAt(s.tasks, i) \in Seq(TaskType)
  BY RemoveAtProperties DEF SessType
<1>2. Done(s, i) = [s EXCEPT !.tasks = RemoveAt(s.tasks, i)]
  BY DEF Done, SessType
<1> QED
  BY ZenonT(60), <1>1, <1>2 DEF SessType, ButTasks

LEMMA TaskTyped ==
    ASSUME NEW s \in SessType, NEW i \in DOMAIN s.tasks
    PROVE  /\ s.tasks[i] \in TaskType
           /\ s.tasks[i].at \in {"handled", "suggest", "payout", "init"} => s.tasks[i] \in PlainTask
           /\ s.tasks[i].at = "touch" => s.tasks[i] \in TouchTask
           /\ s.tasks[i].at \in {"replied", "node", "save", "books", "record"} => s.tasks[i] \in ShareTask
<1>1. s.tasks[i] \in TaskType
  BY ElementOfSeq DEF SessType
<1> QED
  BY <1>1 DEF TaskType, PlainTask, TouchTask, ShareTask

(* The shares of the handlers that wait in a and in b are the same, and no   *)
(* share is in b twice if none is in a.                                     *)
Single(a) ==
    \A i, j \in DOMAIN a : a[i] \in ShareTask /\ a[j] \in ShareTask /\ a[i].share = a[j].share => i = j

SameShares(a, b) ==
    /\ \A i \in DOMAIN a : a[i] \in ShareTask => \E j \in DOMAIN b : b[j] = a[i]
    /\ \A j \in DOMAIN b : b[j] \in ShareTask => \E i \in DOMAIN a : a[i] = b[j]
    /\ Single(a) => Single(b)

LEMMA SharesAfterAppend ==
    ASSUME NEW s \in SessType, NEW task \in PlainTask \cup TouchTask
    PROVE  SameShares(s.tasks, Append(s.tasks, task))
<1> DEFINE a == s.tasks
           b == Append(a, task)
<1>1. a \in Seq(TaskType) /\ task \in TaskType
  BY DEF SessType, TaskType
<1>2. task \notin ShareTask
  BY DEF ShareTask, PlainTask, TouchTask
<1>3. /\ DOMAIN a = 1..Len(a) /\ Len(a) \in Nat /\ DOMAIN b = 1 .. Len(a) + 1
      /\ \A j \in DOMAIN a : b[j] = a[j]
      /\ b[Len(a) + 1] = task
  BY <1>1, AfterAppend
<1> HIDE DEF a, b
<1>4. \A j \in DOMAIN b : b[j] \in ShareTask => j \in DOMAIN a
  BY <1>2, <1>3
<1>5. \A i \in DOMAIN a : i \in DOMAIN b
  BY <1>3
<1> QED
  BY <1>3, <1>4, <1>5 DEF SameShares, Single, a, b

LEMMA SharesAfterRemove ==
    ASSUME NEW s \in SessType, NEW i \in DOMAIN s.tasks, s.tasks[i] \notin ShareTask
    PROVE  SameShares(s.tasks, RemoveAt(s.tasks, i))
<1> DEFINE a == s.tasks
           b == RemoveAt(a, i)
<1>1. a \in Seq(TaskType)
  BY DEF SessType
<1>2. /\ \A j \in DOMAIN b :
            \E k \in DOMAIN a : k # i /\ b[j] = a[k] /\ k = IF j < i THEN j ELSE j + 1
      /\ \A k \in DOMAIN a : k # i =>
            \E j \in DOMAIN b : b[j] = a[k] /\ k = IF j < i THEN j ELSE j + 1
      /\ DOMAIN b \subseteq Nat /\ i \in Nat
  <2>1. i \in DOMAIN a
    OBVIOUS
  <2>2. b \in Seq(TaskType)
    BY <1>1, <2>1, AfterRemove
  <2>3. DOMAIN b = 1..Len(b) /\ Len(b) \in Nat /\ DOMAIN a = 1..Len(a) /\ Len(a) \in Nat
    BY <1>1, <2>2, LenProperties
  <2> HIDE DEF a
  <2>4. /\ \A j \in DOMAIN b :
              \E k \in DOMAIN a : k # i /\ b[j] = a[k] /\ k = IF j < i THEN j ELSE j + 1
        /\ \A k \in DOMAIN a : k # i =>
              \E j \in DOMAIN b : b[j] = a[k] /\ k = IF j < i THEN j ELSE j + 1
    BY <1>1, <2>1, AfterRemove
  <2> HIDE DEF b
  <2> QED
    BY <2>1, <2>3, <2>4
<1> HIDE DEF a, b
<1>3. ASSUME Single(a), NEW j \in DOMAIN b, NEW k \in DOMAIN b,
             b[j] \in ShareTask, b[k] \in ShareTask, b[j].share = b[k].share
      PROVE  j = k
  <2>1. PICK m \in DOMAIN a : b[j] = a[m] /\ m = IF j < i THEN j ELSE j + 1
    BY <1>2
  <2>2. PICK n \in DOMAIN a : b[k] = a[n] /\ n = IF k < i THEN k ELSE k + 1
    BY <1>2
  <2>3. m = n
    BY <1>3, <2>1, <2>2 DEF Single
  <2> QED
    BY <1>2, <2>1, <2>2, <2>3
<1>4. \A k \in DOMAIN a : a[k] \in ShareTask => \E j \in DOMAIN b : b[j] = a[k]
  BY <1>2 DEF a
<1> QED
  BY <1>2, <1>3, <1>4 DEF SameShares, Single, a, b

LEMMA SharesTrans ==
    ASSUME NEW x, NEW y, NEW z, SameShares(x, y), SameShares(y, z)
    PROVE  SameShares(x, z)
<1>1. ASSUME NEW i \in DOMAIN x, x[i] \in ShareTask PROVE \E k \in DOMAIN z : z[k] = x[i]
  BY <1>1 DEF SameShares
<1>2. ASSUME NEW k \in DOMAIN z, z[k] \in ShareTask PROVE \E i \in DOMAIN x : x[i] = z[k]
  BY <1>2 DEF SameShares
<1> QED
  BY <1>1, <1>2 DEF SameShares

(* Handlers of kind at wait in s. *)
Waiting(s, kinds) == \E i \in DOMAIN s.tasks : s.tasks[i].at \in kinds

LEMMA WaitingAfterAppend ==
    ASSUME NEW s \in SessType, NEW t \in SessType, NEW task \in TaskType, NEW kinds,
           t.tasks = Append(s.tasks, task)
    PROVE  Waiting(t, kinds) <=> Waiting(s, kinds) \/ task.at \in kinds
<1>1. /\ DOMAIN s.tasks = 1..Len(s.tasks) /\ Len(s.tasks) \in Nat
      /\ DOMAIN t.tasks = 1 .. Len(s.tasks) + 1
      /\ \A j \in DOMAIN s.tasks : t.tasks[j] = s.tasks[j]
      /\ t.tasks[Len(s.tasks) + 1] = task
  <2>1. s.tasks \in Seq(TaskType)
    BY DEF SessType
  <2> QED
    BY <2>1, AfterAppend
<1>2. DOMAIN t.tasks = DOMAIN s.tasks \cup {Len(s.tasks) + 1}
  BY <1>1
<1> QED
  BY <1>1, <1>2 DEF Waiting

LEMMA WaitingAfterRemove ==
    ASSUME NEW s \in SessType, NEW t \in SessType, NEW i \in DOMAIN s.tasks, NEW kinds,
           t.tasks = RemoveAt(s.tasks, i)
    PROVE  /\ Waiting(t, kinds) => Waiting(s, kinds)
           /\ s.tasks[i].at \notin kinds => (Waiting(t, kinds) <=> Waiting(s, kinds))
<1>1. s.tasks \in Seq(TaskType)
  BY DEF SessType
<1>2. /\ \A j \in DOMAIN t.tasks : \E k \in DOMAIN s.tasks : t.tasks[j] = s.tasks[k]
      /\ \A k \in DOMAIN s.tasks : k # i => \E j \in DOMAIN t.tasks : t.tasks[j] = s.tasks[k]
  BY <1>1, AfterRemove
<1> QED
  BY <1>2 DEF Waiting

-----------------------------------------------------------------------------
(* What holds of a session between its steps, latest being the last template. *)

Plain == {"handled", "suggest", "payout"}

HandOK(s) ==
    /\ s.auth # NoIdentity => s.pay \in Identities
    /\ s.inited => s.auth # NoIdentity
    /\ s.stream \/ s.row[Own] # "none" \/ Waiting(s, {"init"}) => s.inited
    /\ s.row[Own] = "inserting" <=> s.waits # << >>
    /\ s.destroy # "no" => s.socket = "destroyed" /\ ~s.stream /\ s.closed

(* The handler that will begin to serve the miner is there. *)
Starts(s) ==
    s.subscribed /\ s.auth # NoIdentity /\ ~s.inited /\ s.socket = "open" => Waiting(s, Plain)

Subscribes(s) ==
    s.inited /\ s.socket = "open" => s.stream \/ Waiting(s, {"init"})

(* The work the miner has or will have when the row is there, is current.   *)
Served(s, latest) ==
    \/ s.row[Own] = "inserting" /\ Last(s.waits) = latest
    \/ /\ s.row[Own] = "have" /\ s.work # << >> /\ Last(s.work).template = latest
       /\ s.late \/ Last(s.work).pay = PaysTo(s.mode, s.pay) \/ Waiting(s, {"payout"})

ServeOK(s, latest) == s.stream /\ s.socket = "open" => Served(s, latest)

DiffOK(s) ==
    /\ s.diff >= s.suggested
    /\ s.suggested # 0 => s.told = s.diff
    /\ s.inited /\ s.socket = "open" /\ ~s.late => s.told = s.diff

(* Jobs and shares are the session's own, of templates there have been.     *)
OwnJobs(c, s, latest) ==
    /\ \A j \in s.jobs : j.conn = c /\ j.n <= s.made /\ j.template <= latest
    /\ \A i \in DOMAIN s.waits : s.waits[i] <= latest
    /\ \A share \in s.accepted : share.conn = c /\ share.job.template <= latest

SessInv(c, s, latest) ==
    /\ HandOK(s) /\ Starts(s) /\ Subscribes(s) /\ ServeOK(s, latest) /\ DiffOK(s)
    /\ OwnJobs(c, s, latest)

(* The client rows, and who may still write them after destroy().           *)
RowsOK(s, rows) ==
    /\ rows \subseteq {k \in RowKeys : s.row[k] = "have"}
    /\ \A i \in DOMAIN s.tasks : s.tasks[i] \in TouchTask => s.row[s.tasks[i].row] = "have"
    /\ s.destroy # "no" /\ ~s.racing => ~RowWrites(s)
    /\ s.destroy = "done" /\ ~s.racing =>
          rows = {} /\ \A k \in Identities : s.row[k] # "inserting"

(* What the books see of a session stays the same, but what it remembers of  *)
(* its submissions may go with its end.                                     *)
SameBooks(s, t) ==
    /\ t.mode = s.mode /\ t.accepted = s.accepted
    /\ s.hashes \subseteq t.hashes \/ t.closed
    /\ s.closed => t.closed
    /\ SameShares(s.tasks, t.tasks)

LEMMA SharesSame ==
    ASSUME NEW a, NEW b, a = b
    PROVE  SameShares(a, b)
BY DEF SameShares, Single

LEMMA AppendLast ==
    ASSUME NEW a \in Seq(1..MaxTemplates), NEW e \in 1..MaxTemplates
    PROVE  /\ a \o <<e>> \in Seq(1..MaxTemplates)
           /\ a \o <<e>> # << >> /\ Last(a \o <<e>>) = e
           /\ \A i \in DOMAIN (a \o <<e>>) : (a \o <<e>>)[i] \in {e} \cup {a[k] : k \in DOMAIN a}
<1>1. <<e>> \in Seq(1..MaxTemplates) /\ Len(<<e>>) = 1 /\ <<e>>[1] = e
  OBVIOUS
<1> DEFINE f == <<e>>
           b == a \o f
<1> HIDE DEF f
<1>2. f \in Seq(1..MaxTemplates) /\ Len(f) = 1 /\ f[1] = e
  BY <1>1 DEF f
<1>3. /\ b \in Seq(1..MaxTemplates) /\ Len(b) = Len(a) + 1
      /\ \A i \in 1 .. Len(a) + 1 : b[i] = IF i <= Len(a) THEN a[i] ELSE f[i - Len(a)]
  BY <1>2, ConcatProperties
<1>4. Len(a) \in Nat /\ DOMAIN a = 1..Len(a) /\ DOMAIN b = 1..Len(b)
  BY <1>3, LenProperties
<1> HIDE DEF b
<1>5. b[Len(a) + 1] = e
  BY <1>2, <1>3, <1>4
<1>6. b # << >> /\ Last(b) = e
  BY <1>3, <1>4, <1>5, EmptySeq DEF Last
<1>7. ASSUME NEW i \in DOMAIN b PROVE b[i] \in {e} \cup {a[k] : k \in DOMAIN a}
  <2>1. CASE i <= Len(a)
    BY <1>3, <1>4, <2>1
  <2>2. CASE ~(i <= Len(a))
    BY <1>3, <1>4, <1>5, <2>2
  <2> QED
    BY <2>1, <2>2
<1> QED
  BY <1>3, <1>6, <1>7 DEF b, f

(* The last template is sent to a session that subscribes or has: it is     *)
(* served then.                                                             *)
LEMMA SendServes ==
    ASSUME NEW c \in Conns, NEW s \in SessType, NEW old \in Nat, NEW latest \in 1..MaxTemplates,
           old <= latest, HandOK(s), s.inited, Starts(s), DiffOK(s), OwnJobs(c, s, old),
           s.socket = "open" => s.stream \/ Waiting(s, {"init"})
    PROVE  LET t == SendJob(c, s, latest)
           IN  t \in SessType /\ SessInv(c, t, latest) /\ SameBooks(s, t) /\ t.inited
<1> DEFINE t == SendJob(c, s, latest)
           templates == <<latest>>
<1>1. s.pay \in Identities
  BY DEF HandOK
<1>2. templates \in Seq(1..MaxTemplates) /\ templates # << >>
      /\ Len(templates) = 1 /\ DOMAIN templates = {1} /\ templates[1] = latest
  OBVIOUS
<1>3. t \in SessType /\ Sends(c, s, t, templates)
  <2> HIDE DEF templates
  <2>1. SendJobs(c, s, templates) \in SessType /\ Sends(c, s, SendJobs(c, s, templates), templates)
    BY <1>1, <1>2, SendJobsEffect
  <2> QED
    BY <2>1 DEF SendJob, templates
<1> HIDE DEF t
<1>4. s.waits \in Seq(1..MaxTemplates) /\ s.made \in Nat /\ t.made \in Nat
      /\ s.row \in [RowKeys -> RowStates] /\ Own \in RowKeys
      /\ t.row \in [RowKeys -> RowStates] /\ s.jobs \subseteq JobType
      /\ t.jobs \subseteq JobType
  BY <1>3 DEF SessType, RowKeys
<1>5. /\ s.row[Own] \in {"have", "failed"} => t.row = s.row /\ t.waits = s.waits
      /\ s.row[Own] \notin {"have", "failed"} =>
            /\ t.row[Own] = "inserting"
            /\ t.waits = s.waits \o <<latest>> /\ t.waits # << >> /\ Last(t.waits) = latest
            /\ \A i \in DOMAIN t.waits : t.waits[i] \in {latest} \cup {s.waits[k] : k \in DOMAIN s.waits}
  <2>1. /\ s.row[Own] \in {"have", "failed"} => t.row = s.row /\ t.waits = s.waits
        /\ s.row[Own] \notin {"have", "failed"} =>
              t.row = [s.row EXCEPT ![Own] = "inserting"] /\ t.waits = s.waits \o <<latest>>
    BY <1>3 DEF Sends
  <2> QED
    BY <1>4, <2>1, AppendLast
<1>6. t.tasks = s.tasks /\ t.beats = s.beats /\ \A kinds : Waiting(t, kinds) = Waiting(s, kinds)
  BY <1>3 DEF Sends, Kept, Waiting
<1>7. HandOK(t)
  BY <1>3, <1>4, <1>5, <1>6 DEF HandOK, Sends, Kept, Follows
<1>8. Starts(t) /\ Subscribes(t)
  BY <1>3, <1>6 DEF Starts, Subscribes, Sends, Kept, Follows, HandOK
<1>9. ServeOK(t, latest)
  <2>1. CASE s.row[Own] = "have"
    BY <1>2, <1>3, <2>1 DEF ServeOK, Served, Sends, Kept, Follows
  <2>2. CASE s.row[Own] = "failed"
    BY <1>3, <2>2 DEF ServeOK, Sends
  <2>3. CASE s.row[Own] \notin {"have", "failed"}
    BY <1>5, <2>3 DEF ServeOK, Served
  <2> QED
    BY <2>1, <2>2, <2>3
<1>10. DiffOK(t)
  BY <1>3 DEF DiffOK, Sends, Kept, Follows
<1>11. OwnJobs(c, t, latest)
  <2>1. ASSUME NEW j \in t.jobs PROVE j.conn = c /\ j.n <= t.made /\ j.template <= latest
    <3>1. CASE j \in s.jobs
      BY <1>3, <1>4, <3>1 DEF OwnJobs, Sends, JobType
    <3>2. CASE j \notin s.jobs
      BY <1>2, <1>3, <3>2 DEF Sends
    <3> QED
      BY <3>1, <3>2
  <2>2. ASSUME NEW i \in DOMAIN t.waits PROVE t.waits[i] <= latest
    <3>1. \A k \in DOMAIN s.waits : s.waits[k] \in 1..MaxTemplates
      BY <1>4, ElementOfSeq, LenProperties
    <3>2. \A k \in DOMAIN s.waits : s.waits[k] <= old
      BY DEF OwnJobs
    <3>3. \A k \in DOMAIN s.waits : s.waits[k] <= latest
      BY <3>1, <3>2
    <3> QED
      BY <1>5, <3>3
  <2>3. ASSUME NEW share \in t.accepted PROVE share.conn = c /\ share.job.template <= latest
    <3>1. share \in s.accepted
      BY <1>3 DEF Sends, Kept
    <3>2. share.job.template \in Nat
      BY <3>1 DEF SessType, ShareType, JobType
    <3> QED
      BY <3>1, <3>2 DEF OwnJobs
  <2> QED
    BY <2>1, <2>2, <2>3 DEF OwnJobs
<1>12. SameBooks(s, t)
  BY <1>3, <1>6, SharesSame DEF SameBooks, Sends, Kept, Follows
<1>13. t.inited
  BY <1>3 DEF Sends, Kept
<1> QED
  BY <1>3, <1>7, <1>8, <1>9, <1>10, <1>11, <1>12, <1>13 DEF SessInv, t

LEMMA SendRows ==
    ASSUME NEW c, NEW s \in SessType, NEW t \in SessType, NEW templates, Sends(c, s, t, templates),
           NEW rows, RowsOK(s, rows), s.row[Own] \in {"have", "failed"} \/ s.destroy = "no"
    PROVE  RowsOK(t, rows)
<1>1. t.tasks = s.tasks /\ t.beats = s.beats /\ Own \in RowKeys /\ s.row \in [RowKeys -> RowStates]
  BY DEF Sends, Kept, SessType, RowKeys
<1>2. CASE s.row[Own] \in {"have", "failed"}
  <2>1. t.row = s.row
    BY <1>2 DEF Sends
  <2>2. RowWrites(t) = RowWrites(s)
    BY <1>1, <2>1 DEF RowWrites
  <2> QED
    BY <1>1, <2>1, <2>2 DEF RowsOK, Sends, Follows
<1>3. CASE s.row[Own] \notin {"have", "failed"} /\ s.destroy = "no"
  <2>1. t.row = [s.row EXCEPT ![Own] = "inserting"] /\ t.destroy = "no"
    BY <1>3 DEF Sends
  <2>2. \A k \in RowKeys : s.row[k] = "have" => t.row[k] = "have"
    BY <1>1, <1>3, <2>1
  <2>3. \A i \in DOMAIN s.tasks : s.tasks[i] \in TouchTask => s.tasks[i].row \in RowKeys
    BY DEF TouchTask
  <2> QED
    BY <1>1, <2>1, <2>2, <2>3 DEF RowsOK
<1> QED
  BY <1>2, <1>3

LEMMA SendRowsOK ==
    ASSUME NEW c \in Conns, NEW s \in SessType, NEW latest \in 1..MaxTemplates, s.pay \in Identities,
           NEW rows, RowsOK(s, rows), s.destroy = "no"
    PROVE  RowsOK(SendJob(c, s, latest), rows)
<1> DEFINE templates == <<latest>>
<1>1. templates \in Seq(1..MaxTemplates) /\ templates # << >>
  OBVIOUS
<1> HIDE DEF templates
<1>2. SendJobs(c, s, templates) \in SessType /\ Sends(c, s, SendJobs(c, s, templates), templates)
  BY <1>1, SendJobsEffect
<1>3. RowsOK(SendJobs(c, s, templates), rows)
  BY <1>2, SendRows
<1> QED
  BY <1>3 DEF SendJob, templates

LEMMA RowsAfterAppend ==
    ASSUME NEW s \in SessType, NEW t \in SessType, NEW task \in PlainTask \cup TouchTask,
           NEW rows, RowsOK(s, rows), t.tasks = Append(s.tasks, task),
           s.destroy = "no", t.destroy = "no", t.row = s.row,
           task \in TouchTask => s.row[task.row] = "have"
    PROVE  RowsOK(t, rows)
<1>1. s.tasks \in Seq(TaskType) /\ task \in TaskType
  BY DEF SessType, TaskType
<1>2. \A j \in DOMAIN t.tasks : t.tasks[j] = task \/ \E i \in DOMAIN s.tasks : t.tasks[j] = s.tasks[i]
  BY <1>1, AfterAppend
<1>3. ASSUME NEW j \in DOMAIN t.tasks, t.tasks[j] \in TouchTask PROVE t.row[t.tasks[j].row] = "have"
  BY <1>2, <1>3 DEF RowsOK
<1> QED
  BY <1>3 DEF RowsOK

(* mining.set_difficulty is sent, and the templates subscribed to after it. *)
LEMMA SubscribedOK ==
    ASSUME NEW c \in Conns, NEW s \in SessType, Latest \in 1..MaxTemplates,
           HandOK(s), s.inited, s.destroy = "no", DiffOK(s), OwnJobs(c, s, Latest)
    PROVE  LET t == Subscribed(c, s)
           IN  /\ t \in SessType /\ SessInv(c, t, Latest) /\ SameBooks(s, t)
               /\ \A rows : RowsOK(s, rows) => RowsOK(t, rows)
<1> DEFINE u == [s EXCEPT !.stream = TRUE]
           t == Subscribed(c, s)
<1>1. u \in SessType
  BY ZenonT(60) DEF SessType
<1>2. /\ u.mode = s.mode /\ u.socket = s.socket /\ u.closed = s.closed /\ u.destroy = s.destroy
      /\ u.subscribed = s.subscribed /\ u.auth = s.auth /\ u.pay = s.pay /\ u.diff = s.diff
      /\ u.suggested = s.suggested /\ u.inited = s.inited /\ u.stream = TRUE
      /\ u.hashes = s.hashes /\ u.row = s.row /\ u.jobs = s.jobs /\ u.made = s.made
      /\ u.waits = s.waits /\ u.told = s.told /\ u.work = s.work /\ u.tasks = s.tasks /\ u.beats = s.beats
      /\ u.accepted = s.accepted /\ u.late = s.late /\ u.racing = s.racing
  BY DEF SessType
<1>3. t = SendJob(c, u, Latest)
  BY DEF Subscribed
<1> HIDE DEF u, t
<1>4. HandOK(u) /\ Starts(u) /\ DiffOK(u) /\ OwnJobs(c, u, Latest)
  BY <1>2 DEF HandOK, Starts, DiffOK, OwnJobs, Waiting
<1>5. \A rows : RowsOK(s, rows) => RowsOK(u, rows)
  BY <1>2 DEF RowsOK, RowWrites
<1>6. Latest \in Nat /\ Latest <= Latest
  BY StratumV1SessionAssumption
<1>7. t \in SessType /\ SessInv(c, t, Latest) /\ SameBooks(u, t)
  BY <1>1, <1>2, <1>3, <1>4, <1>6, SendServes
<1>8. SameBooks(s, t)
  BY <1>2, <1>7 DEF SameBooks
<1>9. u.pay \in Identities /\ u.destroy = "no"
  BY <1>2, <1>4 DEF HandOK
<1>10. ASSUME NEW rows, RowsOK(s, rows) PROVE RowsOK(t, rows)
  BY <1>1, <1>3, <1>5, <1>9, <1>10, SendRowsOK
<1> QED
  BY <1>7, <1>8, <1>10 DEF t

(* The end of handleMessage. *)
LEMMA HandledOK ==
    ASSUME NEW c \in Conns, NEW s \in SessType, Latest \in 1..MaxTemplates,
           HandOK(s), s.destroy = "no", Subscribes(s), ServeOK(s, Latest), DiffOK(s),
           OwnJobs(c, s, Latest)
    PROVE  LET t == HandledMessage(c, s)
           IN  /\ t \in SessType /\ SessInv(c, t, Latest) /\ SameBooks(s, t)
               /\ \A rows : RowsOK(s, rows) => RowsOK(t, rows)
<1> DEFINE t == HandledMessage(c, s)
           start == s.subscribed /\ s.auth # NoIdentity /\ ~s.inited
<1> USE DEF SameBooks
<1>1. CASE ~start
  <2>1. t = s
    BY <1>1 DEF HandledMessage
  <2>2. Starts(s)
    BY <1>1 DEF Starts
  <2> HIDE DEF t
  <2> QED
    BY <2>1, <2>2, SharesSame DEF SessInv, t
<1>2. CASE start /\ s.suggested # 0
  <2> DEFINE u == [s EXCEPT !.inited = TRUE]
  <2>1. u \in SessType
    BY ZenonT(60) DEF SessType
  <2>2. /\ u.mode = s.mode /\ u.socket = s.socket /\ u.closed = s.closed /\ u.destroy = s.destroy
        /\ u.subscribed = s.subscribed /\ u.auth = s.auth /\ u.pay = s.pay /\ u.diff = s.diff
        /\ u.suggested = s.suggested /\ u.inited = TRUE /\ u.stream = s.stream
        /\ u.hashes = s.hashes /\ u.row = s.row /\ u.jobs = s.jobs /\ u.made = s.made
        /\ u.waits = s.waits /\ u.told = s.told /\ u.work = s.work /\ u.tasks = s.tasks /\ u.beats = s.beats
        /\ u.accepted = s.accepted /\ u.late = s.late /\ u.racing = s.racing
    BY DEF SessType
  <2>3. t = Subscribed(c, u)
    BY <1>2 DEF HandledMessage, InitStratum
  <2> HIDE DEF u, t
  <2>4. HandOK(u) /\ DiffOK(u) /\ OwnJobs(c, u, Latest)
    BY <1>2, <2>2 DEF HandOK, DiffOK, OwnJobs, Waiting
  <2>5. \A rows : RowsOK(s, rows) => RowsOK(u, rows)
    BY <2>2 DEF RowsOK, RowWrites
  <2>6. /\ t \in SessType /\ SessInv(c, t, Latest) /\ SameBooks(u, t)
        /\ \A rows : RowsOK(u, rows) => RowsOK(t, rows)
    BY <2>1, <2>2, <2>3, <2>4, SubscribedOK
  <2> QED
    BY <2>2, <2>5, <2>6 DEF t
<1>3. CASE start /\ s.suggested = 0 /\ s.socket = "open"
  <2> DEFINE task == [at |-> "init"]
             u == [s EXCEPT !.inited = TRUE]
             w == Wait(u, task)
  <2>1. u \in SessType
    BY ZenonT(60) DEF SessType
  <2>2. /\ u.mode = s.mode /\ u.socket = s.socket /\ u.closed = s.closed /\ u.destroy = s.destroy
        /\ u.subscribed = s.subscribed /\ u.auth = s.auth /\ u.pay = s.pay /\ u.diff = s.diff
        /\ u.suggested = s.suggested /\ u.inited = TRUE /\ u.stream = s.stream
        /\ u.hashes = s.hashes /\ u.row = s.row /\ u.jobs = s.jobs /\ u.made = s.made
        /\ u.waits = s.waits /\ u.told = s.told /\ u.work = s.work /\ u.tasks = s.tasks /\ u.beats = s.beats
        /\ u.accepted = s.accepted /\ u.late = s.late /\ u.racing = s.racing
    BY DEF SessType
  <2>3. t = [w EXCEPT !.told = s.diff]
    BY <1>3, <2>2 DEF HandledMessage, InitStratum, WrittenThen
  <2>4. task \in PlainTask /\ task \in TaskType /\ task.at = "init"
    BY DEF PlainTask, TaskType
  <2> HIDE DEF u, task
  <2>5. w \in SessType /\ ButTasks(u, w) /\ w.tasks = Append(u.tasks, task)
    BY <2>1, <2>4, WaitEffect
  <2> HIDE DEF w
  <2>6. /\ t \in SessType
        /\ t.mode = s.mode /\ t.socket = s.socket /\ t.closed = s.closed /\ t.destroy = s.destroy
        /\ t.subscribed = s.subscribed /\ t.auth = s.auth /\ t.pay = s.pay /\ t.diff = s.diff
        /\ t.suggested = s.suggested /\ t.inited = TRUE /\ t.stream = s.stream
        /\ t.hashes = s.hashes /\ t.row = s.row /\ t.jobs = s.jobs /\ t.made = s.made
        /\ t.waits = s.waits /\ t.told = s.diff /\ t.work = s.work
        /\ t.accepted = s.accepted /\ t.late = s.late /\ t.racing = s.racing
        /\ t.tasks = Append(s.tasks, task)
    <3>1. s.diff \in Nat
      BY DEF SessType
    <3>2. /\ t \in SessType
          /\ t.mode = w.mode /\ t.socket = w.socket /\ t.closed = w.closed /\ t.destroy = w.destroy
          /\ t.subscribed = w.subscribed /\ t.auth = w.auth /\ t.pay = w.pay /\ t.diff = w.diff
          /\ t.suggested = w.suggested /\ t.inited = w.inited /\ t.stream = w.stream
          /\ t.hashes = w.hashes /\ t.row = w.row /\ t.jobs = w.jobs /\ t.made = w.made
          /\ t.waits = w.waits /\ t.told = s.diff /\ t.work = w.work
          /\ t.accepted = w.accepted /\ t.late = w.late /\ t.racing = w.racing
          /\ t.tasks = w.tasks /\ t.beats = w.beats
      <4>1. t = [w EXCEPT !.told = s.diff] /\ w \in SessType
        BY <2>3, <2>5
      <4> HIDE DEF t
      <4> QED
        BY ONLY ZenonT(60), <3>1, <4>1 DEF SessType
    <3> HIDE DEF t
    <3> QED
      BY <2>2, <2>5, <3>2 DEF ButTasks
  <2> HIDE DEF t
  <2>7. \A kinds : Waiting(t, kinds) <=> Waiting(s, kinds) \/ "init" \in kinds
    BY <2>4, <2>6, WaitingAfterAppend
  <2>8. HandOK(t) /\ Starts(t) /\ Subscribes(t) /\ DiffOK(t) /\ OwnJobs(c, t, Latest)
    BY <1>3, <2>6, <2>7 DEF HandOK, Starts, Subscribes, DiffOK, OwnJobs
  <2>9. ServeOK(t, Latest)
    BY <1>3, <2>6, <2>7 DEF ServeOK, HandOK
  <2>10. SameBooks(s, t)
    BY <2>4, <2>6, SharesAfterAppend
  <2>11. ASSUME NEW rows, RowsOK(s, rows) PROVE RowsOK(t, rows)
    <3>1. task \notin TouchTask
      BY <2>4 DEF TouchTask
    <3> QED
      BY <2>4, <2>6, <2>11, <3>1, RowsAfterAppend
  <2> QED
    BY <2>6, <2>8, <2>9, <2>10, <2>11 DEF SessInv, t
<1>4. CASE start /\ s.suggested = 0 /\ s.socket # "open"
  <2> DEFINE u == [s EXCEPT !.inited = TRUE]
             w == Written(u)
  <2>1. u \in SessType
    BY ZenonT(60) DEF SessType
  <2>2. /\ u.mode = s.mode /\ u.socket = s.socket /\ u.closed = s.closed /\ u.destroy = s.destroy
        /\ u.subscribed = s.subscribed /\ u.auth = s.auth /\ u.pay = s.pay /\ u.diff = s.diff
        /\ u.suggested = s.suggested /\ u.inited = TRUE /\ u.stream = s.stream
        /\ u.hashes = s.hashes /\ u.row = s.row /\ u.jobs = s.jobs /\ u.made = s.made
        /\ u.waits = s.waits /\ u.told = s.told /\ u.work = s.work /\ u.tasks = s.tasks /\ u.beats = s.beats
        /\ u.accepted = s.accepted /\ u.late = s.late /\ u.racing = s.racing
    BY DEF SessType
  <2>3. t = [w EXCEPT !.told = @]
    BY <1>4, <2>2 DEF HandledMessage, InitStratum, WrittenThen
  <2> HIDE DEF u
  <2>4. /\ w \in SessType
        /\ Kept(u, w)
        /\ w.row = u.row /\ w.socket = "destroyed"
        /\ w.jobs = u.jobs /\ w.made = u.made
        /\ w.waits = u.waits /\ w.sent = u.sent
        /\ w.work = u.work
        /\ w.destroy = "started" /\ w.closed
        /\ ~w.stream /\ w.hashes = {}
        /\ w.racing = RowWrites(u)
    BY <1>4, <2>1, <2>2, WrittenEffect
  <2> HIDE DEF w
  <2>5. t = w
    BY <2>3, <2>4 DEF SessType
  <2> HIDE DEF t
  <2>6. /\ t \in SessType
        /\ t.mode = s.mode /\ t.socket = "destroyed" /\ t.closed /\ t.destroy = "started"
        /\ t.subscribed = s.subscribed /\ t.auth = s.auth /\ t.pay = s.pay /\ t.diff = s.diff
        /\ t.suggested = s.suggested /\ t.inited = TRUE /\ ~t.stream
        /\ t.row = s.row /\ t.jobs = s.jobs /\ t.made = s.made
        /\ t.waits = s.waits /\ t.told = s.told /\ t.work = s.work
        /\ t.accepted = s.accepted /\ t.late = s.late
        /\ t.tasks = s.tasks /\ t.beats = s.beats
    BY <2>2, <2>4, <2>5 DEF Kept
  <2>7. t.racing = RowWrites(t) /\ \A kinds : Waiting(t, kinds) = Waiting(s, kinds)
    <3>1. \A kinds : Waiting(t, kinds) = Waiting(s, kinds)
      BY <2>6 DEF Waiting
    <3>2. t.racing = RowWrites(u) /\ u.row = t.row /\ u.tasks = t.tasks /\ u.beats = t.beats
      BY <2>2, <2>4, <2>5, <2>6
    <3>3. RowWrites(u) = RowWrites(t)
      BY ONLY <3>2 DEF RowWrites
    <3> QED
      BY <3>1, <3>2, <3>3
  <2>8. HandOK(t) /\ Starts(t) /\ Subscribes(t) /\ DiffOK(t) /\ OwnJobs(c, t, Latest) /\ ServeOK(t, Latest)
    BY <1>4, <2>6, <2>7 DEF HandOK, Starts, Subscribes, DiffOK, OwnJobs, ServeOK
  <2>9. SameBooks(s, t)
    BY <2>6, SharesSame
  <2>10. \A rows : RowsOK(s, rows) => RowsOK(t, rows)
    BY <2>6, <2>7 DEF RowsOK
  <2> QED
    BY <2>6, <2>8, <2>9, <2>10 DEF SessInv, t
<1> QED
  BY <1>1, <1>2, <1>3, <1>4

-----------------------------------------------------------------------------
(* Sessions that differ in nothing that matters, and what is done.          *)

Alike(s, t) == ButTasks(s, t) /\ t.tasks = s.tasks

LEMMA AlikeKeeps ==
    ASSUME NEW s \in SessType, NEW t \in SessType, Alike(s, t)
    PROVE  /\ HandOK(s) => HandOK(t)
           /\ Starts(s) => Starts(t)
           /\ Subscribes(s) => Subscribes(t)
           /\ \A latest : ServeOK(s, latest) => ServeOK(t, latest)
           /\ DiffOK(s) => DiffOK(t)
           /\ \A c, latest : OwnJobs(c, s, latest) => OwnJobs(c, t, latest)
           /\ \A c, latest : SessInv(c, s, latest) => SessInv(c, t, latest)
           /\ \A rows : RowsOK(s, rows) => RowsOK(t, rows)
           /\ SameBooks(s, t)
<1> USE DEF Alike, ButTasks
<1>1. \A kinds : Waiting(s, kinds) = Waiting(t, kinds)
  BY DEF Waiting
<1>2. /\ HandOK(s) => HandOK(t)
      /\ Starts(s) => Starts(t)
      /\ Subscribes(s) => Subscribes(t)
      /\ DiffOK(s) => DiffOK(t)
  BY <1>1 DEF HandOK, Starts, Subscribes, DiffOK
<1>3. ASSUME NEW latest, ServeOK(s, latest) PROVE ServeOK(t, latest)
  BY <1>1, <1>3 DEF ServeOK, Served
<1>4. \A c, latest : OwnJobs(c, s, latest) => OwnJobs(c, t, latest)
  BY DEF OwnJobs
<1>5. \A c, latest : SessInv(c, s, latest) => SessInv(c, t, latest)
  BY <1>2, <1>3, <1>4 DEF SessInv
<1>6. \A rows : RowsOK(s, rows) => RowsOK(t, rows)
  BY DEF RowsOK, RowWrites
<1>7. SameBooks(s, t)
  BY SharesSame DEF SameBooks
<1> QED
  BY <1>2, <1>3, <1>4, <1>5, <1>6, <1>7

LEMMA BooksTrans ==
    ASSUME NEW x, NEW y, NEW z, SameBooks(x, y), SameBooks(y, z)
    PROVE  SameBooks(x, z)
<1>1. SameShares(x.tasks, z.tasks)
  BY SharesTrans DEF SameBooks
<1> QED
  BY <1>1 DEF SameBooks

(* A handler is done, or goes on as another one that is no share's.         *)
LEMMA DoneKeeps ==
    ASSUME NEW s \in SessType, NEW i \in DOMAIN s.tasks
    PROVE  LET t == Done(s, i)
           IN  /\ t \in SessType /\ ButTasks(s, t)
               /\ HandOK(s) => HandOK(t)
               /\ Starts(s) /\ s.tasks[i].at \notin Plain => Starts(t)
               /\ Subscribes(s) /\ s.tasks[i].at # "init" => Subscribes(t)
               /\ s.tasks[i].at # "payout" => \A latest : ServeOK(s, latest) => ServeOK(t, latest)
               /\ DiffOK(s) => DiffOK(t)
               /\ \A c, latest : OwnJobs(c, s, latest) => OwnJobs(c, t, latest)
               /\ \A rows : RowsOK(s, rows) => RowsOK(t, rows)
               /\ s.tasks[i] \notin ShareTask => SameBooks(s, t)
<1> DEFINE t == Done(s, i)
<1>1. t \in SessType /\ ButTasks(s, t) /\ t.tasks = RemoveAt(s.tasks, i)
  BY DoneEffect
<1> HIDE DEF t
<1>2. \A kinds : /\ Waiting(t, kinds) => Waiting(s, kinds)
                 /\ s.tasks[i].at \notin kinds => (Waiting(t, kinds) <=> Waiting(s, kinds))
  BY <1>1, WaitingAfterRemove
<1>3. HandOK(s) => HandOK(t)
  BY <1>1, <1>2 DEF HandOK, ButTasks
<1>4. Starts(s) /\ s.tasks[i].at \notin Plain => Starts(t)
  BY <1>1, <1>2 DEF Starts, ButTasks
<1>5. Subscribes(s) /\ s.tasks[i].at # "init" => Subscribes(t)
  BY <1>1, <1>2 DEF Subscribes, ButTasks
<1>6. ASSUME s.tasks[i].at # "payout", NEW latest, ServeOK(s, latest) PROVE ServeOK(t, latest)
  <2>1. Waiting(t, {"payout"}) <=> Waiting(s, {"payout"})
    BY <1>2, <1>6
  <2> QED
    BY <1>1, <1>6, <2>1 DEF ServeOK, Served, ButTasks
<1>7. DiffOK(s) => DiffOK(t)
  BY <1>1 DEF DiffOK, ButTasks
<1>8. \A c, latest : OwnJobs(c, s, latest) => OwnJobs(c, t, latest)
  BY <1>1 DEF OwnJobs, ButTasks
<1>9. ASSUME NEW rows, RowsOK(s, rows) PROVE RowsOK(t, rows)
  <2>1. \A j \in DOMAIN t.tasks : \E k \in DOMAIN s.tasks : t.tasks[j] = s.tasks[k]
    <3>1. s.tasks \in Seq(TaskType)
      BY DEF SessType
    <3> QED
      BY <1>1, <3>1, AfterRemove
  <2>2. RowWrites(t) => RowWrites(s)
    BY <1>1, <2>1 DEF RowWrites, ButTasks
  <2> QED
    BY <1>1, <1>9, <2>1, <2>2 DEF RowsOK, ButTasks
<1>10. s.tasks[i] \notin ShareTask => SameBooks(s, t)
  BY <1>1, SharesAfterRemove DEF SameBooks, ButTasks
<1> QED
  BY <1>1, <1>3, <1>4, <1>5, <1>6, <1>7, <1>8, <1>9, <1>10 DEF t

-----------------------------------------------------------------------------
(* Steps that the books do not notice. *)

Logs == <<recorded, dropped, submitted, finalized>>

Quietly(c) ==
    /\ \E t \in SessType :
          /\ sess' = [sess EXCEPT ![c] = t]
          /\ SessInv(c, t, Latest) /\ SameBooks(sess[c], t)
          /\ \E rows \in SUBSET RowKeys : live' = [live EXCEPT ![c] = rows] /\ RowsOK(t, rows)
    /\ UNCHANGED <<heights, blocks>> /\ UNCHANGED Logs

LEMMA QuietlyStays ==
    ASSUME TypeInv, NEW c \in Conns, NEW t \in SessType, Go(c, t), SessInv(c, t, Latest),
           SameBooks(sess[c], t), RowsOK(t, live[c]), UNCHANGED <<heights, blocks, live, logs>>
    PROVE  Quietly(c)
<1>1. live[c] \in SUBSET RowKeys /\ live = [live EXCEPT ![c] = live[c]]
  BY DEF TypeInv
<1>2. /\ sess' = [sess EXCEPT ![c] = t] /\ live' = [live EXCEPT ![c] = live[c]]
      /\ UNCHANGED <<heights, blocks>> /\ UNCHANGED Logs
  BY <1>1 DEF Go, Logs, logs
<1> QED
  BY <1>1, <1>2 DEF Quietly

LEMMA HandleOK ==
    ASSUME TypeInv, NEW c \in Conns, NEW u \in SessType, Handle(c, u), SessInv(c, u, Latest),
           SameBooks(sess[c], u), RowsOK(u, live[c])
    PROVE  Quietly(c)
<1> DEFINE t == [u EXCEPT !.msgs = @ + 1]
<1>1. t \in SessType /\ Alike(u, t)
  <2>1. u.msgs + 1 \in Nat
    BY DEF SessType
  <2> QED
    BY ZenonT(60), <2>1 DEF SessType, Alike, ButTasks
<1>2. Go(c, t) /\ UNCHANGED <<heights, blocks, live, logs>>
  BY DEF Handle, Go
<1> HIDE DEF t
<1>3. SessInv(c, t, Latest) /\ SameBooks(u, t) /\ RowsOK(t, live[c])
  BY <1>1, AlikeKeeps
<1>4. SameBooks(sess[c], t)
  BY <1>3, BooksTrans
<1> QED
  BY <1>1, <1>2, <1>3, <1>4, QuietlyStays

(* A message is read and answered; its handler waits for the write.         *)
LEMMA AnswerOK ==
    ASSUME NEW c \in Conns, NEW u \in SessType, NEW task \in PlainTask, task.at \in Plain,
           NEW rows, u.socket = "open", HandOK(u), Subscribes(u), DiffOK(u), OwnJobs(c, u, Latest),
           RowsOK(u, rows),
           ServeOK(u, Latest) \/ /\ task.at = "payout"
                                 /\ u.stream => \/ u.row[Own] = "inserting" /\ Last(u.waits) = Latest
                                                \/ /\ u.row[Own] = "have" /\ u.work # << >>
                                                   /\ Last(u.work).template = Latest
    PROVE  LET t == WrittenThen(u, task)
           IN  /\ t \in SessType /\ SessInv(c, t, Latest) /\ SameBooks(u, t) /\ RowsOK(t, rows)
<1> DEFINE t == WrittenThen(u, task)
<1>1. t = Wait(u, task)
  BY DEF WrittenThen
<1>2. task \in TaskType /\ task \notin TouchTask
  BY DEF TaskType, TouchTask, PlainTask
<1>3. t \in SessType /\ ButTasks(u, t) /\ t.tasks = Append(u.tasks, task)
  BY <1>1, <1>2, WaitEffect
<1> HIDE DEF t
<1>4. \A kinds : Waiting(t, kinds) <=> Waiting(u, kinds) \/ task.at \in kinds
  BY <1>2, <1>3, WaitingAfterAppend
<1>5. HandOK(t) /\ Starts(t) /\ Subscribes(t) /\ DiffOK(t) /\ OwnJobs(c, t, Latest)
  BY <1>3, <1>4 DEF HandOK, Starts, Subscribes, DiffOK, OwnJobs, ButTasks, Plain
<1>6. ServeOK(t, Latest)
  BY <1>3, <1>4 DEF ServeOK, Served, ButTasks
<1>7. SameBooks(u, t)
  BY <1>3, SharesAfterAppend DEF SameBooks, ButTasks
<1>8. RowsOK(t, rows)
  <2>1. u.destroy = "no"
    BY DEF HandOK
  <2> QED
    BY <1>2, <1>3, <2>1, RowsAfterAppend DEF ButTasks
<1> QED
  BY <1>3, <1>5, <1>6, <1>7, <1>8 DEF SessInv, t

-----------------------------------------------------------------------------
(* Messages from the miner. *)

SessionsInv ==
    /\ TypeInv
    /\ \A c \in Conns : SessInv(c, sess[c], Latest) /\ RowsOK(sess[c], live[c])

LEMMA Here ==
    ASSUME SessionsInv, NEW c \in Conns
    PROVE  /\ TypeInv /\ sess[c] \in SessType /\ Latest \in 1..MaxTemplates /\ Latest \in Nat
           /\ live[c] \in SUBSET RowKeys
           /\ SessInv(c, sess[c], Latest) /\ RowsOK(sess[c], live[c])
           /\ HandOK(sess[c]) /\ Starts(sess[c]) /\ Subscribes(sess[c]) /\ DiffOK(sess[c])
           /\ ServeOK(sess[c], Latest) /\ OwnJobs(c, sess[c], Latest)
BY StratumV1SessionAssumption DEF SessionsInv, TypeInv, SessInv

LEMMA ClampOK ==
    ASSUME NEW d \in Nat
    PROVE  Clamp(d) \in Nat /\ Clamp(d) >= d
<1>1. MinDifficulty \in Nat
  BY StratumV1SessionAssumption
<1>2. \E x \in {d, MinDifficulty} : \A y \in {d, MinDifficulty} : x >= y
  BY <1>1
<1> QED
  BY <1>1, <1>2 DEF Clamp, Max

(* Messages whose handler waits for the answer's write.                     *)
LEMMA AnswersQuietly ==
    ASSUME SessionsInv, NEW c \in Conns, NEW u \in SessType, NEW task \in PlainTask,
           Handle(c, WrittenThen(u, task)), task.at \in Plain,
           u.socket = sess[c].socket, HandOK(u), Subscribes(u), DiffOK(u), OwnJobs(c, u, Latest),
           RowsOK(u, live[c]), SameBooks(sess[c], u),
           ServeOK(u, Latest) \/ /\ task.at = "payout"
                                 /\ u.stream => \/ u.row[Own] = "inserting" /\ Last(u.waits) = Latest
                                                \/ /\ u.row[Own] = "have" /\ u.work # << >>
                                                   /\ Last(u.work).template = Latest
    PROVE  Quietly(c)
<1> DEFINE t == WrittenThen(u, task)
<1>1. u.socket = "open"
  BY DEF Handle, CanRead
<1>2. t \in SessType /\ SessInv(c, t, Latest) /\ SameBooks(u, t) /\ RowsOK(t, live[c])
  BY <1>1, AnswerOK
<1> HIDE DEF t
<1>3. SameBooks(sess[c], t)
  BY <1>2, BooksTrans
<1>4. Handle(c, t)
  BY DEF t
<1> QED
  BY <1>2, <1>3, <1>4, HandleOK DEF SessionsInv

LEMMA SubscribeQuietly ==
    ASSUME SessionsInv, NEW c \in Conns, Subscribe(c) \/ AnswerOnly(c)
    PROVE  Quietly(c)
<1> DEFINE s == sess[c]
           task == [at |-> "handled"]
           u == [s EXCEPT !.subscribed = TRUE]
<1>1. s \in SessType /\ SameBooks(s, s)
  BY Here, SharesSame DEF SameBooks
<1>2. task \in PlainTask /\ task.at \in Plain
  BY DEF PlainTask, Plain
<1> HIDE DEF task
<1>3. CASE AnswerOnly(c)
  <2>1. Handle(c, WrittenThen(s, task))
    BY <1>3 DEF AnswerOnly, task
  <2> QED
    BY <1>1, <1>2, <2>1, Here, AnswersQuietly
<1>4. CASE Subscribe(c)
  <2>1. Handle(c, WrittenThen(u, task))
    BY <1>4 DEF Subscribe, task
  <2> HIDE DEF s
  <2>2. u \in SessType /\ ButTasks([u EXCEPT !.subscribed = s.subscribed], s) /\ u.tasks = s.tasks /\ u.beats = s.beats
    BY ZenonT(60), <1>1 DEF SessType, ButTasks
  <2>3. /\ u.mode = s.mode /\ u.socket = s.socket /\ u.closed = s.closed /\ u.destroy = s.destroy
        /\ u.auth = s.auth /\ u.pay = s.pay /\ u.diff = s.diff
        /\ u.suggested = s.suggested /\ u.inited = s.inited /\ u.stream = s.stream
        /\ u.hashes = s.hashes /\ u.row = s.row /\ u.jobs = s.jobs /\ u.made = s.made
        /\ u.waits = s.waits /\ u.told = s.told /\ u.work = s.work
        /\ u.accepted = s.accepted /\ u.late = s.late /\ u.racing = s.racing /\ u.tasks = s.tasks /\ u.beats = s.beats
    BY <1>1 DEF SessType
  <2> HIDE DEF u
  <2>4. HandOK(s) /\ Subscribes(s) /\ DiffOK(s) /\ OwnJobs(c, s, Latest) /\ RowsOK(s, live[c])
        /\ ServeOK(s, Latest)
    BY Here DEF s
  <2>5. HandOK(u) /\ Subscribes(u) /\ DiffOK(u) /\ OwnJobs(c, u, Latest) /\ RowsOK(u, live[c])
        /\ ServeOK(u, Latest) /\ SameBooks(s, u)
    BY <1>1, <2>3, <2>4 DEF HandOK, Subscribes, DiffOK, OwnJobs, RowsOK, RowWrites, ServeOK, Served,
                            Waiting, SameBooks
  <2>6. u.socket = sess[c].socket /\ SameBooks(sess[c], u)
    BY <2>3, <2>5 DEF s
  <2> QED
    BY <1>2, <2>1, <2>2, <2>5, <2>6, AnswersQuietly
<1> QED
  BY <1>3, <1>4

LEMMA AuthorizeQuietly ==
    ASSUME SessionsInv, NEW c \in Conns, NEW identity \in Accounts, NEW d \in Difficulties \cup {0},
           Authorize(c, identity, d)
    PROVE  Quietly(c)
<1> DEFINE s == sess[c]
           task == [at |-> "handled"]
           raise == s.suggested = 0 /\ d > s.diff
           diff == IF raise THEN d ELSE s.diff
           late == s.late \/ s.inited
           u == [s EXCEPT !.auth = identity, !.pay = identity, !.diff = diff, !.late = late]
<1>1. s \in SessType
  BY Here
<1>2. task \in PlainTask /\ task.at \in Plain
  BY DEF PlainTask, Plain
<1>3. Handle(c, WrittenThen(u, task))
  BY <1>1 DEF Authorize, SessType
<1> HIDE DEF task, s
<1>4. d \in Nat /\ identity \in Identities /\ identity \in RowKeys /\ identity # NoIdentity
  BY StratumV1SessionAssumption DEF RowKeys
<1>5. /\ diff \in Nat /\ s.diff \in Nat /\ s.suggested \in Nat /\ late \in BOOLEAN
      /\ diff >= s.diff /\ (s.suggested # 0 => diff = s.diff)
  BY <1>1, <1>4 DEF SessType
<1>6. late <=> s.late \/ s.inited
  OBVIOUS
<1> HIDE DEF late, diff
<1>7. /\ u \in SessType
      /\ u.mode = s.mode /\ u.socket = s.socket /\ u.closed = s.closed /\ u.destroy = s.destroy
      /\ u.auth = identity /\ u.pay = identity /\ u.diff = diff /\ u.subscribed = s.subscribed
      /\ u.suggested = s.suggested /\ u.inited = s.inited /\ u.stream = s.stream
      /\ u.hashes = s.hashes /\ u.row = s.row /\ u.jobs = s.jobs /\ u.made = s.made
      /\ u.waits = s.waits /\ u.told = s.told /\ u.work = s.work
      /\ u.accepted = s.accepted /\ u.late = late /\ u.racing = s.racing /\ u.tasks = s.tasks /\ u.beats = s.beats
  BY ZenonT(60), <1>1, <1>4, <1>5 DEF SessType
<1> HIDE DEF u
<1>8. HandOK(s) /\ Subscribes(s) /\ DiffOK(s) /\ OwnJobs(c, s, Latest) /\ RowsOK(s, live[c])
      /\ ServeOK(s, Latest)
  BY Here DEF s
<1>9. \A kinds : Waiting(u, kinds) = Waiting(s, kinds)
  BY <1>7 DEF Waiting
<1>10. HandOK(u) /\ Subscribes(u) /\ OwnJobs(c, u, Latest)
  BY <1>4, <1>7, <1>8, <1>9 DEF HandOK, Subscribes, OwnJobs
<1>11. DiffOK(u)
  BY <1>5, <1>6, <1>7, <1>8 DEF DiffOK
<1>12. ServeOK(u, Latest)
  BY <1>6, <1>7, <1>8, <1>9 DEF ServeOK, Served, HandOK
<1>13. RowsOK(u, live[c]) /\ SameBooks(s, u)
  BY <1>7, <1>8, SharesSame DEF RowsOK, RowWrites, SameBooks
<1>14. u.socket = sess[c].socket /\ SameBooks(sess[c], u)
  BY <1>7, <1>13 DEF s
<1> QED
  BY <1>2, <1>3, <1>7, <1>10, <1>11, <1>12, <1>13, <1>14, AnswersQuietly

LEMMA SuggestQuietly ==
    ASSUME SessionsInv, NEW c \in Conns, NEW d \in Difficulties, Suggest(c, d)
    PROVE  Quietly(c)
<1> DEFINE s == sess[c]
           task == [at |-> "suggest"]
           u == [s EXCEPT !.suggested = d, !.diff = Clamp(d), !.told = Clamp(d)]
<1>1. s \in SessType /\ SameBooks(s, s)
  BY Here, SharesSame DEF SameBooks
<1>2. task \in PlainTask /\ task.at \in Plain
  BY DEF PlainTask, Plain
<1> HIDE DEF task, s
<1>3. d \in Nat /\ Clamp(d) \in Nat /\ Clamp(d) >= d
  <2>1. d \in Nat
    BY StratumV1SessionAssumption
  <2> QED
    BY <2>1, ClampOK
<1>4. HandOK(s) /\ Subscribes(s) /\ DiffOK(s) /\ OwnJobs(c, s, Latest) /\ RowsOK(s, live[c])
      /\ ServeOK(s, Latest) /\ SessInv(c, s, Latest)
  BY Here DEF s
<1>5. CASE s.used
  <2>1. Handle(c, s)
    BY <1>5 DEF Suggest, s
  <2> QED
    BY <1>1, <1>4, <2>1, HandleOK DEF s, SessionsInv
<1>6. CASE ~s.used
  <2>1. Handle(c, WrittenThen(u, task))
    BY <1>6 DEF Suggest, s, task
  <2>2. /\ u \in SessType
        /\ u.mode = s.mode /\ u.socket = s.socket /\ u.closed = s.closed /\ u.destroy = s.destroy
        /\ u.auth = s.auth /\ u.pay = s.pay /\ u.diff = Clamp(d) /\ u.subscribed = s.subscribed
        /\ u.suggested = d /\ u.inited = s.inited /\ u.stream = s.stream
        /\ u.hashes = s.hashes /\ u.row = s.row /\ u.jobs = s.jobs /\ u.made = s.made
        /\ u.waits = s.waits /\ u.told = Clamp(d) /\ u.work = s.work
        /\ u.accepted = s.accepted /\ u.late = s.late /\ u.racing = s.racing /\ u.tasks = s.tasks /\ u.beats = s.beats
    BY ZenonT(60), <1>1, <1>3 DEF SessType
  <2> HIDE DEF u
  <2>3. \A kinds : Waiting(u, kinds) = Waiting(s, kinds)
    BY <2>2 DEF Waiting
  <2>4. HandOK(u) /\ Subscribes(u) /\ OwnJobs(c, u, Latest)
    BY <1>4, <2>2, <2>3 DEF HandOK, Subscribes, OwnJobs
  <2>5. DiffOK(u)
    BY <1>3, <2>2 DEF DiffOK
  <2>6. ServeOK(u, Latest)
    BY <1>4, <2>2, <2>3 DEF ServeOK, Served
  <2>7. RowsOK(u, live[c]) /\ SameBooks(s, u)
    BY <1>4, <2>2, SharesSame DEF RowsOK, RowWrites, SameBooks
  <2>8. u.socket = sess[c].socket /\ SameBooks(sess[c], u)
    BY <2>2, <2>7 DEF s
  <2> QED
    BY <1>2, <2>1, <2>2, <2>4, <2>5, <2>6, <2>7, <2>8, AnswersQuietly
<1> QED
  BY <1>5, <1>6

LEMMA SetPayoutQuietly ==
    ASSUME SessionsInv, NEW c \in Conns, NEW identity \in Identities, SetPayout(c, identity)
    PROVE  Quietly(c)
<1> DEFINE s == sess[c]
           task == [at |-> "payout"]
           u == [s EXCEPT !.pay = identity]
<1>1. s \in SessType
  BY Here
<1>2. task \in PlainTask /\ task.at \in Plain /\ task.at = "payout"
  BY DEF PlainTask, Plain
<1>3. Handle(c, WrittenThen(u, task))
  BY DEF SetPayout
<1> HIDE DEF task, s
<1>4. identity \in RowKeys
  BY DEF RowKeys
<1>5. /\ u \in SessType
      /\ u.mode = s.mode /\ u.socket = s.socket /\ u.closed = s.closed /\ u.destroy = s.destroy
      /\ u.auth = s.auth /\ u.pay = identity /\ u.diff = s.diff /\ u.subscribed = s.subscribed
      /\ u.suggested = s.suggested /\ u.inited = s.inited /\ u.stream = s.stream
      /\ u.hashes = s.hashes /\ u.row = s.row /\ u.jobs = s.jobs /\ u.made = s.made
      /\ u.waits = s.waits /\ u.told = s.told /\ u.work = s.work
      /\ u.accepted = s.accepted /\ u.late = s.late /\ u.racing = s.racing /\ u.tasks = s.tasks /\ u.beats = s.beats
  BY ZenonT(60), <1>1, <1>4 DEF SessType
<1> HIDE DEF u
<1>6. HandOK(s) /\ Subscribes(s) /\ DiffOK(s) /\ OwnJobs(c, s, Latest) /\ RowsOK(s, live[c])
      /\ ServeOK(s, Latest)
  BY Here DEF s
<1>7. \A kinds : Waiting(u, kinds) = Waiting(s, kinds)
  BY <1>5 DEF Waiting
<1>8. HandOK(u) /\ Subscribes(u) /\ OwnJobs(c, u, Latest) /\ DiffOK(u)
  BY <1>5, <1>6, <1>7 DEF HandOK, Subscribes, OwnJobs, DiffOK
<1>9. s.socket = "open"
  BY <1>3 DEF Handle, CanRead, s
<1>10. u.stream => \/ u.row[Own] = "inserting" /\ Last(u.waits) = Latest
                   \/ /\ u.row[Own] = "have" /\ u.work # << >>
                      /\ Last(u.work).template = Latest
  BY <1>5, <1>6, <1>9 DEF ServeOK, Served
<1>11. RowsOK(u, live[c]) /\ SameBooks(s, u)
  BY <1>5, <1>6, SharesSame DEF RowsOK, RowWrites, SameBooks
<1>12. u.socket = sess[c].socket /\ SameBooks(sess[c], u)
  BY <1>5, <1>11 DEF s
<1> QED
  BY <1>2, <1>3, <1>5, <1>8, <1>10, <1>11, <1>12, AnswersQuietly

(* A session that is on its end keeps its promises: it has none.            *)
LEMMA ShutOK ==
    ASSUME NEW c, NEW latest, NEW s \in SessType, NEW t \in SessType, Kept(s, t), Follows(s, t),
           t.socket # "open", t.row = s.row, t.waits = s.waits, t.jobs = s.jobs, t.made = s.made,
           HandOK(s), DiffOK(s), OwnJobs(c, s, latest)
    PROVE  /\ SessInv(c, t, latest) /\ SameBooks(s, t)
           /\ \A rows : RowsOK(s, rows) => RowsOK(t, rows)
<1> USE DEF Kept, Follows
<1>1. \A kinds : Waiting(t, kinds) = Waiting(s, kinds)
  BY DEF Waiting
<1>2. HandOK(t)
  BY <1>1 DEF HandOK
<1>3. Starts(t) /\ Subscribes(t) /\ ServeOK(t, latest)
  BY DEF Starts, Subscribes, ServeOK
<1>4. DiffOK(t) /\ OwnJobs(c, t, latest)
  BY DEF DiffOK, OwnJobs
<1>5. SameBooks(s, t)
  BY SharesSame DEF SameBooks
<1>6. ASSUME NEW rows, RowsOK(s, rows) PROVE RowsOK(t, rows)
  <2>1. RowWrites(t) = RowWrites(s)
    BY DEF RowWrites
  <2> QED
    BY <1>6, <2>1 DEF RowsOK
<1> QED
  BY <1>2, <1>3, <1>4, <1>5, <1>6 DEF SessInv

LEMMA ClosedOK ==
    ASSUME NEW s \in SessType
    PROVE  LET t == Closed(s)
           IN  /\ t \in SessType /\ Kept(s, t) /\ t.socket = "destroyed" /\ t.row = s.row
               /\ t.waits = s.waits /\ t.jobs = s.jobs /\ t.made = s.made /\ Follows(s, t)
<1> DEFINE t == [s EXCEPT !.closed = TRUE, !.socket = "destroyed"]
<1>1. /\ t \in SessType /\ Kept(s, t) /\ t.socket = "destroyed" /\ t.row = s.row /\ t.waits = s.waits
      /\ t.jobs = s.jobs /\ t.made = s.made /\ t.closed = TRUE /\ t.destroy = s.destroy
      /\ t.stream = s.stream /\ t.racing = s.racing
  BY ZenonT(60) DEF SessType, Sockets, Kept
<1> HIDE DEF t
<1>2. Follows(s, t)
  BY <1>1 DEF Follows
<1> QED
  BY <1>1, <1>2 DEF Closed, t

(* Messages that end the connection.                                        *)
LEMMA EndsQuietly ==
    ASSUME SessionsInv, NEW c \in Conns,
           Handle(c, Closed(sess[c])) \/ Handle(c, Ended(sess[c]))
    PROVE  Quietly(c)
<1> DEFINE s == sess[c]
<1>1. s \in SessType /\ HandOK(s) /\ DiffOK(s) /\ OwnJobs(c, s, Latest) /\ RowsOK(s, live[c])
  BY Here
<1>2. PICK u : Handle(c, u) /\ (u = Closed(s) \/ u = Ended(s))
  OBVIOUS
<1> HIDE DEF s
<1>3. /\ u \in SessType /\ Kept(s, u) /\ u.socket # "open" /\ u.row = s.row /\ u.waits = s.waits
      /\ u.jobs = s.jobs /\ u.made = s.made /\ Follows(s, u)
  BY <1>1, <1>2, ClosedOK, EndedEffect
<1>4. SessInv(c, u, Latest) /\ SameBooks(s, u) /\ RowsOK(u, live[c])
  BY <1>1, <1>3, ShutOK
<1> QED
  BY <1>2, <1>3, <1>4, HandleOK DEF s, SessionsInv

(* A submission that is refused; it may be remembered.                      *)
LEMMA RefusedQuietly ==
    ASSUME SessionsInv, NEW c \in Conns, NEW hashes \in SUBSET (JobType \X Work),
           Handle(c, [sess[c] EXCEPT !.hashes = @ \cup hashes])
    PROVE  Quietly(c)
<1> DEFINE s == sess[c]
           all == s.hashes \cup hashes
           u == [s EXCEPT !.hashes = all]
<1>1. /\ s \in SessType /\ RowsOK(s, live[c])
      /\ HandOK(s) /\ Starts(s) /\ Subscribes(s) /\ ServeOK(s, Latest) /\ DiffOK(s)
      /\ OwnJobs(c, s, Latest)
  BY Here
<1>2. Handle(c, u)
  BY <1>1 DEF SessType
<1> HIDE DEF s
<1>3. all \in SUBSET (JobType \X Work) /\ s.hashes \subseteq all
  BY <1>1 DEF SessType
<1> HIDE DEF all
<1>4. /\ u \in SessType
      /\ u.mode = s.mode /\ u.socket = s.socket /\ u.closed = s.closed /\ u.destroy = s.destroy
      /\ u.auth = s.auth /\ u.pay = s.pay /\ u.diff = s.diff /\ u.subscribed = s.subscribed
      /\ u.suggested = s.suggested /\ u.inited = s.inited /\ u.stream = s.stream
      /\ u.hashes = all /\ u.row = s.row /\ u.jobs = s.jobs /\ u.made = s.made
      /\ u.waits = s.waits /\ u.told = s.told /\ u.work = s.work
      /\ u.accepted = s.accepted /\ u.late = s.late /\ u.racing = s.racing /\ u.tasks = s.tasks /\ u.beats = s.beats
  BY ZenonT(60), <1>1, <1>3 DEF SessType
<1> HIDE DEF u
<1>5. \A kinds : Waiting(u, kinds) = Waiting(s, kinds)
  BY <1>4 DEF Waiting
<1>6. HandOK(u) /\ Starts(u) /\ Subscribes(u) /\ OwnJobs(c, u, Latest) /\ DiffOK(u)
  BY <1>1, <1>4, <1>5 DEF HandOK, Starts, Subscribes, OwnJobs, DiffOK
<1>7. ServeOK(u, Latest)
  BY <1>1, <1>4, <1>5 DEF ServeOK, Served
<1>8. RowsOK(u, live[c]) /\ SameBooks(s, u)
  BY <1>1, <1>3, <1>4, SharesSame DEF RowsOK, RowWrites, SameBooks
<1>9. SessInv(c, u, Latest)
  BY <1>6, <1>7 DEF SessInv
<1> QED
  BY <1>2, <1>4, <1>8, <1>9, HandleOK DEF s, SessionsInv

-----------------------------------------------------------------------------
(* What waits goes on. *)

LEMMA DestroyedFollows ==
    ASSUME NEW s \in SessType, s.socket = "destroyed"
    PROVE  /\ Destroyed(s) \in SessType /\ Kept(s, Destroyed(s)) /\ Follows(s, Destroyed(s))
           /\ Destroyed(s).socket # "open" /\ Destroyed(s).row = s.row /\ Destroyed(s).waits = s.waits
           /\ Destroyed(s).jobs = s.jobs /\ Destroyed(s).made = s.made
<1> DEFINE t == Destroyed(s)
<1>1. /\ t \in SessType /\ Kept(s, t) /\ t.row = s.row /\ t.socket = s.socket
      /\ t.jobs = s.jobs /\ t.made = s.made /\ t.waits = s.waits
      /\ IF s.destroy = "no"
         THEN /\ t.destroy = "started" /\ t.closed /\ ~t.stream /\ t.hashes = {}
              /\ t.racing = RowWrites(s)
         ELSE t = s
  BY DestroyedEffect
<1> HIDE DEF t
<1>2. RowWrites(t) = RowWrites(s)
  BY <1>1 DEF RowWrites, Kept
<1>3. Follows(s, t)
  BY <1>1, <1>2 DEF Follows
<1> QED
  BY <1>1, <1>3 DEF t

(* Task i of a session is no share's, and it is done.                       *)
LEMMA PlainDone ==
    ASSUME SessionsInv, NEW c \in Conns, NEW i \in DOMAIN sess[c].tasks,
           sess[c].tasks[i].at \in {"handled", "suggest", "payout", "init", "touch"}
    PROVE  LET s == sess[c]
               t == Done(s, i)
           IN  /\ t \in SessType /\ ButTasks(s, t) /\ SameBooks(s, t)
               /\ HandOK(t) /\ DiffOK(t) /\ OwnJobs(c, t, Latest) /\ RowsOK(t, live[c])
               /\ s.tasks[i].at # "init" => Subscribes(t)
               /\ s.tasks[i].at # "payout" => ServeOK(t, Latest)
               /\ s.tasks[i].at \notin Plain => Starts(t)
               /\ s.socket # "destroyed" => t.destroy = "no"
<1> DEFINE s == sess[c]
           t == Done(s, i)
<1>1. s \in SessType /\ i \in DOMAIN s.tasks /\ RowsOK(s, live[c])
      /\ HandOK(s) /\ Starts(s) /\ Subscribes(s) /\ ServeOK(s, Latest) /\ DiffOK(s)
      /\ OwnJobs(c, s, Latest)
  BY Here
<1>2. s.tasks[i].at \in {"handled", "suggest", "payout", "init", "touch"}
  OBVIOUS
<1> HIDE DEF s
<1>3. s.tasks[i] \notin ShareTask
  BY <1>2 DEF ShareTask
<1>4. /\ t \in SessType /\ ButTasks(s, t) /\ SameBooks(s, t)
      /\ HandOK(t) /\ DiffOK(t) /\ OwnJobs(c, t, Latest) /\ RowsOK(t, live[c])
      /\ s.tasks[i].at # "init" => Subscribes(t)
      /\ s.tasks[i].at # "payout" => ServeOK(t, Latest)
      /\ s.tasks[i].at \notin Plain => Starts(t)
  BY <1>1, <1>3, DoneKeeps
<1> HIDE DEF t
<1>5. s.socket # "destroyed" => t.destroy = "no"
  BY <1>4 DEF HandOK, ButTasks
<1> QED
  BY <1>4, <1>5 DEF s, t

LEMMA EndHandlerQuietly ==
    ASSUME SessionsInv, NEW c \in Conns, NEW i \in DOMAIN sess[c].tasks,
           EndHandler(c, i) \/ EndSuggest(c, i)
    PROVE  Quietly(c)
<1> DEFINE s == sess[c]
           t == Done(s, i)
           v == [t EXCEPT !.used = TRUE]
<1>1. s.tasks[i].at \in {"handled", "suggest"} /\ s.socket # "destroyed"
  BY DEF EndHandler, EndSuggest, Resume, Task
<1>2. /\ t \in SessType /\ SameBooks(s, t)
      /\ HandOK(t) /\ DiffOK(t) /\ OwnJobs(c, t, Latest) /\ RowsOK(t, live[c])
      /\ Subscribes(t) /\ ServeOK(t, Latest) /\ t.destroy = "no"
  BY <1>1, PlainDone
<1>3. PICK u \in {t, v} : Go(c, HandledMessage(c, u))
  BY DEF EndHandler, EndSuggest
<1>4. UNCHANGED <<heights, blocks, live, logs>>
  BY DEF EndHandler, EndSuggest
<1> HIDE DEF t, s
<1>5. v \in SessType /\ Alike(t, v) /\ Alike(t, t)
  BY ZenonT(60), <1>2 DEF SessType, Alike, ButTasks
<1> HIDE DEF v
<1>6. u \in SessType /\ Alike(t, u)
  BY <1>2, <1>3, <1>5
<1>7. /\ SameBooks(t, u) /\ HandOK(u) /\ DiffOK(u) /\ OwnJobs(c, u, Latest) /\ RowsOK(u, live[c])
      /\ Subscribes(u) /\ ServeOK(u, Latest) /\ u.destroy = "no"
  BY <1>2, <1>6, AlikeKeeps DEF Alike, ButTasks
<1> DEFINE h == HandledMessage(c, u)
<1>8. h \in SessType /\ SessInv(c, h, Latest) /\ SameBooks(u, h) /\ RowsOK(h, live[c])
  BY <1>6, <1>7, Here, HandledOK
<1> HIDE DEF h
<1>9. SameBooks(s, h)
  BY <1>2, <1>7, <1>8, BooksTrans
<1> QED
  BY <1>3, <1>4, <1>8, <1>9, QuietlyStays DEF h, s, SessionsInv

LEMMA EndInitQuietly ==
    ASSUME SessionsInv, NEW c \in Conns, NEW i \in DOMAIN sess[c].tasks, EndInit(c, i)
    PROVE  Quietly(c)
<1> DEFINE s == sess[c]
           t == Done(s, i)
           h == Subscribed(c, t)
<1>1. s.tasks[i].at = "init" /\ s.socket # "destroyed"
  BY DEF EndInit, Resume, Task
<1>2. /\ t \in SessType /\ SameBooks(s, t) /\ ButTasks(s, t)
      /\ HandOK(t) /\ DiffOK(t) /\ OwnJobs(c, t, Latest) /\ RowsOK(t, live[c])
      /\ t.destroy = "no"
  BY <1>1, PlainDone
<1>3. t.inited
  <2>1. Waiting(s, {"init"}) /\ HandOK(s)
    BY <1>1, Here DEF Waiting
  <2> QED
    BY <1>2, <2>1 DEF HandOK, ButTasks
<1>4. Go(c, h) /\ UNCHANGED <<heights, blocks, live, logs>>
  BY DEF EndInit
<1> HIDE DEF t, s
<1>5. h \in SessType /\ SessInv(c, h, Latest) /\ SameBooks(t, h) /\ RowsOK(h, live[c])
  BY <1>2, <1>3, Here, SubscribedOK
<1> HIDE DEF h
<1>6. SameBooks(s, h)
  BY <1>2, <1>5, BooksTrans
<1> QED
  BY <1>4, <1>5, <1>6, QuietlyStays DEF s, SessionsInv

LEMMA PresenceOK ==
    ASSUME NEW c, NEW s \in SessType, NEW latest, HandOK(s), s.inited, s.destroy = "no",
           Subscribes(s), DiffOK(s), OwnJobs(c, s, latest)
    PROVE  LET p == Presence(s)
           IN  /\ p \in SessType /\ HandOK(p) /\ p.inited /\ p.destroy = "no"
               /\ Subscribes(p) /\ DiffOK(p) /\ OwnJobs(c, p, latest) /\ SameBooks(s, p)
               /\ \A rows : RowsOK(s, rows) => RowsOK(p, rows)
<1> DEFINE p == Presence(s)
           row == [s.row EXCEPT ![s.pay] = "inserting"]
           beats == [s.beats EXCEPT ![s.pay] = @ + 1]
           q == [s EXCEPT !.row = row]
           w == [s EXCEPT !.beats = beats]
<1>1. s.pay \in Identities /\ s.pay \in RowKeys /\ s.pay # Own /\ Own \in RowKeys
      /\ s.row \in [RowKeys -> RowStates]
  BY StratumV1SessionAssumption DEF HandOK, RowKeys, SessType, Own
<1>2. \/ p = s
      \/ s.row[s.pay] = "none" /\ p = q
      \/ p = w
  <2>1. /\ [s EXCEPT !.row[s.pay] = "inserting"] = q
        /\ [s EXCEPT !.beats[s.pay] = @ + 1] = w
    BY DEF SessType
  <2> QED
    BY <2>1 DEF Presence, EnsureRow
<1>3. beats \in [Identities -> Nat]
  BY <1>1 DEF SessType
<1> HIDE DEF p, w, beats
<1>4. CASE p = s
  BY <1>4, SharesSame DEF SameBooks, p
<1>5. CASE s.row[s.pay] = "none" /\ p = q
  <2>1. /\ row \in [RowKeys -> RowStates] /\ row[Own] = s.row[Own]
        /\ \A k \in RowKeys : s.row[k] = "have" => row[k] = "have"
    BY <1>1, <1>5 DEF RowStates
  <2> HIDE DEF row
  <2>2. /\ p \in SessType
        /\ p.mode = s.mode /\ p.socket = s.socket /\ p.closed = s.closed /\ p.destroy = s.destroy
        /\ p.auth = s.auth /\ p.pay = s.pay /\ p.diff = s.diff /\ p.subscribed = s.subscribed
        /\ p.suggested = s.suggested /\ p.inited = s.inited /\ p.stream = s.stream
        /\ p.hashes = s.hashes /\ p.row = row /\ p.jobs = s.jobs /\ p.made = s.made
        /\ p.waits = s.waits /\ p.told = s.told /\ p.work = s.work
        /\ p.accepted = s.accepted /\ p.late = s.late /\ p.racing = s.racing /\ p.tasks = s.tasks /\ p.beats = s.beats
    BY ZenonT(60), <1>5, <2>1 DEF SessType
  <2> HIDE DEF q
  <2>3. \A kinds : Waiting(p, kinds) = Waiting(s, kinds)
    BY <2>2 DEF Waiting
  <2>4. HandOK(p) /\ Subscribes(p) /\ DiffOK(p) /\ OwnJobs(c, p, latest)
    BY <2>1, <2>2, <2>3 DEF HandOK, Subscribes, DiffOK, OwnJobs
  <2>5. SameBooks(s, p)
    BY <2>2, SharesSame DEF SameBooks
  <2>6. ASSUME NEW rows, RowsOK(s, rows) PROVE RowsOK(p, rows)
    <3>1. \A i \in DOMAIN s.tasks : s.tasks[i] \in TouchTask => s.tasks[i].row \in RowKeys
      BY DEF TouchTask
    <3> QED
      BY <2>1, <2>2, <2>6, <3>1 DEF RowsOK
  <2> QED
    BY <2>2, <2>4, <2>5, <2>6 DEF p
<1>6. CASE p = w
  <2>1. /\ p \in SessType
        /\ p.mode = s.mode /\ p.socket = s.socket /\ p.closed = s.closed /\ p.destroy = s.destroy
        /\ p.auth = s.auth /\ p.pay = s.pay /\ p.diff = s.diff /\ p.subscribed = s.subscribed
        /\ p.suggested = s.suggested /\ p.inited = s.inited /\ p.stream = s.stream
        /\ p.hashes = s.hashes /\ p.row = s.row /\ p.jobs = s.jobs /\ p.made = s.made
        /\ p.waits = s.waits /\ p.told = s.told /\ p.work = s.work
        /\ p.accepted = s.accepted /\ p.late = s.late /\ p.racing = s.racing /\ p.tasks = s.tasks
    BY ZenonT(60), <1>3, <1>6 DEF SessType, w
  <2>2. \A kinds : Waiting(p, kinds) = Waiting(s, kinds)
    BY <2>1 DEF Waiting
  <2>3. HandOK(p) /\ Subscribes(p) /\ DiffOK(p) /\ OwnJobs(c, p, latest)
    BY <2>1, <2>2 DEF HandOK, Subscribes, DiffOK, OwnJobs
  <2>4. SameBooks(s, p)
    BY <2>1, SharesSame DEF SameBooks
  <2>5. ASSUME NEW rows, RowsOK(s, rows) PROVE RowsOK(p, rows)
    BY <2>1, <2>5 DEF RowsOK
  <2> QED
    BY <2>1, <2>3, <2>4, <2>5 DEF p
<1> QED
  BY <1>2, <1>4, <1>5, <1>6

LEMMA EndSetPayoutQuietly ==
    ASSUME SessionsInv, NEW c \in Conns, NEW i \in DOMAIN sess[c].tasks, EndSetPayout(c, i)
    PROVE  Quietly(c)
<1> DEFINE s == sess[c]
           t == Done(s, i)
<1>1. s.tasks[i].at = "payout" /\ s.socket # "destroyed"
  BY DEF EndSetPayout, Resume, Task
<1>2. /\ t \in SessType /\ SameBooks(s, t)
      /\ HandOK(t) /\ DiffOK(t) /\ OwnJobs(c, t, Latest) /\ RowsOK(t, live[c])
      /\ Subscribes(t) /\ t.destroy = "no"
  BY <1>1, PlainDone
<1>3. /\ Go(c, HandledMessage(c, IF t.inited THEN SendJob(c, Presence(t), Latest) ELSE t))
      /\ UNCHANGED <<heights, blocks, live, logs>>
  BY DEF EndSetPayout
<1> HIDE DEF t, s
<1>4. Latest \in 1..MaxTemplates /\ Latest \in Nat
  BY Here
<1>5. CASE ~t.inited
  <2> DEFINE h == HandledMessage(c, t)
  <2>1. ServeOK(t, Latest)
    BY <1>2, <1>5 DEF HandOK, ServeOK
  <2>2. h \in SessType /\ SessInv(c, h, Latest) /\ SameBooks(t, h) /\ RowsOK(h, live[c])
    BY <1>2, <1>4, <2>1, HandledOK
  <2>3. Go(c, h)
    BY <1>3, <1>5
  <2> HIDE DEF h
  <2>4. SameBooks(s, h)
    BY <1>2, <2>2, BooksTrans
  <2> QED
    BY <1>3, <2>2, <2>3, <2>4, QuietlyStays DEF s, SessionsInv
<1>6. CASE t.inited
  <2> DEFINE p == Presence(t)
             h == SendJob(c, p, Latest)
  <2>1. /\ p \in SessType /\ HandOK(p) /\ p.inited /\ p.destroy = "no"
        /\ Subscribes(p) /\ DiffOK(p) /\ OwnJobs(c, p, Latest) /\ SameBooks(t, p)
        /\ RowsOK(p, live[c])
    BY <1>2, <1>6, PresenceOK
  <2>2. Go(c, HandledMessage(c, h))
    BY <1>3, <1>6
  <2> HIDE DEF p
  <2>3. Starts(p) /\ p.pay \in Identities /\ (p.socket = "open" => p.stream \/ Waiting(p, {"init"}))
    BY <2>1 DEF Starts, HandOK, Subscribes
  <2>4. h \in SessType /\ SessInv(c, h, Latest) /\ SameBooks(p, h) /\ h.inited
    <3>1. Latest <= Latest
      BY <1>4
    <3> QED
      BY <1>4, <2>1, <2>3, <3>1, SendServes
  <2>5. RowsOK(h, live[c])
    BY <1>4, <2>1, <2>3, SendRowsOK
  <2> HIDE DEF h
  <2>6. Go(c, h)
    BY <2>2, <2>4 DEF HandledMessage
  <2>7. SameBooks(s, h)
    BY <1>2, <2>1, <2>4, BooksTrans
  <2> QED
    BY <1>3, <2>4, <2>5, <2>6, <2>7, QuietlyStays DEF s, SessionsInv
<1> QED
  BY <1>5, <1>6

LEMMA WriteFailsQuietly ==
    ASSUME SessionsInv, NEW c \in Conns, NEW i \in DOMAIN sess[c].tasks, WriteFails(c, i),
           ~Task(c, i, "replied")
    PROVE  Quietly(c)
<1> DEFINE s == sess[c]
           t == Done(s, i)
           h == Destroyed(t)
<1>1. s.tasks[i].at \in {"handled", "suggest", "payout", "init"} /\ s.socket = "destroyed"
  BY DEF WriteFails, Task
<1>2. /\ t \in SessType /\ SameBooks(s, t) /\ ButTasks(s, t)
      /\ HandOK(t) /\ DiffOK(t) /\ OwnJobs(c, t, Latest) /\ RowsOK(t, live[c])
  BY <1>1, PlainDone
<1>3. Go(c, h) /\ UNCHANGED <<heights, blocks, live, recorded, submitted, finalized>>
  BY DEF WriteFails
<1>4. dropped' = dropped
  <2>1. {k \in {i} : Task(c, k, "replied")} = {}
    OBVIOUS
  <2> QED
    BY <2>1 DEF WriteFails
<1> HIDE DEF t, s
<1>5. t.socket = "destroyed"
  BY <1>1, <1>2 DEF ButTasks
<1>6. /\ h \in SessType /\ Kept(t, h) /\ Follows(t, h)
      /\ h.socket # "open" /\ h.row = t.row /\ h.waits = t.waits
      /\ h.jobs = t.jobs /\ h.made = t.made
  BY <1>2, <1>5, DestroyedFollows
<1> HIDE DEF h
<1>7. SessInv(c, h, Latest) /\ SameBooks(t, h) /\ RowsOK(h, live[c])
  BY <1>2, <1>6, ShutOK
<1>8. SameBooks(s, h)
  BY <1>2, <1>7, BooksTrans
<1> QED
  BY <1>3, <1>4, <1>6, <1>7, <1>8, QuietlyStays DEF s, SessionsInv, logs

LEMMA TouchRowQuietly ==
    ASSUME SessionsInv, NEW c \in Conns, NEW i \in DOMAIN sess[c].tasks, TouchRow(c, i)
    PROVE  Quietly(c)
<1> DEFINE s == sess[c]
           t == Done(s, i)
           rows == live[c] \cup {s.tasks[i].row}
<1>1. s.tasks[i].at = "touch" /\ s \in SessType /\ i \in DOMAIN s.tasks /\ RowsOK(s, live[c])
      /\ live[c] \in SUBSET RowKeys
  BY Here DEF TouchRow, Task
<1>2. /\ t \in SessType /\ SameBooks(s, t) /\ ButTasks(s, t)
      /\ HandOK(t) /\ DiffOK(t) /\ OwnJobs(c, t, Latest) /\ RowsOK(t, live[c])
      /\ Subscribes(t) /\ ServeOK(t, Latest) /\ Starts(t)
  BY <1>1, PlainDone DEF Plain
<1>3. /\ sess' = [sess EXCEPT ![c] = t] /\ live' = [live EXCEPT ![c] = rows]
      /\ UNCHANGED <<heights, blocks>> /\ UNCHANGED Logs
  <2>1. live' = [live EXCEPT ![c] = @ \cup {s.tasks[i].row}]
    BY DEF TouchRow
  <2>2. live' = [live EXCEPT ![c] = rows]
    BY <2>1, Here DEF TypeInv
  <2> QED
    BY <2>2 DEF TouchRow, Go, logs, Logs
<1> HIDE DEF t, s
<1>4. s.tasks[i] \in TouchTask
  BY <1>1, TaskTyped
<1>5. s.tasks[i].row \in RowKeys /\ s.row[s.tasks[i].row] = "have" /\ RowWrites(s)
  BY <1>1, <1>4 DEF TouchTask, RowsOK, RowWrites
<1>6. rows \in SUBSET RowKeys /\ rows \subseteq {k \in RowKeys : t.row[k] = "have"}
  BY <1>1, <1>2, <1>5 DEF RowsOK, ButTasks
<1>7. t.destroy = "done" => t.racing
  BY <1>1, <1>2, <1>5 DEF RowsOK, ButTasks
<1> HIDE DEF rows
<1>8. RowsOK(t, rows)
  BY <1>2, <1>6, <1>7 DEF RowsOK
<1>9. SessInv(c, t, Latest)
  BY <1>2 DEF SessInv
<1> QED
  BY <1>2, <1>3, <1>6, <1>8, <1>9 DEF Quietly, s

(* A heartbeat: that it is under way is what racing remembers.              *)
LEMMA HeartbeatQuietly ==
    ASSUME SessionsInv, NEW c \in Conns, NEW k \in Identities, Heartbeat(c, k)
    PROVE  Quietly(c)
<1> DEFINE s == sess[c]
           beats == [s.beats EXCEPT ![k] = @ - 1]
           t == [s EXCEPT !.beats = beats]
           rows == live[c] \cup {k}
<1>1. /\ s \in SessType /\ RowsOK(s, live[c]) /\ HandOK(s) /\ Starts(s) /\ Subscribes(s)
      /\ ServeOK(s, Latest) /\ DiffOK(s) /\ OwnJobs(c, s, Latest)
      /\ s.row[k] = "have" /\ s.beats[k] # 0 /\ k \in RowKeys
      /\ live[c] \in SUBSET RowKeys /\ live \in [Conns -> SUBSET RowKeys]
  BY Here DEF Heartbeat, RowKeys, TypeInv
<1>2. [s EXCEPT !.beats[k] = @ - 1] = t
  BY <1>1 DEF SessType
<1>3. /\ sess' = [sess EXCEPT ![c] = t] /\ live' = [live EXCEPT ![c] = rows]
      /\ UNCHANGED <<heights, blocks>> /\ UNCHANGED Logs
  BY <1>1, <1>2 DEF Heartbeat, Go, logs, Logs
<1> HIDE DEF s
<1>4. beats \in [Identities -> Nat] /\ \A l \in Identities : beats[l] # 0 => s.beats[l] # 0
  BY <1>1 DEF SessType
<1> HIDE DEF beats
<1>5. /\ t \in SessType
      /\ t.mode = s.mode /\ t.socket = s.socket /\ t.closed = s.closed /\ t.destroy = s.destroy
      /\ t.auth = s.auth /\ t.pay = s.pay /\ t.diff = s.diff /\ t.subscribed = s.subscribed
      /\ t.suggested = s.suggested /\ t.inited = s.inited /\ t.stream = s.stream
      /\ t.hashes = s.hashes /\ t.row = s.row /\ t.jobs = s.jobs /\ t.made = s.made
      /\ t.waits = s.waits /\ t.told = s.told /\ t.work = s.work
      /\ t.accepted = s.accepted /\ t.late = s.late /\ t.racing = s.racing /\ t.tasks = s.tasks
      /\ t.beats = beats
  BY ZenonT(60), <1>1, <1>4 DEF SessType
<1> HIDE DEF t
<1>6. \A kinds : Waiting(t, kinds) = Waiting(s, kinds)
  BY <1>5 DEF Waiting
<1>7. HandOK(t) /\ Starts(t) /\ Subscribes(t) /\ DiffOK(t) /\ OwnJobs(c, t, Latest)
  BY <1>1, <1>5, <1>6 DEF HandOK, Starts, Subscribes, DiffOK, OwnJobs
<1>8. ServeOK(t, Latest)
  BY <1>1, <1>5, <1>6 DEF ServeOK, Served
<1>9. SameBooks(s, t)
  BY <1>5, SharesSame DEF SameBooks
<1>10. RowsOK(t, rows)
  <2>1. RowWrites(s) /\ (RowWrites(t) => RowWrites(s))
    BY <1>1 DEF RowWrites
  <2>2. s.destroy # "no" => s.racing
    BY <1>1, <2>1 DEF RowsOK
  <2>3. rows \subseteq {l \in RowKeys : t.row[l] = "have"}
    BY <1>1, <1>5 DEF RowsOK
  <2>4. t.destroy # "no" => t.racing
    BY <1>5, <2>2
  <2>5. \A i \in DOMAIN t.tasks : t.tasks[i] \in TouchTask => t.row[t.tasks[i].row] = "have"
    BY <1>1, <1>5 DEF RowsOK
  <2> QED
    BY <2>3, <2>4, <2>5 DEF RowsOK
<1>11. SessInv(c, t, Latest) /\ rows \in SUBSET RowKeys
  BY <1>1, <1>7, <1>8 DEF SessInv
<1> HIDE DEF rows
<1> QED
  BY <1>3, <1>5, <1>9, <1>10, <1>11 DEF Quietly, s

-----------------------------------------------------------------------------
(* Rows, the timer, and the end of a connection. *)

(* The own row is there or never will be; the jobs that waited go, or the   *)
(* connection.                                                              *)
LEMMA OwnRowSettled ==
    ASSUME SessionsInv, NEW c \in Conns, NEW x \in {"have", "failed"}, NEW rows,
           sess[c].row[Own] = "inserting",
           rows = live[c] \/ (x = "have" /\ rows = live[c] \cup {Own})
    PROVE  LET t == WakeJobs(c, [sess[c] EXCEPT !.row[Own] = x])
           IN  t \in SessType /\ SessInv(c, t, Latest) /\ SameBooks(sess[c], t) /\ RowsOK(t, rows)
<1> DEFINE s == sess[c]
           row == [s.row EXCEPT ![Own] = x]
           u == [s EXCEPT !.row = row]
           v == [u EXCEPT !.waits = << >>]
           t == SendJobs(c, v, s.waits)
<1>1. /\ s \in SessType /\ RowsOK(s, live[c]) /\ HandOK(s) /\ Starts(s) /\ Subscribes(s)
      /\ ServeOK(s, Latest) /\ DiffOK(s) /\ OwnJobs(c, s, Latest) /\ s.row[Own] = "inserting"
      /\ Latest \in Nat
  BY Here
<1>2. WakeJobs(c, [s EXCEPT !.row[Own] = x]) = t
  <2>1. [s EXCEPT !.row[Own] = x] = u /\ u.waits = s.waits
    BY <1>1 DEF SessType
  <2> QED
    BY <2>1 DEF WakeJobs
<1> HIDE DEF s
<1>3. /\ Own \in RowKeys /\ s.row \in [RowKeys -> RowStates] /\ row \in [RowKeys -> RowStates]
      /\ row[Own] = x /\ \A k \in RowKeys : k # Own => row[k] = s.row[k]
  BY <1>1 DEF RowKeys, SessType, RowStates
<1> HIDE DEF row
<1>4. s.inited /\ s.pay \in Identities /\ s.waits # << >> /\ s.waits \in Seq(1..MaxTemplates)
  BY <1>1 DEF HandOK, SessType
<1>5. /\ v \in SessType
      /\ v.mode = s.mode /\ v.socket = s.socket /\ v.closed = s.closed /\ v.destroy = s.destroy
      /\ v.auth = s.auth /\ v.pay = s.pay /\ v.diff = s.diff /\ v.subscribed = s.subscribed
      /\ v.suggested = s.suggested /\ v.inited = s.inited /\ v.stream = s.stream
      /\ v.hashes = s.hashes /\ v.row = row /\ v.jobs = s.jobs /\ v.made = s.made
      /\ v.waits = << >> /\ v.told = s.told /\ v.work = s.work
      /\ v.accepted = s.accepted /\ v.late = s.late /\ v.racing = s.racing /\ v.tasks = s.tasks /\ v.beats = s.beats
  <2>1. /\ u \in SessType
        /\ u.mode = s.mode /\ u.socket = s.socket /\ u.closed = s.closed /\ u.destroy = s.destroy
        /\ u.auth = s.auth /\ u.pay = s.pay /\ u.diff = s.diff /\ u.subscribed = s.subscribed
        /\ u.suggested = s.suggested /\ u.inited = s.inited /\ u.stream = s.stream
        /\ u.hashes = s.hashes /\ u.row = row /\ u.jobs = s.jobs /\ u.made = s.made
        /\ u.told = s.told /\ u.work = s.work
        /\ u.accepted = s.accepted /\ u.late = s.late /\ u.racing = s.racing /\ u.tasks = s.tasks /\ u.beats = s.beats
    BY ZenonT(60), <1>1, <1>3 DEF SessType
  <2> HIDE DEF u
  <2>2. << >> \in Seq(1..MaxTemplates)
    OBVIOUS
  <2> QED
    BY ZenonT(60), <2>1, <2>2 DEF SessType
<1> HIDE DEF u, v
<1>6. t \in SessType /\ Sends(c, v, t, s.waits)
  BY <1>4, <1>5, SendJobsEffect
<1> HIDE DEF t
<1>7. Kept(v, t) /\ Follows(v, t) /\ t.row = row /\ t.waits = << >> /\ t.tasks = s.tasks /\ t.beats = s.beats
  BY <1>3, <1>5, <1>6 DEF Sends, Kept
<1>8. \A kinds : Waiting(t, kinds) = Waiting(s, kinds)
  BY <1>7 DEF Waiting
<1>9. HandOK(t)
  BY <1>1, <1>3, <1>4, <1>5, <1>7, <1>8 DEF HandOK, Kept, Follows
<1>10. Starts(t) /\ Subscribes(t)
  BY <1>1, <1>4, <1>5, <1>7, <1>8 DEF Starts, Subscribes, Kept, Follows
<1>11. ServeOK(t, Latest)
  <2> SUFFICES ASSUME t.stream, t.socket = "open" PROVE Served(t, Latest)
    BY DEF ServeOK
  <2>1. x = "have"
    BY <1>3, <1>5, <1>6 DEF Sends
  <2>2. s.socket = "open" /\ s.stream
    BY <1>5, <1>7 DEF Follows
  <2>3. Last(s.waits) = Latest
    BY <1>1, <2>2 DEF ServeOK, Served
  <2>4. /\ t.work # << >> /\ Last(t.work).template = Last(s.waits)
        /\ Last(t.work).pay = PaysTo(s.mode, s.pay)
    BY <1>3, <1>5, <1>6, <2>1, <2>2 DEF Sends, Last
  <2>5. t.row[Own] = "have" /\ t.mode = s.mode /\ t.pay = s.pay
    BY <1>3, <1>5, <1>7, <2>1 DEF Kept
  <2> QED
    BY <2>3, <2>4, <2>5 DEF Served
<1>12. DiffOK(t)
  BY <1>1, <1>5, <1>7 DEF DiffOK, Kept, Follows
<1>13. OwnJobs(c, t, Latest)
  <2>1. ASSUME NEW j \in t.jobs PROVE j.conn = c /\ j.n <= t.made /\ j.template <= Latest
    <3>1. CASE j \in s.jobs
      <4>1. j.n \in Nat /\ s.made \in Nat /\ t.made \in Nat /\ s.made <= t.made
        BY <1>1, <1>5, <1>6, <3>1 DEF SessType, JobType, Sends
      <4> QED
        BY <1>1, <3>1, <4>1 DEF OwnJobs
    <3>2. CASE j \notin s.jobs
      BY <1>1, <1>5, <1>6, <3>2 DEF Sends, OwnJobs
    <3> QED
      BY <3>1, <3>2
  <2>2. \A i \in DOMAIN t.waits : t.waits[i] <= Latest
    BY <1>7
  <2> QED
    BY <1>1, <1>5, <1>7, <2>1, <2>2 DEF OwnJobs, Kept
<1>14. SameBooks(s, t)
  BY <1>5, <1>7, SharesSame DEF SameBooks, Kept, Follows
<1>15. RowsOK(t, rows)
  <2>1. rows \subseteq {k \in RowKeys : row[k] = "have"}
    BY <1>1, <1>3 DEF RowsOK, s
  <2>2. \A i \in DOMAIN t.tasks : t.tasks[i] \in TouchTask => t.row[t.tasks[i].row] = "have"
    <3>1. \A i \in DOMAIN s.tasks : s.tasks[i] \in TouchTask => s.tasks[i].row \in RowKeys
      BY DEF TouchTask
    <3> QED
      BY <1>1, <1>3, <1>7, <3>1 DEF RowsOK
  <2>3. s.destroy # "no" => s.racing
    BY <1>1 DEF RowsOK, RowWrites
  <2>4. t.destroy # "no" /\ ~t.racing => t.destroy = "started" /\ ~RowWrites(t)
    BY <1>5, <1>7, <2>3 DEF Follows
  <2> QED
    BY <1>7, <2>1, <2>2, <2>4 DEF RowsOK
<1> QED
  BY <1>2, <1>6, <1>9, <1>10, <1>11, <1>12, <1>13, <1>14, <1>15 DEF SessInv, s

(* Another row is there, or will be tried again.                            *)
LEMMA OtherRowSettled ==
    ASSUME SessionsInv, NEW c \in Conns, NEW k \in Identities, NEW x \in {"have", "none"}, NEW rows,
           sess[c].row[k] = "inserting",
           rows = live[c] \/ (x = "have" /\ rows = live[c] \cup {k}),
           NEW t, \/ t = [sess[c] EXCEPT !.row[k] = x]
                  \/ t = [sess[c] EXCEPT !.row[k] = x, !.beats[k] = 0]
    PROVE  t \in SessType /\ SessInv(c, t, Latest) /\ SameBooks(sess[c], t) /\ RowsOK(t, rows)
<1> DEFINE s == sess[c]
           row == [s.row EXCEPT ![k] = x]
<1>1. /\ s \in SessType /\ RowsOK(s, live[c]) /\ HandOK(s) /\ Starts(s) /\ Subscribes(s)
      /\ ServeOK(s, Latest) /\ DiffOK(s) /\ OwnJobs(c, s, Latest) /\ s.row[k] = "inserting"
  BY Here
<1>2. PICK beats \in [Identities -> Nat] :
         /\ t = [s EXCEPT !.row = row, !.beats = beats]
         /\ \A l \in Identities : beats[l] # 0 => s.beats[l] # 0
  <2>1. PICK none : none = [s.beats EXCEPT ![k] = 0]
    OBVIOUS
  <2>2. /\ s.beats \in [Identities -> Nat] /\ none \in [Identities -> Nat]
        /\ \A l \in Identities : none[l] # 0 => s.beats[l] # 0
    BY <1>1, <2>1 DEF SessType
  <2>3. /\ [s EXCEPT !.row[k] = x] = [s EXCEPT !.row = row, !.beats = s.beats]
        /\ [s EXCEPT !.row[k] = x, !.beats[k] = 0] = [s EXCEPT !.row = row, !.beats = none]
    BY <1>1, <2>1 DEF SessType
  <2> QED
    BY <2>2, <2>3
<1> HIDE DEF s
<1>3. /\ k \in RowKeys /\ k # Own /\ Own \in RowKeys
      /\ s.row \in [RowKeys -> RowStates] /\ row \in [RowKeys -> RowStates]
      /\ row[k] = x /\ \A l \in RowKeys : l # k => row[l] = s.row[l]
  <2>1. s.row \in [RowKeys -> RowStates]
    BY <1>1 DEF SessType
  <2>2. k \in RowKeys /\ k # Own /\ Own \in RowKeys
    BY StratumV1SessionAssumption DEF RowKeys, Own
  <2>3. x \in RowStates
    BY DEF RowStates
  <2> QED
    BY ONLY <2>1, <2>2, <2>3 DEF row
<1> HIDE DEF row
<1>4. /\ t \in SessType
      /\ t.mode = s.mode /\ t.socket = s.socket /\ t.closed = s.closed /\ t.destroy = s.destroy
      /\ t.auth = s.auth /\ t.pay = s.pay /\ t.diff = s.diff /\ t.subscribed = s.subscribed
      /\ t.suggested = s.suggested /\ t.inited = s.inited /\ t.stream = s.stream
      /\ t.hashes = s.hashes /\ t.row = row /\ t.jobs = s.jobs /\ t.made = s.made
      /\ t.waits = s.waits /\ t.told = s.told /\ t.work = s.work
      /\ t.accepted = s.accepted /\ t.late = s.late /\ t.racing = s.racing /\ t.tasks = s.tasks
      /\ t.beats = beats
  BY ZenonT(60), <1>1, <1>2, <1>3 DEF SessType
<1>5. \A kinds : Waiting(t, kinds) = Waiting(s, kinds)
  BY <1>4 DEF Waiting
<1>6. t.row[Own] = s.row[Own]
  BY <1>3, <1>4
<1>7. HandOK(t) /\ Starts(t) /\ Subscribes(t) /\ DiffOK(t) /\ OwnJobs(c, t, Latest)
  BY <1>1, <1>4, <1>5, <1>6 DEF HandOK, Starts, Subscribes, DiffOK, OwnJobs
<1>8. ServeOK(t, Latest)
  BY <1>1, <1>4, <1>5, <1>6 DEF ServeOK, Served
<1>9. SameBooks(s, t)
  BY <1>4, SharesSame DEF SameBooks
<1>10. RowsOK(t, rows)
  <2>1. rows \subseteq {l \in RowKeys : row[l] = "have"}
    BY <1>1, <1>3 DEF RowsOK, s
  <2>2. \A i \in DOMAIN t.tasks : t.tasks[i] \in TouchTask => t.row[t.tasks[i].row] = "have"
    <3>1. \A i \in DOMAIN s.tasks : s.tasks[i] \in TouchTask => s.tasks[i].row \in RowKeys
      BY DEF TouchTask
    <3> QED
      BY <1>1, <1>3, <1>4, <3>1 DEF RowsOK
  <2>3. RowWrites(t) => RowWrites(s)
    BY <1>2, <1>4, <1>6 DEF RowWrites
  <2>4. t.destroy = "done" => t.racing
    BY <1>1, <1>4 DEF RowsOK
  <2> QED
    BY <1>1, <1>4, <2>1, <2>2, <2>3, <2>4 DEF RowsOK
<1> QED
  BY <1>4, <1>7, <1>8, <1>9, <1>10 DEF SessInv, s

LEMMA RowQuietly ==
    ASSUME SessionsInv, NEW c \in Conns, NEW k \in RowKeys, InsertRow(c, k) \/ FailRow(c, k)
    PROVE  Quietly(c)
<1>1. /\ sess[c].row[k] = "inserting" /\ UNCHANGED <<heights, blocks>> /\ UNCHANGED Logs
      /\ live[c] \in SUBSET RowKeys /\ live \in [Conns -> SUBSET RowKeys]
  BY Here DEF InsertRow, FailRow, logs, Logs, SessionsInv, TypeInv
<1>2. PICK rows \in {live[c], live[c] \cup {k}} :
         /\ live' = [live EXCEPT ![c] = rows]
         /\ rows = live[c] \/ InsertRow(c, k)
         /\ rows = live[c] \cup {k} \/ FailRow(c, k)
  <2>1. CASE InsertRow(c, k)
    <3>1. live' = [live EXCEPT ![c] = live[c] \cup {k}]
      BY <1>1, <2>1 DEF InsertRow
    <3> QED
      BY <2>1, <3>1
  <2>2. CASE FailRow(c, k)
    <3>1. live' = [live EXCEPT ![c] = live[c]]
      BY <1>1, <2>2 DEF FailRow
    <3> QED
      BY <2>2, <3>1
  <2> QED
    BY <2>1, <2>2
<1>3. CASE k = Own
  <2>1. PICK x \in {"have", "failed"} :
           /\ Go(c, WakeJobs(c, [sess[c] EXCEPT !.row[Own] = x]))
           /\ rows = live[c] \/ (x = "have" /\ rows = live[c] \cup {Own})
    BY <1>2, <1>3 DEF InsertRow, FailRow
  <2> DEFINE t == WakeJobs(c, [sess[c] EXCEPT !.row[Own] = x])
  <2>2. t \in SessType /\ SessInv(c, t, Latest) /\ SameBooks(sess[c], t) /\ RowsOK(t, rows)
    BY <1>1, <1>3, <2>1, OwnRowSettled
  <2>3. sess' = [sess EXCEPT ![c] = t]
    BY <2>1 DEF Go
  <2> HIDE DEF t
  <2> QED
    BY <1>1, <1>2, <2>2, <2>3 DEF Quietly
<1>4. CASE k # Own
  <2>1. k \in Identities
    BY <1>4 DEF RowKeys
  <2> DEFINE had == [sess[c] EXCEPT !.row[k] = "have"]
             lost == [sess[c] EXCEPT !.row[k] = "none", !.beats[k] = 0]
  <2>2. PICK x \in {"have", "none"}, t \in {had, lost} :
           /\ Go(c, t)
           /\ t = [sess[c] EXCEPT !.row[k] = x] \/ t = [sess[c] EXCEPT !.row[k] = x, !.beats[k] = 0]
           /\ rows = live[c] \/ (x = "have" /\ rows = live[c] \cup {k})
    <3>1. CASE InsertRow(c, k)
      <4>1. Go(c, had)
        BY <1>4, <3>1 DEF InsertRow
      <4> QED
        BY <1>2, <4>1
    <3>2. CASE FailRow(c, k)
      <4>1. Go(c, lost)
        BY <1>4, <3>2 DEF FailRow
      <4>2. rows = live[c]
        BY <1>1, <1>2, <3>2 DEF FailRow
      <4> QED
        BY <4>1, <4>2
    <3> QED
      BY <3>1, <3>2
  <2>3. t \in SessType /\ SessInv(c, t, Latest) /\ SameBooks(sess[c], t) /\ RowsOK(t, rows)
    BY <1>1, <2>1, <2>2, OtherRowSettled
  <2>4. sess' = [sess EXCEPT ![c] = t]
    BY <2>2 DEF Go
  <2> QED
    BY <1>1, <1>2, <2>3, <2>4 DEF Quietly
<1> QED
  BY <1>3, <1>4

LEMMA CheckDifficultyQuietly ==
    ASSUME SessionsInv, NEW c \in Conns, CheckDifficulty(c)
    PROVE  Quietly(c)
<1> DEFINE s == sess[c]
<1>1. PICK d \in Difficulties :
         Go(c, SendJob(c, [s EXCEPT !.diff = Retarget(c, d), !.told = Retarget(c, d),
                                    !.retargets = @ + 1], Latest))
  BY DEF CheckDifficulty
<1>2. /\ s \in SessType /\ RowsOK(s, live[c]) /\ HandOK(s) /\ Starts(s) /\ Subscribes(s)
      /\ DiffOK(s) /\ OwnJobs(c, s, Latest) /\ s.stream /\ Latest \in Nat
      /\ Latest \in 1..MaxTemplates
  BY Here DEF CheckDifficulty
<1> DEFINE r == Retarget(c, d)
           n == s.retargets + 1
           u == [s EXCEPT !.diff = r, !.told = r, !.retargets = n]
           t == SendJob(c, u, Latest)
<1>3. Go(c, t) /\ UNCHANGED <<heights, blocks, live, logs>>
  BY <1>1, <1>2 DEF CheckDifficulty, SessType
<1>4. r \in Nat /\ r >= s.suggested
  <2>1. d \in Nat /\ s.suggested \in Nat
    BY <1>2, StratumV1SessionAssumption DEF SessType
  <2>2. Clamp(d) \in Nat
    BY <2>1, ClampOK
  <2>3. \E x \in {Clamp(d), s.suggested} : \A y \in {Clamp(d), s.suggested} : x >= y
    BY <2>1, <2>2
  <2> QED
    BY <2>1, <2>2, <2>3 DEF Retarget, Max
<1> HIDE DEF s, r
<1>5. n \in Nat
  BY <1>2 DEF SessType
<1> HIDE DEF n
<1>6. /\ u \in SessType
      /\ u.mode = s.mode /\ u.socket = s.socket /\ u.closed = s.closed /\ u.destroy = s.destroy
      /\ u.auth = s.auth /\ u.pay = s.pay /\ u.diff = r /\ u.subscribed = s.subscribed
      /\ u.suggested = s.suggested /\ u.inited = s.inited /\ u.stream = s.stream
      /\ u.hashes = s.hashes /\ u.row = s.row /\ u.jobs = s.jobs /\ u.made = s.made
      /\ u.waits = s.waits /\ u.told = r /\ u.work = s.work
      /\ u.accepted = s.accepted /\ u.late = s.late /\ u.racing = s.racing /\ u.tasks = s.tasks /\ u.beats = s.beats
  BY ZenonT(60), <1>2, <1>4, <1>5 DEF SessType
<1> HIDE DEF u
<1>7. \A kinds : Waiting(u, kinds) = Waiting(s, kinds)
  BY <1>6 DEF Waiting
<1>8. HandOK(u) /\ Starts(u) /\ OwnJobs(c, u, Latest) /\ u.stream
  BY <1>2, <1>6, <1>7 DEF HandOK, Starts, OwnJobs
<1>9. u.inited /\ u.destroy = "no" /\ u.pay \in Identities
  BY <1>8 DEF HandOK
<1>10. DiffOK(u)
  BY <1>4, <1>6 DEF DiffOK
<1>11. RowsOK(u, live[c]) /\ SameBooks(s, u)
  BY <1>2, <1>6, SharesSame DEF RowsOK, RowWrites, SameBooks
<1>12. t \in SessType /\ SessInv(c, t, Latest) /\ SameBooks(u, t)
  <2>1. Latest <= Latest
    BY <1>2
  <2> QED
    BY <1>2, <1>6, <1>8, <1>9, <1>10, <2>1, SendServes
<1>13. RowsOK(t, live[c])
  BY <1>2, <1>6, <1>9, <1>11, SendRowsOK
<1> HIDE DEF t
<1>14. SameBooks(s, t)
  BY <1>11, <1>12, BooksTrans
<1> QED
  BY <1>3, <1>12, <1>13, <1>14, QuietlyStays DEF s, SessionsInv

LEMMA CloseQuietly ==
    ASSUME SessionsInv, NEW c \in Conns, LoseSocket(c) \/ OnClose(c)
    PROVE  Quietly(c)
<1> DEFINE s == sess[c]
           v == [s EXCEPT !.socket = "destroyed"]
<1>1. s \in SessType /\ HandOK(s) /\ DiffOK(s) /\ OwnJobs(c, s, Latest) /\ RowsOK(s, live[c])
  BY Here
<1>2. PICK t : /\ Go(c, t) /\ UNCHANGED <<heights, blocks, live, logs>>
               /\ t = v \/ (s.socket = "destroyed" /\ t = Destroyed(s))
  BY DEF LoseSocket, OnClose
<1> HIDE DEF s
<1>3. /\ v \in SessType /\ Kept(s, v) /\ v.socket = "destroyed" /\ v.row = s.row
      /\ v.waits = s.waits /\ v.jobs = s.jobs /\ v.made = s.made /\ v.closed = s.closed
      /\ v.hashes = s.hashes /\ v.destroy = s.destroy /\ v.stream = s.stream
      /\ v.racing = s.racing
  BY ZenonT(60), <1>1 DEF SessType, Sockets, Kept
<1> HIDE DEF v
<1>4. Follows(s, v)
  BY <1>3 DEF Follows
<1>5. /\ t \in SessType /\ Kept(s, t) /\ Follows(s, t) /\ t.socket # "open" /\ t.row = s.row
      /\ t.waits = s.waits /\ t.jobs = s.jobs /\ t.made = s.made
  BY <1>1, <1>2, <1>3, <1>4, DestroyedFollows
<1>6. SessInv(c, t, Latest) /\ SameBooks(s, t) /\ RowsOK(t, live[c])
  BY <1>1, <1>5, ShutOK
<1> QED
  BY <1>2, <1>5, <1>6, QuietlyStays DEF s, SessionsInv

LEMMA EndDestroyQuietly ==
    ASSUME SessionsInv, NEW c \in Conns, EndDestroy(c)
    PROVE  Quietly(c)
<1> DEFINE s == sess[c]
           ids == {k \in RowKeys : s.row[k] = "have"}
<1>1. /\ s \in SessType /\ RowsOK(s, live[c]) /\ HandOK(s) /\ Starts(s) /\ Subscribes(s)
      /\ ServeOK(s, Latest) /\ DiffOK(s) /\ OwnJobs(c, s, Latest)
      /\ live[c] \in SUBSET RowKeys /\ live \in [Conns -> SUBSET RowKeys]
  BY Here DEF TypeInv
<1>2. s.destroy = "started" /\ PresencesSettled(s)
  BY DEF EndDestroy
<1>3. PICK gone \in {ids, {}} :
         /\ live' = [live EXCEPT ![c] = @ \ gone]
         /\ Go(c, [s EXCEPT !.destroy = "done", !.racing = @ \/ gone # ids])
  BY DEF EndDestroy
<1> DEFINE racing == s.racing \/ gone # ids
           t == [s EXCEPT !.destroy = "done", !.racing = racing]
           rows == live[c] \ gone
<1>4. Go(c, t) /\ live' = [live EXCEPT ![c] = rows]
  BY <1>1, <1>3 DEF SessType
<1> HIDE DEF s
<1>5. racing \in BOOLEAN /\ (~racing => ~s.racing /\ gone = ids)
  BY <1>1 DEF SessType
<1> HIDE DEF racing
<1>6. /\ t \in SessType
      /\ t.mode = s.mode /\ t.socket = s.socket /\ t.closed = s.closed /\ t.destroy = "done"
      /\ t.auth = s.auth /\ t.pay = s.pay /\ t.diff = s.diff /\ t.subscribed = s.subscribed
      /\ t.suggested = s.suggested /\ t.inited = s.inited /\ t.stream = s.stream
      /\ t.hashes = s.hashes /\ t.row = s.row /\ t.jobs = s.jobs /\ t.made = s.made
      /\ t.waits = s.waits /\ t.told = s.told /\ t.work = s.work
      /\ t.accepted = s.accepted /\ t.late = s.late /\ t.racing = racing /\ t.tasks = s.tasks /\ t.beats = s.beats
  BY ZenonT(60), <1>1, <1>5 DEF SessType, Ends
<1> HIDE DEF t
<1>7. \A kinds : Waiting(t, kinds) = Waiting(s, kinds)
  BY <1>6 DEF Waiting
<1>8. HandOK(t) /\ Starts(t) /\ Subscribes(t) /\ DiffOK(t) /\ OwnJobs(c, t, Latest)
  BY <1>1, <1>2, <1>6, <1>7 DEF HandOK, Starts, Subscribes, DiffOK, OwnJobs
<1>9. ServeOK(t, Latest)
  BY <1>1, <1>6, <1>7 DEF ServeOK, Served
<1>10. SameBooks(s, t)
  BY <1>6, SharesSame DEF SameBooks
<1>11. RowsOK(t, rows)
  <2>1. RowWrites(t) = RowWrites(s)
    BY <1>6 DEF RowWrites
  <2>2. ~t.racing => rows = {} /\ ~RowWrites(t) /\ \A k \in Identities : t.row[k] # "inserting"
    BY <1>1, <1>2, <1>5, <1>6, <2>1 DEF RowsOK, PresencesSettled
  <2>3. rows \subseteq {k \in RowKeys : t.row[k] = "have"}
    BY <1>1, <1>6 DEF RowsOK
  <2>4. \A i \in DOMAIN t.tasks : t.tasks[i] \in TouchTask => t.row[t.tasks[i].row] = "have"
    BY <1>1, <1>6 DEF RowsOK
  <2> QED
    BY <2>2, <2>3, <2>4 DEF RowsOK
<1>12. rows \in SUBSET RowKeys /\ UNCHANGED <<heights, blocks>> /\ UNCHANGED Logs
  BY <1>1 DEF EndDestroy, logs, Logs
<1>13. SessInv(c, t, Latest)
  BY <1>8, <1>9 DEF SessInv
<1> HIDE DEF rows
<1> QED
  BY <1>4, <1>6, <1>10, <1>11, <1>12, <1>13 DEF Quietly, s, Go

-----------------------------------------------------------------------------
(* The books. *)

(* The handlers of accepted shares that wait in s, and the shares recorded. *)
Pending(s) == {s.tasks[i] : i \in {j \in DOMAIN s.tasks : s.tasks[j] \in ShareTask}}
Booked == {recorded[k].share : k \in DOMAIN recorded}

(* An accepted share is remembered as long as it could be submitted again,   *)
(* and it is dropped, recorded or waits, never both of the last two.         *)
Books(s) ==
    /\ \A share \in s.accepted :
          \/ <<share.job, share.work>> \in s.hashes
          \/ share.job.template \notin blocks
          \/ s.closed
    /\ Single(s.tasks)
    /\ \A p \in Pending(s) : p.share \in s.accepted /\ p.share \notin Booked
    /\ \A share \in s.accepted :
          share \in dropped \/ share \in Booked \/ \E p \in Pending(s) : p.share = share
    /\ \A p \in Pending(s) :
          /\ p.at \in {"node", "save"} => p.share.work >= NetworkDifficulty
          /\ p.at = "save" => p.share \in submitted

BooksInv ==
    /\ \A c \in Conns : Books(sess[c])
    /\ CreditedOnce
    /\ \A share \in Booked : share.conn \in Conns /\ share \in sess[share.conn].accepted
    /\ FinalizedAsWorked
    /\ \A share \in submitted : share.job.template <= Latest

Inv == SessionsInv /\ BooksInv

LEMMA PendingTyped ==
    ASSUME NEW s \in SessType
    PROVE  /\ Pending(s) \subseteq ShareTask
           /\ \A p \in Pending(s) : p.share \in ShareType /\ \E i \in DOMAIN s.tasks : s.tasks[i] = p
BY DEF Pending, ShareTask

LEMMA PendingSame ==
    ASSUME NEW s, NEW t, SameShares(s.tasks, t.tasks)
    PROVE  Pending(t) = Pending(s) /\ (Single(s.tasks) => Single(t.tasks))
<1>1. ASSUME NEW p \in Pending(t) PROVE p \in Pending(s)
  BY <1>1 DEF Pending, SameShares
<1>2. ASSUME NEW p \in Pending(s) PROVE p \in Pending(t)
  BY <1>2 DEF Pending, SameShares
<1> QED
  BY <1>1, <1>2 DEF SameShares

LEMMA PendingGone ==
    ASSUME NEW s \in SessType, NEW t \in SessType, NEW i \in DOMAIN s.tasks, s.tasks[i] \in ShareTask,
           Single(s.tasks), t.tasks = RemoveAt(s.tasks, i)
    PROVE  /\ Single(t.tasks) /\ Pending(t) = Pending(s) \ {s.tasks[i]}
           /\ \A p \in Pending(s) : p.share = s.tasks[i].share => p = s.tasks[i]
<1>1. s.tasks \in Seq(TaskType)
  BY DEF SessType
<1>2. /\ DOMAIN t.tasks = 1..Len(t.tasks) /\ Len(t.tasks) \in Nat
      /\ DOMAIN s.tasks = 1..Len(s.tasks) /\ Len(s.tasks) \in Nat
  <2>1. t.tasks \in Seq(TaskType)
    BY DEF SessType
  <2> QED
    BY <1>1, <2>1, LenProperties
<1>3. /\ \A j \in DOMAIN t.tasks :
            \E k \in DOMAIN s.tasks : k # i /\ t.tasks[j] = s.tasks[k] /\ k = IF j < i THEN j ELSE j + 1
      /\ \A k \in DOMAIN s.tasks : k # i =>
            \E j \in DOMAIN t.tasks : t.tasks[j] = s.tasks[k] /\ k = IF j < i THEN j ELSE j + 1
  <2> DEFINE a == s.tasks
             b == RemoveAt(a, i)
  <2>1. a \in Seq(TaskType) /\ i \in DOMAIN a
    BY <1>1
  <2> HIDE DEF a
  <2>2. /\ \A j \in DOMAIN b :
              \E k \in DOMAIN a : k # i /\ b[j] = a[k] /\ k = IF j < i THEN j ELSE j + 1
        /\ \A k \in DOMAIN a : k # i =>
              \E j \in DOMAIN b : b[j] = a[k] /\ k = IF j < i THEN j ELSE j + 1
    BY <2>1, AfterRemove
  <2>3. t.tasks = b
    BY DEF a
  <2> HIDE DEF b
  <2> QED
    BY <2>2, <2>3 DEF a
<1>4. ASSUME NEW j \in DOMAIN t.tasks, NEW k \in DOMAIN t.tasks,
             t.tasks[j] \in ShareTask, t.tasks[k] \in ShareTask, t.tasks[j].share = t.tasks[k].share
      PROVE  j = k
  <2>1. PICK m \in DOMAIN s.tasks : t.tasks[j] = s.tasks[m] /\ m = IF j < i THEN j ELSE j + 1
    BY <1>3
  <2>2. PICK n \in DOMAIN s.tasks : t.tasks[k] = s.tasks[n] /\ n = IF k < i THEN k ELSE k + 1
    BY <1>3
  <2>3. m = n
    BY <1>4, <2>1, <2>2 DEF Single
  <2> QED
    BY <1>2, <2>1, <2>2, <2>3
<1>5. ASSUME NEW p \in Pending(t) PROVE p \in Pending(s) /\ p # s.tasks[i]
  <2>1. PICK j \in DOMAIN t.tasks : p = t.tasks[j] /\ p \in ShareTask
    BY <1>5 DEF Pending
  <2>2. PICK k \in DOMAIN s.tasks : k # i /\ p = s.tasks[k]
    BY <1>3, <2>1
  <2> QED
    BY <2>1, <2>2 DEF Pending, Single
<1>6. ASSUME NEW p \in Pending(s), p # s.tasks[i] PROVE p \in Pending(t)
  <2>1. PICK k \in DOMAIN s.tasks : p = s.tasks[k] /\ p \in ShareTask /\ k # i
    BY <1>6 DEF Pending
  <2> QED
    BY <1>3, <2>1 DEF Pending
<1>7. ASSUME NEW p \in Pending(s), p.share = s.tasks[i].share PROVE p = s.tasks[i]
  BY <1>7 DEF Pending, Single
<1> QED
  BY <1>4, <1>5, <1>6, <1>7 DEF Single

LEMMA PendingNew ==
    ASSUME NEW s \in SessType, NEW t \in SessType, NEW task \in ShareTask,
           Single(s.tasks), t.tasks = Append(s.tasks, task),
           \A p \in Pending(s) : p.share # task.share
    PROVE  Single(t.tasks) /\ Pending(t) = Pending(s) \cup {task}
<1>1. s.tasks \in Seq(TaskType) /\ task \in TaskType
  BY DEF SessType, TaskType
<1>2. /\ DOMAIN s.tasks = 1..Len(s.tasks) /\ Len(s.tasks) \in Nat
      /\ DOMAIN t.tasks = 1 .. Len(s.tasks) + 1
      /\ \A j \in DOMAIN s.tasks : t.tasks[j] = s.tasks[j]
      /\ t.tasks[Len(s.tasks) + 1] = task
  BY <1>1, AfterAppend
<1>3. \A j \in DOMAIN t.tasks : j \in DOMAIN s.tasks \/ j = Len(s.tasks) + 1
  BY <1>2
<1>4. Len(s.tasks) + 1 \in DOMAIN t.tasks /\ \A j \in DOMAIN s.tasks : j \in DOMAIN t.tasks
  BY <1>2
<1>5. \A j \in DOMAIN s.tasks : s.tasks[j] \in ShareTask => s.tasks[j].share # task.share
  BY DEF Pending
<1>6. Pending(t) = Pending(s) \cup {task}
  BY <1>2, <1>3, <1>4 DEF Pending
<1>7. Single(t.tasks)
  BY <1>2, <1>3, <1>5 DEF Single
<1> QED
  BY <1>6, <1>7

(* The handler of share task i goes on to another place.                    *)
Places == {"replied", "node", "save", "books", "record"}
Goes(s, i, at) == [s EXCEPT !.tasks[i].at = at]
ShareAt(share, at) == [at |-> at, share |-> share]

LEMMA GoesEffect ==
    ASSUME NEW s \in SessType, NEW i \in DOMAIN s.tasks, s.tasks[i] \in ShareTask,
           NEW at \in Places
    PROVE  LET t == Goes(s, i, at)
               task == ShareAt(s.tasks[i].share, at)
           IN  /\ t \in SessType /\ ButTasks(s, t) /\ task \in ShareTask
               /\ DOMAIN t.tasks = DOMAIN s.tasks /\ t.tasks[i] = task
               /\ \A j \in DOMAIN s.tasks : j # i => t.tasks[j] = s.tasks[j]
               /\ Single(s.tasks) =>
                     /\ Single(t.tasks)
                     /\ Pending(t) = (Pending(s) \ {s.tasks[i]}) \cup {task}
                     /\ \A p \in Pending(s) : p.share = s.tasks[i].share => p = s.tasks[i]
<1> DEFINE task == [at |-> at, share |-> s.tasks[i].share]
           tasks == [s.tasks EXCEPT ![i] = task]
           t == [s EXCEPT !.tasks = tasks]
<1>1. s.tasks \in Seq(TaskType) /\ task \in ShareTask /\ task.share = s.tasks[i].share
  BY DEF SessType, ShareTask, Places
<1>2. Goes(s, i, at) = t
  <2>1. [s.tasks[i] EXCEPT !.at = at] = task
    BY DEF ShareTask
  <2>2. [s EXCEPT !.tasks[i].at = at] = [s EXCEPT !.tasks = [s.tasks EXCEPT ![i] = [s.tasks[i] EXCEPT !.at = at]]]
    BY DEF SessType
  <2> QED
    BY <2>1, <2>2 DEF Goes
<1> HIDE DEF task
<1>3. /\ tasks \in Seq(TaskType) /\ DOMAIN tasks = DOMAIN s.tasks /\ tasks[i] = task
      /\ \A j \in DOMAIN s.tasks : j # i => tasks[j] = s.tasks[j]
  <2>1. task \in TaskType
    BY <1>1 DEF TaskType
  <2> QED
    BY <1>1, <2>1, ExceptSeq
<1> HIDE DEF tasks
<1>4. t \in SessType /\ ButTasks(s, t) /\ t.tasks = tasks
  BY ZenonT(60), <1>3 DEF SessType, ButTasks
<1> HIDE DEF t
<1>5. ASSUME Single(s.tasks) PROVE Single(t.tasks)
  BY <1>1, <1>3, <1>4, <1>5 DEF Single
<1>6. ASSUME Single(s.tasks)
      PROVE  /\ Pending(t) = (Pending(s) \ {s.tasks[i]}) \cup {task}
             /\ \A p \in Pending(s) : p.share = s.tasks[i].share => p = s.tasks[i]
  <2>1. \A p \in Pending(s) : p.share = s.tasks[i].share => p = s.tasks[i]
    BY <1>6 DEF Pending, Single
  <2>2. ASSUME NEW p \in Pending(t) PROVE p = task \/ (p \in Pending(s) /\ p # s.tasks[i])
    <3>1. PICK j \in DOMAIN s.tasks : p = tasks[j] /\ p \in ShareTask
      BY <1>3, <1>4, <2>2 DEF Pending
    <3>2. CASE j # i
      BY <1>3, <1>6, <3>1, <3>2 DEF Pending, Single
    <3> QED
      BY <1>3, <3>1, <3>2
  <2>3. task \in Pending(t)
    BY <1>1, <1>3, <1>4 DEF Pending
  <2>4. ASSUME NEW p \in Pending(s), p # s.tasks[i] PROVE p \in Pending(t)
    <3>1. PICK j \in DOMAIN s.tasks : p = s.tasks[j] /\ p \in ShareTask /\ j # i
      BY <2>4 DEF Pending
    <3> QED
      BY <1>3, <1>4, <3>1 DEF Pending
  <2> QED
    BY <2>1, <2>2, <2>3, <2>4
<1> QED
  BY <1>1, <1>2, <1>3, <1>4, <1>5, <1>6 DEF task, ShareAt

-----------------------------------------------------------------------------
(* A step of one session. *)

LEMMA SessionChanges ==
    ASSUME SessionsInv, NEW c \in Conns, NEW t \in SessType, sess' = [sess EXCEPT ![c] = t],
           SessInv(c, t, Latest), NEW rows \in SUBSET RowKeys, live' = [live EXCEPT ![c] = rows],
           RowsOK(t, rows), UNCHANGED <<heights, blocks>>,
           recorded' \in Seq([share : ShareType, to : {j.pay : j \in JobType}, credited : Nat]),
           dropped' \subseteq ShareType, submitted' \subseteq ShareType
    PROVE  SessionsInv' /\ sess'[c] = t /\ \A d \in Conns : d # c => sess'[d] = sess[d]
<1>1. /\ sess \in [Conns -> SessType] /\ live \in [Conns -> SUBSET RowKeys]
      /\ Latest' = Latest
  BY DEF SessionsInv, TypeInv, Latest
<1>2. sess' \in [Conns -> SessType] /\ live' \in [Conns -> SUBSET RowKeys]
  BY <1>1
<1>3. TypeInv'
  BY <1>1, <1>2 DEF SessionsInv, TypeInv
<1>4. ASSUME NEW d \in Conns PROVE SessInv(d, sess'[d], Latest') /\ RowsOK(sess'[d], live'[d])
  <2>1. CASE d = c
    BY <1>1, <2>1
  <2>2. CASE d # c
    BY <1>1, <2>2 DEF SessionsInv
  <2> QED
    BY <2>1, <2>2
<1>5. SessionsInv'
  BY <1>3, <1>4 DEF SessionsInv
<1> QED
  BY <1>1, <1>5

LEMMA QuietlyKeeps ==
    ASSUME Inv, NEW c \in Conns, Quietly(c)
    PROVE  Inv'
<1>1. PICK t \in SessType :
         /\ sess' = [sess EXCEPT ![c] = t]
         /\ SessInv(c, t, Latest) /\ SameBooks(sess[c], t)
         /\ \E rows \in SUBSET RowKeys : live' = [live EXCEPT ![c] = rows] /\ RowsOK(t, rows)
  BY DEF Quietly
<1>2. UNCHANGED <<heights, blocks>> /\ UNCHANGED <<recorded, dropped, submitted, finalized>>
  BY DEF Quietly, Logs
<1>3. /\ recorded' \in Seq([share : ShareType, to : {j.pay : j \in JobType}, credited : Nat])
      /\ dropped' \subseteq ShareType /\ submitted' \subseteq ShareType
  BY <1>2 DEF Inv, SessionsInv, TypeInv
<1>4. SessionsInv' /\ sess'[c] = t /\ \A d \in Conns : d # c => sess'[d] = sess[d]
  BY <1>1, <1>2, <1>3, SessionChanges DEF Inv
<1>5. Booked' = Booked
  BY <1>2 DEF Booked
<1>6. ASSUME NEW d \in Conns PROVE Books(sess[d])' /\ sess'[d].accepted = sess[d].accepted
  <2>1. Books(sess[d])
    BY DEF Inv, BooksInv
  <2>2. CASE d # c
    <3>1. sess'[d] = sess[d]
      BY <1>4, <2>2
    <3> QED
      BY <1>2, <1>5, <2>1, <3>1 DEF Books, Pending
  <2>3. CASE d = c
    <3> DEFINE s == sess[c]
    <3>1. Books(s) /\ SameBooks(s, t)
      BY <1>1, <2>1, <2>3
    <3> HIDE DEF s
    <3>2. Pending(t) = Pending(s) /\ Single(t.tasks)
      BY <3>1, PendingSame DEF Books, SameBooks
    <3>3. Books(t)'
      BY <1>2, <1>5, <3>1, <3>2 DEF Books, SameBooks
    <3>4. t.accepted = s.accepted
      BY <3>1 DEF SameBooks
    <3>5. Books(sess[c])'
      BY <1>4, <3>3 DEF Books, Pending
    <3> QED
      BY <1>4, <2>3, <3>4, <3>5 DEF s
  <2> QED
    BY <2>2, <2>3
<1>7. CreditedOnce' /\ FinalizedAsWorked' /\ \A share \in submitted' : share.job.template <= Latest'
  BY <1>2 DEF Inv, BooksInv, CreditedOnce, FinalizedAsWorked, HeightOf, Latest
<1>8. \A share \in Booked' : share.conn \in Conns /\ share \in sess'[share.conn].accepted
  BY <1>5, <1>6 DEF Inv, BooksInv
<1> QED
  BY <1>4, <1>6, <1>7, <1>8 DEF Inv, BooksInv

LEMMA BooksStep ==
    ASSUME Inv, NEW c \in Conns, NEW t \in SessType, Go(c, t), SessInv(c, t, Latest),
           RowsOK(t, live[c]), UNCHANGED <<heights, blocks, live>>,
           recorded' \in Seq([share : ShareType, to : {j.pay : j \in JobType}, credited : Nat]),
           dropped \subseteq dropped', dropped' \subseteq ShareType,
           submitted \subseteq submitted', submitted' \subseteq ShareType,
           sess[c].accepted \subseteq t.accepted, Books(t)',
           Booked \subseteq Booked', \A share \in Booked' \ Booked : share.conn = c /\ share \in t.accepted,
           \A share \in submitted' \ submitted : share.job.template <= Latest,
           CreditedOnce', FinalizedAsWorked'
    PROVE  Inv'
<1>1. sess' = [sess EXCEPT ![c] = t] /\ UNCHANGED <<heights, blocks>> /\ Latest' = Latest
  BY DEF Go, Latest
<1>2. live[c] \in SUBSET RowKeys /\ live' = [live EXCEPT ![c] = live[c]]
  BY DEF Inv, SessionsInv, TypeInv
<1>3. SessionsInv' /\ sess'[c] = t /\ \A d \in Conns : d # c => sess'[d] = sess[d]
  BY <1>1, <1>2, SessionChanges DEF Inv
<1>4. ASSUME NEW d \in Conns PROVE Books(sess[d])' /\ sess[d].accepted \subseteq sess'[d].accepted
  <2>1. CASE d = c
    <3>1. Books(sess[c])'
      BY <1>3 DEF Books, Pending
    <3> QED
      BY <1>3, <2>1, <3>1
  <2>2. CASE d # c
    <3>0. PICK s : s = sess[d]
      OBVIOUS
    <3>1. Books(s) /\ OwnJobs(d, s, Latest)
      BY <3>0, Here DEF Inv, BooksInv
    <3>2. sess'[d] = s
      BY <1>3, <2>2, <3>0
    <3>3. \A share \in s.accepted : share \notin Booked' \ Booked
      BY <2>2, <3>1 DEF OwnJobs
    <3>4. Books(s)'
      BY <1>1, <3>1, <3>3 DEF Books, Pending
    <3>5. Books(sess[d])'
      BY <3>2, <3>4 DEF Books, Pending
    <3> QED
      BY <3>0, <3>2, <3>5
  <2> QED
    BY <2>1, <2>2
<1>5. \A share \in Booked' : share.conn \in Conns /\ share \in sess'[share.conn].accepted
  BY <1>3, <1>4 DEF Inv, BooksInv
<1>6. \A share \in submitted' : share.job.template <= Latest'
  BY <1>1 DEF Inv, BooksInv
<1> QED
  BY <1>3, <1>4, <1>5, <1>6 DEF Inv, BooksInv

(* What the steps that leave a log alone need to know of it.                *)
LEMMA LogsHere ==
    ASSUME Inv
    PROVE  /\ recorded \in Seq([share : ShareType, to : {j.pay : j \in JobType}, credited : Nat])
           /\ dropped \subseteq ShareType /\ submitted \subseteq ShareType
           /\ CreditedOnce /\ FinalizedAsWorked
           /\ \A c \in Conns : Books(sess[c])
           /\ \A share \in Booked : share.conn \in Conns /\ share \in sess[share.conn].accepted
           /\ \A share \in submitted : share.job.template <= Latest
BY DEF Inv, SessionsInv, TypeInv, BooksInv

(* A share's handler is done. *)
LEMMA ShareDone ==
    ASSUME SessionsInv, NEW c \in Conns, NEW i \in DOMAIN sess[c].tasks,
           sess[c].tasks[i] \in ShareTask
    PROVE  LET t == Done(sess[c], i)
           IN  /\ t \in SessType /\ ButTasks(sess[c], t) /\ t.tasks = RemoveAt(sess[c].tasks, i)
               /\ SessInv(c, t, Latest) /\ RowsOK(t, live[c])
<1> DEFINE s == sess[c]
           t == Done(s, i)
<1>1. s \in SessType /\ i \in DOMAIN s.tasks /\ RowsOK(s, live[c])
      /\ HandOK(s) /\ Starts(s) /\ Subscribes(s) /\ ServeOK(s, Latest) /\ DiffOK(s)
      /\ OwnJobs(c, s, Latest)
  BY Here
<1>2. s.tasks[i].at \notin Plain /\ s.tasks[i].at # "init" /\ s.tasks[i].at # "payout"
  BY DEF ShareTask, Plain
<1> HIDE DEF s
<1>3. t \in SessType /\ ButTasks(s, t) /\ t.tasks = RemoveAt(s.tasks, i)
  BY <1>1, DoneEffect
<1>4. /\ HandOK(t) /\ DiffOK(t) /\ OwnJobs(c, t, Latest) /\ RowsOK(t, live[c])
      /\ Subscribes(t) /\ ServeOK(t, Latest) /\ Starts(t)
  BY <1>1, <1>2, DoneKeeps
<1> QED
  BY <1>3, <1>4 DEF SessInv, s

(* A share that is dropped.                                                 *)
LEMMA DropKeeps ==
    ASSUME Inv, NEW c \in Conns, NEW i \in DOMAIN sess[c].tasks, sess[c].tasks[i] \in ShareTask,
           NEW t \in SessType, Go(c, t), SessInv(c, t, Latest), SameBooks(Done(sess[c], i), t),
           RowsOK(t, live[c]), dropped' = dropped \cup {sess[c].tasks[i].share},
           UNCHANGED <<heights, blocks, live, recorded, submitted, finalized>>
    PROVE  Inv'
<1> DEFINE s == sess[c]
           u == Done(s, i)
           share == s.tasks[i].share
<1>1. s \in SessType /\ i \in DOMAIN s.tasks /\ s.tasks[i] \in ShareTask /\ Books(s)
  BY Here, LogsHere DEF Inv
<1>2. u \in SessType /\ ButTasks(s, u) /\ u.tasks = RemoveAt(s.tasks, i)
  BY ShareDone DEF Inv
<1>3. dropped' = dropped \cup {share} /\ share \in ShareType
  BY <1>1 DEF ShareTask
<1> HIDE DEF s
<1>4. Single(u.tasks) /\ Pending(u) = Pending(s) \ {s.tasks[i]}
  BY <1>1, <1>2, PendingGone DEF Books
<1>5. SameBooks(u, t)
  BY DEF s
<1> HIDE DEF u
<1>6. Single(t.tasks) /\ Pending(t) = Pending(s) \ {s.tasks[i]}
  BY <1>4, <1>5, PendingSame DEF SameBooks
<1>7. /\ t.accepted = s.accepted /\ (s.hashes \subseteq t.hashes \/ t.closed)
      /\ (s.closed => t.closed)
  BY <1>2, <1>5 DEF SameBooks, ButTasks
<1>8. Booked' = Booked /\ blocks' = blocks /\ submitted' = submitted
  BY DEF Booked
<1>9. Books(t)'
  <2>1. \A x \in t.accepted : <<x.job, x.work>> \in t.hashes \/ x.job.template \notin blocks \/ t.closed
    BY <1>1, <1>7 DEF Books
  <2>2. \A p \in Pending(t) : p.share \in t.accepted /\ p.share \notin Booked
    BY <1>1, <1>6, <1>7 DEF Books
  <2>3. \A x \in t.accepted :
           x \in dropped \cup {share} \/ x \in Booked \/ \E p \in Pending(t) : p.share = x
    BY <1>1, <1>6, <1>7 DEF Books
  <2>4. \A p \in Pending(t) :
           /\ p.at \in {"node", "save"} => p.share.work >= NetworkDifficulty
           /\ p.at = "save" => p.share \in submitted
    BY <1>1, <1>6 DEF Books
  <2>5. dropped' = dropped \cup {share}
    BY <1>3
  <2> HIDE DEF share
  <2> QED
    BY <1>6, <1>8, <2>1, <2>2, <2>3, <2>4, <2>5 DEF Books, Pending
<1>10. CreditedOnce' /\ FinalizedAsWorked'
  BY LogsHere DEF CreditedOnce, FinalizedAsWorked, HeightOf
<1>11. dropped \subseteq dropped' /\ dropped' \subseteq ShareType /\ sess[c].accepted \subseteq t.accepted
  BY <1>3, <1>7, LogsHere DEF s
<1>12. /\ recorded' \in Seq([share : ShareType, to : {j.pay : j \in JobType}, credited : Nat])
       /\ submitted' = submitted /\ submitted \subseteq ShareType
  BY LogsHere
<1> QED
  BY <1>8, <1>9, <1>10, <1>11, <1>12, BooksStep

LEMMA WriteFailsKeeps ==
    ASSUME Inv, NEW c \in Conns, NEW i \in DOMAIN sess[c].tasks, WriteFails(c, i)
    PROVE  Inv'
<1>1. CASE ~Task(c, i, "replied")
  BY <1>1, WriteFailsQuietly, QuietlyKeeps DEF Inv
<1>2. CASE Task(c, i, "replied")
  <2> DEFINE s == sess[c]
             u == Done(s, i)
             t == Destroyed(u)
  <2>1. /\ s \in SessType /\ i \in DOMAIN s.tasks /\ s.tasks[i].at = "replied"
        /\ s.socket = "destroyed"
    BY <1>2, Here DEF Inv, Task, WriteFails
  <2>2. s.tasks[i] \in ShareTask
    BY <2>1, TaskTyped
  <2>3. /\ u \in SessType /\ ButTasks(s, u) /\ SessInv(c, u, Latest) /\ RowsOK(u, live[c])
    BY <2>2, ShareDone DEF Inv
  <2>4. Go(c, t) /\ UNCHANGED <<heights, blocks, live, recorded, submitted, finalized>>
    BY DEF WriteFails
  <2>5. dropped' = dropped \cup {s.tasks[i].share}
    <3>1. {s.tasks[k].share : k \in {k \in {i} : Task(c, k, "replied")}} = {s.tasks[i].share}
      BY <1>2
    <3>2. dropped' = dropped \cup {s.tasks[k].share : k \in {k \in {i} : Task(c, k, "replied")}}
      BY DEF WriteFails
    <3> HIDE DEF s
    <3> QED
      BY <3>1, <3>2
  <2> HIDE DEF u
  <2>6. /\ t \in SessType /\ Kept(u, t) /\ Follows(u, t)
        /\ t.socket # "open" /\ t.row = u.row /\ t.waits = u.waits
        /\ t.jobs = u.jobs /\ t.made = u.made
    BY <2>1, <2>3, DestroyedFollows DEF ButTasks
  <2>7. SessInv(c, t, Latest) /\ SameBooks(u, t) /\ RowsOK(t, live[c])
    BY <2>3, <2>6, ShutOK DEF SessInv
  <2> HIDE DEF t
  <2> QED
    BY <2>2, <2>4, <2>5, <2>6, <2>7, DropKeeps DEF u
<1> QED
  BY <1>1, <1>2

LEMMA DropsKeep ==
    ASSUME Inv, NEW c \in Conns, NEW i \in DOMAIN sess[c].tasks,
           BookkeepingFails(c, i) \/ RecordFails(c, i)
    PROVE  Inv'
<1> DEFINE s == sess[c]
           u == Done(s, i)
<1>1. s \in SessType /\ i \in DOMAIN s.tasks /\ s.tasks[i].at \in {"save", "books", "record"}
  BY Here DEF Inv, Task, BookkeepingFails, RecordFails
<1>2. s.tasks[i] \in ShareTask
  BY <1>1, TaskTyped
<1>3. u \in SessType /\ SessInv(c, u, Latest) /\ RowsOK(u, live[c])
  BY <1>2, ShareDone DEF Inv
<1>4. PICK t \in {u, Ended(u)} : Go(c, t)
  BY DEF BookkeepingFails, RecordFails
<1>5. /\ dropped' = dropped \cup {s.tasks[i].share}
      /\ UNCHANGED <<heights, blocks, live, recorded, submitted, finalized>>
  BY DEF BookkeepingFails, RecordFails, ShareOf
<1> HIDE DEF u
<1>6. t \in SessType /\ SessInv(c, t, Latest) /\ SameBooks(u, t) /\ RowsOK(t, live[c])
  <2>1. CASE t = u
    BY <1>3, <2>1, SharesSame DEF SameBooks
  <2>2. CASE t = Ended(u)
    BY <1>3, <2>2, EndedEffect, ShutOK DEF SessInv
  <2> QED
    BY <2>1, <2>2
<1> QED
  BY <1>2, <1>4, <1>5, <1>6, DropKeeps DEF u

(* A share that goes on. *)
LEMMA GoesKeeps ==
    ASSUME Inv, NEW c \in Conns, NEW i \in DOMAIN sess[c].tasks, sess[c].tasks[i] \in ShareTask,
           NEW at \in Places, ShareGoes(c, i, at),
           sess[c].destroy = "no" \/ sess[c].tasks[i].at \in {"node", "save", "books"},
           at \in {"node", "save"} => ShareOf(c, i).work >= NetworkDifficulty,
           at = "save" => ShareOf(c, i) \in submitted',
           submitted' = submitted \/ submitted' = submitted \cup {ShareOf(c, i)},
           UNCHANGED <<heights, blocks, live, recorded, dropped>>, FinalizedAsWorked'
    PROVE  Inv'
<1>0. PICK s, t, share, task :
         /\ s = sess[c] /\ t = [s EXCEPT !.tasks[i].at = at]
         /\ share = s.tasks[i].share /\ task = [at |-> at, share |-> share]
  OBVIOUS
<1>1. /\ s \in SessType /\ i \in DOMAIN s.tasks /\ s.tasks[i] \in ShareTask /\ Books(s)
      /\ HandOK(s) /\ Starts(s) /\ Subscribes(s) /\ ServeOK(s, Latest) /\ DiffOK(s)
      /\ OwnJobs(c, s, Latest) /\ RowsOK(s, live[c])
  BY <1>0, Here, LogsHere DEF Inv
<1>2. s.destroy = "no" \/ s.tasks[i].at \in {"node", "save", "books"}
  BY <1>0
<1>3. /\ at \in {"node", "save"} => share.work >= NetworkDifficulty
      /\ at = "save" => share \in submitted'
      /\ submitted' = submitted \/ submitted' = submitted \cup {share}
  BY <1>0 DEF ShareOf
<1>4. Go(c, t)
  BY <1>0 DEF ShareGoes
<1>5. /\ t \in SessType /\ ButTasks(s, t) /\ task \in ShareTask
      /\ DOMAIN t.tasks = DOMAIN s.tasks /\ t.tasks[i] = task
      /\ \A j \in DOMAIN s.tasks : j # i => t.tasks[j] = s.tasks[j]
      /\ Single(t.tasks)
      /\ Pending(t) = (Pending(s) \ {s.tasks[i]}) \cup {task}
      /\ \A p \in Pending(s) : p.share = s.tasks[i].share => p = s.tasks[i]
  <2>1. LET t1 == Goes(s, i, at)
            task1 == ShareAt(s.tasks[i].share, at)
        IN  /\ t1 \in SessType /\ ButTasks(s, t1) /\ task1 \in ShareTask
            /\ DOMAIN t1.tasks = DOMAIN s.tasks /\ t1.tasks[i] = task1
            /\ \A j \in DOMAIN s.tasks : j # i => t1.tasks[j] = s.tasks[j]
            /\ Single(s.tasks) =>
                  /\ Single(t1.tasks)
                  /\ Pending(t1) = (Pending(s) \ {s.tasks[i]}) \cup {task1}
                  /\ \A p \in Pending(s) : p.share = s.tasks[i].share => p = s.tasks[i]
    BY <1>1, GoesEffect
  <2>2. Single(s.tasks)
    BY <1>1 DEF Books
  <2>3. t = Goes(s, i, at) /\ task = ShareAt(s.tasks[i].share, at)
    BY <1>0 DEF Goes, ShareAt
  <2> QED
    BY ONLY <2>1, <2>2, <2>3
<1>6. task.at = at /\ task.share = share /\ share = s.tasks[i].share /\ share \in ShareType /\ s.tasks[i] \in Pending(s)
  BY <1>0, <1>1 DEF ShareTask, Pending
<1>7. \A kinds : kinds \subseteq {"handled", "suggest", "payout", "init"} =>
          (Waiting(t, kinds) <=> Waiting(s, kinds))
  BY <1>1, <1>5, <1>6 DEF Waiting, ShareTask
<1>8. /\ Waiting(t, {"init"}) <=> Waiting(s, {"init"})
      /\ Waiting(t, {"payout"}) <=> Waiting(s, {"payout"})
      /\ Waiting(t, Plain) <=> Waiting(s, Plain)
  BY <1>7 DEF Plain
<1>9. HandOK(t) /\ Starts(t) /\ Subscribes(t) /\ DiffOK(t) /\ OwnJobs(c, t, Latest)
  BY <1>1, <1>5, <1>8 DEF HandOK, Starts, Subscribes, DiffOK, OwnJobs, ButTasks
<1>10. ServeOK(t, Latest)
  BY <1>1, <1>5, <1>8 DEF ServeOK, Served, ButTasks
<1>11. SessInv(c, t, Latest)
  BY <1>9, <1>10 DEF SessInv
<1>12. RowsOK(t, live[c])
  <2>1. ASSUME NEW j \in DOMAIN t.tasks, t.tasks[j] \in TouchTask PROVE t.row[t.tasks[j].row] = "have"
    <3>1. j # i
      BY <1>5, <2>1 DEF ShareTask, TouchTask
    <3> QED
      BY <1>1, <1>5, <2>1, <3>1 DEF RowsOK, ButTasks
  <2>2. t.destroy # "no" => t.racing
    BY <1>1, <1>2, <1>5 DEF RowsOK, RowWrites, ButTasks
  <2> QED
    BY <1>1, <1>5, <2>1, <2>2 DEF RowsOK, ButTasks
<1>13. Booked' = Booked /\ blocks' = blocks /\ dropped' = dropped
  BY DEF Booked
<1>14. Books(t)'
  <2>1. \A x \in t.accepted : <<x.job, x.work>> \in t.hashes \/ x.job.template \notin blocks \/ t.closed
    BY <1>1, <1>5 DEF Books, ButTasks
  <2>2. \A p \in Pending(t) : p.share \in t.accepted /\ p.share \notin Booked
    BY <1>1, <1>5, <1>6 DEF Books, ButTasks
  <2>3. \A x \in t.accepted :
           x \in dropped \/ x \in Booked \/ \E p \in Pending(t) : p.share = x
    <3> SUFFICES ASSUME NEW x \in s.accepted, x \notin dropped, x \notin Booked
                 PROVE  \E p \in Pending(t) : p.share = x
      BY <1>5 DEF ButTasks
    <3>1. PICK p \in Pending(s) : p.share = x
      BY <1>1 DEF Books
    <3>2. CASE p = s.tasks[i]
      BY <1>5, <1>6, <3>1, <3>2
    <3> QED
      BY <1>5, <3>1, <3>2
  <2>4. \A p \in Pending(t) :
           /\ p.at \in {"node", "save"} => p.share.work >= NetworkDifficulty
           /\ p.at = "save" => p.share \in submitted'
    BY <1>1, <1>3, <1>5, <1>6 DEF Books
  <2> QED
    BY <1>5, <1>13, <2>1, <2>2, <2>3, <2>4 DEF Books, Pending
<1>15. CreditedOnce'
  BY LogsHere DEF CreditedOnce
<1>16. sess[c].accepted \subseteq t.accepted
  BY <1>0, <1>5 DEF ButTasks
<1>17. /\ recorded' \in Seq([share : ShareType, to : {j.pay : j \in JobType}, credited : Nat])
       /\ dropped \subseteq dropped' /\ dropped' \subseteq ShareType
       /\ submitted \subseteq submitted' /\ submitted' \subseteq ShareType
  BY <1>3, <1>6, LogsHere
<1>18. \A x \in submitted' \ submitted : x.job.template <= Latest
  <2>1. share \in s.accepted
    BY <1>1, <1>6 DEF Books
  <2>2. share.job.template <= Latest
    BY <1>1, <2>1 DEF OwnJobs
  <2> QED
    BY <1>3, <2>2
<1> QED
  BY <1>4, <1>5, <1>11, <1>12, <1>13, <1>14, <1>15, <1>16, <1>17, <1>18, BooksStep

LEMMA SharesGoOn ==
    ASSUME Inv, NEW c \in Conns, NEW i \in DOMAIN sess[c].tasks,
           EndReply(c, i) \/ SubmitBlock(c, i) \/ SaveBlock(c, i) \/ EndBooks(c, i)
    PROVE  Inv'
<1>0. PICK s, share : s = sess[c] /\ share = s.tasks[i].share
  OBVIOUS
<1>1. /\ s \in SessType /\ i \in DOMAIN s.tasks /\ s.tasks[i].at \in Places /\ Books(s) /\ HandOK(s)
      /\ FinalizedAsWorked /\ ShareOf(c, i) = share
  BY <1>0, Here, LogsHere DEF Inv, Task, EndReply, Resume, SubmitBlock, SaveBlock, EndBooks, Places,
                              ShareOf
<1>2. s.tasks[i] \in ShareTask
  BY <1>1, TaskTyped DEF Places
<1>3. s.tasks[i] \in Pending(s)
  BY <1>1, <1>2 DEF Pending
<1>4. CASE EndReply(c, i)
  <2>1. PICK at \in {"node", "record"} :
           ShareGoes(c, i, at) /\ (at = "node" => share.work >= NetworkDifficulty)
    BY <1>1, <1>4 DEF EndReply
  <2>2. UNCHANGED <<heights, blocks, live, recorded, dropped, submitted, finalized>>
    BY <1>4 DEF EndReply, logs
  <2>3. s.destroy = "no"
    BY <1>0, <1>1, <1>4 DEF EndReply, Resume, HandOK
  <2>4. FinalizedAsWorked'
    BY <1>1, <2>2 DEF FinalizedAsWorked, HeightOf
  <2>5. at \in Places /\ (at \in {"node", "save"} => share.work >= NetworkDifficulty) /\ at # "save"
    BY <2>1 DEF Places
  <2> QED
    BY <1>0, <1>1, <1>2, <2>1, <2>2, <2>3, <2>4, <2>5, GoesKeeps
<1>5. CASE SubmitBlock(c, i)
  <2>1. /\ ShareGoes(c, i, "save") /\ submitted' = submitted \cup {share} /\ s.tasks[i].at = "node"
        /\ UNCHANGED <<heights, blocks, live, recorded, dropped, finalized>>
    BY <1>0, <1>1, <1>5 DEF SubmitBlock, Task
  <2>2. share.work >= NetworkDifficulty
    BY <1>0, <1>1, <1>3, <2>1 DEF Books
  <2>3. FinalizedAsWorked'
    BY <1>1, <2>1 DEF FinalizedAsWorked, HeightOf
  <2>4. "save" \in Places
    BY DEF Places
  <2> QED
    BY <1>0, <1>1, <1>2, <2>1, <2>2, <2>3, <2>4, GoesKeeps
<1>6. CASE SaveBlock(c, i)
  <2>1. /\ ShareGoes(c, i, "books") /\ s.tasks[i].at = "save"
        /\ finalized' = finalized \/ finalized' = finalized \cup {<<share.job.template, HeightOf(share)>>}
        /\ UNCHANGED <<heights, blocks, live, recorded, dropped, submitted>>
    BY <1>0, <1>1, <1>6 DEF SaveBlock, Task
  <2>2. share \in submitted /\ share.work >= NetworkDifficulty
    BY <1>0, <1>1, <1>3, <2>1 DEF Books
  <2>3. FinalizedAsWorked'
    <3> SUFFICES ASSUME NEW f \in finalized'
                 PROVE  \E x \in submitted : /\ x.work >= NetworkDifficulty
                                             /\ f = <<x.job.template, HeightOf(x)>>
      BY <2>1 DEF FinalizedAsWorked, HeightOf
    <3>1. CASE f \in finalized
      BY <1>1, <3>1 DEF FinalizedAsWorked
    <3>2. CASE f = <<share.job.template, HeightOf(share)>>
      BY <2>2, <3>2
    <3> QED
      BY <2>1, <3>1, <3>2
  <2>4. "books" \in Places
    BY DEF Places
  <2> QED
    BY <1>0, <1>1, <1>2, <2>1, <2>3, <2>4, GoesKeeps
<1>7. CASE EndBooks(c, i)
  <2>1. /\ ShareGoes(c, i, "record") /\ s.tasks[i].at = "books"
        /\ UNCHANGED <<heights, blocks, live, recorded, dropped, submitted, finalized>>
    BY <1>0, <1>1, <1>7 DEF EndBooks, Task, logs
  <2>2. FinalizedAsWorked'
    BY <1>1, <2>1 DEF FinalizedAsWorked, HeightOf
  <2>3. "record" \in Places
    BY DEF Places
  <2> QED
    BY <1>0, <1>1, <1>2, <2>1, <2>2, <2>3, GoesKeeps
<1> QED
  BY <1>4, <1>5, <1>6, <1>7

(* A share is recorded: once, as it did not wait while it was.              *)
LEMMA RecordKeeps ==
    ASSUME Inv, NEW c \in Conns, NEW i \in DOMAIN sess[c].tasks, Record(c, i)
    PROVE  Inv'
<1>0. PICK s, share, u, entry :
         /\ s = sess[c] /\ share = s.tasks[i].share /\ u = Done(s, i)
         /\ entry = [share |-> share, to |-> share.job.pay, credited |-> s.diff]
  OBVIOUS
<1>1. /\ s \in SessType /\ i \in DOMAIN s.tasks /\ Books(s) /\ RowsOK(s, live[c]) /\ HandOK(s)
      /\ s.tasks[i].at = "record" /\ s.row[Own] = "have"
  BY <1>0, Here, LogsHere DEF Inv, Task, Record
<1>2. s.tasks[i] \in ShareTask
  BY <1>1, TaskTyped
<1>3. share \in ShareType /\ s.tasks[i] \in Pending(s) /\ share.job \in JobType /\ s.diff \in Nat
  BY <1>0, <1>1, <1>2 DEF ShareTask, Pending, ShareType, SessType
<1>4. /\ u \in SessType /\ ButTasks(s, u) /\ u.tasks = RemoveAt(s.tasks, i)
      /\ SessInv(c, u, Latest) /\ RowsOK(u, live[c])
  BY <1>0, <1>2, ShareDone DEF Inv
<1>5. /\ Single(u.tasks) /\ Pending(u) = Pending(s) \ {s.tasks[i]}
      /\ \A p \in Pending(s) : p.share = share => p = s.tasks[i]
  BY <1>0, <1>1, <1>2, <1>4, PendingGone DEF Books
<1>6. PICK t \in {u, Wait(u, [at |-> "touch", row |-> Own])} : Go(c, t)
  BY <1>0 DEF Record
<1>7. /\ t \in SessType /\ ButTasks(u, t) /\ SameShares(u.tasks, t.tasks)
      /\ SessInv(c, t, Latest) /\ RowsOK(t, live[c])
  <2>1. CASE t = u
    BY <1>4, <2>1, SharesSame DEF ButTasks
  <2>2. CASE t = Wait(u, [at |-> "touch", row |-> Own])
    <3>1. PICK task : task = [at |-> "touch", row |-> Own]
      OBVIOUS
    <3>2. task \in TouchTask /\ task \in TaskType /\ task.at = "touch" /\ task.row = Own
      BY <3>1 DEF TouchTask, TaskType, RowKeys
    <3>3. t \in SessType /\ ButTasks(u, t) /\ t.tasks = Append(u.tasks, task)
      BY <1>4, <2>2, <3>1, <3>2, WaitEffect
    <3>4. SameShares(u.tasks, t.tasks)
      BY <1>4, <3>2, <3>3, SharesAfterAppend
    <3>5. \A kinds : Waiting(t, kinds) <=> Waiting(u, kinds) \/ task.at \in kinds
      BY <1>4, <3>2, <3>3, WaitingAfterAppend
    <3>6. /\ Waiting(t, {"init"}) <=> Waiting(u, {"init"})
          /\ Waiting(t, {"payout"}) <=> Waiting(u, {"payout"})
          /\ Waiting(t, Plain) <=> Waiting(u, Plain)
      BY <3>2, <3>5 DEF Plain
    <3>7. HandOK(t) /\ Starts(t) /\ Subscribes(t) /\ DiffOK(t) /\ OwnJobs(c, t, Latest)
      BY <1>4, <3>3, <3>6 DEF SessInv, HandOK, Starts, Subscribes, DiffOK, OwnJobs, ButTasks
    <3>8. ServeOK(t, Latest)
      BY <1>4, <3>3, <3>6 DEF SessInv, ServeOK, Served, ButTasks
    <3>9. RowsOK(t, live[c])
      <4>1. u.tasks \in Seq(TaskType)
        BY <1>4 DEF SessType
      <4>2. \A j \in DOMAIN t.tasks : t.tasks[j] = task \/ \E k \in DOMAIN u.tasks : t.tasks[j] = u.tasks[k]
        BY <3>2, <3>3, <4>1, AfterAppend
      <4>3. ASSUME NEW j \in DOMAIN t.tasks, t.tasks[j] \in TouchTask PROVE t.row[t.tasks[j].row] = "have"
        BY <1>1, <1>4, <3>2, <3>3, <4>2, <4>3 DEF RowsOK, ButTasks
      <4>4. t.destroy # "no" => t.racing
        <5>1. RowWrites(s)
          BY <1>1 DEF RowWrites
        <5> QED
          BY <1>1, <1>4, <3>3, <5>1 DEF RowsOK, ButTasks
      <4> QED
        BY <1>4, <3>3, <4>3, <4>4 DEF RowsOK, ButTasks
    <3> QED
      BY <3>3, <3>4, <3>7, <3>8, <3>9 DEF SessInv
  <2> QED
    BY <1>6, <2>1, <2>2
<1>8. Single(t.tasks) /\ Pending(t) = Pending(s) \ {s.tasks[i]}
  BY <1>5, <1>7, PendingSame
<1>9. /\ recorded' = Append(recorded, entry)
      /\ UNCHANGED <<heights, blocks, live, dropped, submitted, finalized>>
  BY <1>0 DEF Record, ShareOf
<1>10. share \notin Booked /\ share \in s.accepted
  BY <1>0, <1>1, <1>3 DEF Books
<1> DEFINE EntryType == [share : ShareType, to : {j.pay : j \in JobType}, credited : Nat]
<1>11. recorded \in Seq(EntryType) /\ entry \in EntryType /\ entry.share = share
  BY <1>0, <1>3, LogsHere
<1> HIDE DEF EntryType
<1>12. /\ recorded' \in Seq(EntryType) /\ Len(recorded) \in Nat
       /\ DOMAIN recorded = 1..Len(recorded) /\ DOMAIN recorded' = 1 .. Len(recorded) + 1
       /\ \A k \in DOMAIN recorded : recorded'[k] = recorded[k]
       /\ recorded'[Len(recorded) + 1] = entry
  BY <1>9, <1>11, AfterAppend
<1>13. \A k \in DOMAIN recorded' : k \in DOMAIN recorded \/ k = Len(recorded) + 1
  BY <1>12
<1>14. Booked' = Booked \cup {share}
  <2>1. Len(recorded) + 1 \in DOMAIN recorded' /\ \A k \in DOMAIN recorded : k \in DOMAIN recorded'
    BY <1>12
  <2> QED
    BY <1>11, <1>12, <1>13, <2>1 DEF Booked
<1>15. CreditedOnce'
  <2>1. \A k \in DOMAIN recorded : recorded[k].share # share
    BY <1>10 DEF Booked
  <2>2. CreditedOnce
    BY LogsHere
  <2>3. ASSUME NEW a \in DOMAIN recorded', NEW b \in DOMAIN recorded', a # b
        PROVE  recorded'[a].share # recorded'[b].share
    <3>1. CASE a \in DOMAIN recorded /\ b \in DOMAIN recorded
      BY <1>12, <2>2, <2>3, <3>1 DEF CreditedOnce
    <3>2. CASE ~(a \in DOMAIN recorded /\ b \in DOMAIN recorded)
      BY <1>11, <1>12, <1>13, <2>1, <2>3, <3>2
    <3> QED
      BY <3>1, <3>2
  <2> QED
    BY <2>3 DEF CreditedOnce
<1>16. /\ t.accepted = s.accepted /\ t.hashes = s.hashes /\ t.closed = s.closed
  BY <1>4, <1>7 DEF ButTasks
<1>17. Books(t)'
  <2>1. \A x \in t.accepted : <<x.job, x.work>> \in t.hashes \/ x.job.template \notin blocks \/ t.closed
    BY <1>1, <1>16 DEF Books
  <2>2. \A p \in Pending(t) : p.share \in t.accepted /\ p.share \notin Booked \cup {share}
    BY <1>1, <1>5, <1>8, <1>16 DEF Books
  <2>3. \A x \in t.accepted :
           x \in dropped \/ x \in Booked \cup {share} \/ \E p \in Pending(t) : p.share = x
    BY <1>0, <1>1, <1>8, <1>16 DEF Books
  <2>4. \A p \in Pending(t) :
           /\ p.at \in {"node", "save"} => p.share.work >= NetworkDifficulty
           /\ p.at = "save" => p.share \in submitted
    BY <1>1, <1>8 DEF Books
  <2> QED
    BY <1>8, <1>9, <1>14, <2>1, <2>2, <2>3, <2>4 DEF Books, Pending
<1>18. FinalizedAsWorked'
  BY <1>9, LogsHere DEF FinalizedAsWorked, HeightOf
<1>19. /\ dropped \subseteq dropped' /\ dropped' \subseteq ShareType
       /\ submitted \subseteq submitted' /\ submitted' \subseteq ShareType
       /\ submitted' \ submitted = {} /\ sess[c].accepted \subseteq t.accepted
  BY <1>0, <1>9, <1>16, LogsHere
<1>20. Booked \subseteq Booked' /\ \A x \in Booked' \ Booked : x.conn = c /\ x \in t.accepted
  <2>1. share.conn = c
    BY <1>0, <1>10, Here DEF Inv, OwnJobs
  <2> QED
    BY <1>10, <1>14, <1>16, <2>1
<1> QED
  BY <1>6, <1>7, <1>9, <1>12, <1>15, <1>17, <1>18, <1>19, <1>20, BooksStep DEF EntryType

(* A submission is accepted: it is not the one that was, as that is still   *)
(* remembered or its template is gone.                                      *)
LEMMA SubmitKeeps ==
    ASSUME Inv, NEW c \in Conns, Submit(c)
    PROVE  Inv'
<1>0. PICK s : s = sess[c]
  OBVIOUS
<1>1. /\ s \in SessType /\ Books(s) /\ RowsOK(s, live[c])
      /\ HandOK(s) /\ Starts(s) /\ Subscribes(s) /\ ServeOK(s, Latest) /\ DiffOK(s)
      /\ OwnJobs(c, s, Latest)
  BY <1>0, Here, LogsHere DEF Inv
<1>2. CASE Handle(c, Ended(s))
  BY <1>0, <1>2, EndsQuietly, QuietlyKeeps DEF Inv
<1>3. CASE s.inited /\ \E job \in s.sent \cup Registry, work \in Work : Handle(c, Submission(c, s, job, work))
  <2>1. PICK job \in s.sent \cup Registry, work \in Work : Handle(c, Submission(c, s, job, work))
    BY <1>3
  <2>2. job \in JobType /\ s.socket = "open" /\ ~s.closed /\ s.destroy = "no"
    <3>1. \A d \in Conns : sess[d].jobs \in SUBSET JobType
      BY Here DEF Inv, SessType
    <3>2. Registry \subseteq JobType
      BY <3>1 DEF Registry
    <3>3. s.sent \subseteq JobType
      BY <1>1 DEF SessType
    <3> QED
      BY <1>0, <1>1, <2>1, <3>2, <3>3 DEF Handle, CanRead, HandOK
  <2>3. PICK hash, hashes, v, share, task :
           /\ hash = {<<job, work>>} /\ hashes = s.hashes \cup hash
           /\ v = [s EXCEPT !.hashes = hashes]
           /\ share = [conn |-> c, job |-> job, work |-> work]
           /\ task = [at |-> "replied", share |-> share]
    OBVIOUS
  <2>4. /\ hash \in SUBSET (JobType \X Work) /\ hashes \in SUBSET (JobType \X Work)
        /\ share \in ShareType /\ share.conn = c /\ share.job = job /\ share.work = work
        /\ task \in ShareTask /\ task.share = share /\ task.at = "replied" /\ task \in TaskType
    BY <1>1, <2>2, <2>3 DEF SessType, ShareType, ShareTask, TaskType
  <2>5. /\ v \in SessType /\ v.hashes = hashes /\ v.accepted = s.accepted /\ v.socket = "open"
        /\ v = [s EXCEPT !.hashes = @ \cup {<<job, work>>}]
        /\ v.tasks = s.tasks /\ v.beats = s.beats
    BY ZenonT(60), <1>1, <2>2, <2>3, <2>4 DEF SessType
  <2>6. \/ Handle(c, s)
        \/ Handle(c, v)
        \/ /\ job.template \in blocks /\ <<job, work>> \notin s.hashes
           /\ Handle(c, Wait([v EXCEPT !.accepted = s.accepted \cup {share}], task))
    <3>1. [v EXCEPT !.accepted = @ \cup {share}] = [v EXCEPT !.accepted = s.accepted \cup {share}]
      BY <2>5 DEF SessType
    <3>2. [v EXCEPT !.accepted = s.accepted \cup {share}].socket = "open"
      BY <2>5 DEF SessType
    <3> QED
      BY <2>1, <2>2, <2>3, <2>5, <3>1, <3>2 DEF Submission, Written, WrittenThen
  <2>7. CASE Handle(c, s)
    <3>1. SameBooks(s, s) /\ SessInv(c, s, Latest)
      BY <1>1, SharesSame DEF SameBooks, SessInv
    <3>2. Quietly(c)
      BY <1>0, <1>1, <2>7, <3>1, HandleOK DEF Inv, SessionsInv
    <3> QED
      BY <3>2, QuietlyKeeps
  <2>8. CASE Handle(c, v)
    <3>1. v = [sess[c] EXCEPT !.hashes = @ \cup hash]
      BY <1>0, <2>3, <2>5
    <3>2. Quietly(c)
      BY <2>4, <2>8, <3>1, RefusedQuietly DEF Inv
    <3> QED
      BY <3>2, QuietlyKeeps
  <2>9. CASE /\ job.template \in blocks /\ <<job, work>> \notin s.hashes
             /\ Handle(c, Wait([v EXCEPT !.accepted = s.accepted \cup {share}], task))
    <3>1. PICK accepted, w, x, n, t :
             /\ accepted = s.accepted \cup {share} /\ w = [v EXCEPT !.accepted = accepted]
             /\ x = Wait(w, task) /\ n = x.msgs + 1 /\ t = [x EXCEPT !.msgs = n]
      OBVIOUS
    <3>2. accepted \in SUBSET ShareType
      BY <1>1, <2>4, <3>1 DEF SessType
    <3>3. /\ w \in SessType /\ w.accepted = accepted /\ w.hashes = hashes
          /\ w.mode = s.mode /\ w.socket = s.socket /\ w.closed = s.closed /\ w.destroy = s.destroy
          /\ w.subscribed = s.subscribed /\ w.auth = s.auth /\ w.pay = s.pay /\ w.diff = s.diff
          /\ w.suggested = s.suggested /\ w.inited = s.inited /\ w.stream = s.stream
          /\ w.row = s.row /\ w.jobs = s.jobs /\ w.made = s.made
          /\ w.waits = s.waits /\ w.told = s.told /\ w.work = s.work
          /\ w.late = s.late /\ w.racing = s.racing /\ w.tasks = s.tasks /\ w.beats = s.beats
      <4>1. /\ v.mode = s.mode /\ v.socket = s.socket /\ v.closed = s.closed /\ v.destroy = s.destroy
            /\ v.subscribed = s.subscribed /\ v.auth = s.auth /\ v.pay = s.pay /\ v.diff = s.diff
            /\ v.suggested = s.suggested /\ v.inited = s.inited /\ v.stream = s.stream
            /\ v.row = s.row /\ v.jobs = s.jobs /\ v.made = s.made
            /\ v.waits = s.waits /\ v.told = s.told /\ v.work = s.work
            /\ v.late = s.late /\ v.racing = s.racing /\ v.tasks = s.tasks /\ v.beats = s.beats
        BY <1>1, <2>3, <2>4 DEF SessType
      <4>2. /\ w \in SessType /\ w.accepted = accepted /\ w.hashes = v.hashes
            /\ w.mode = v.mode /\ w.socket = v.socket /\ w.closed = v.closed /\ w.destroy = v.destroy
            /\ w.subscribed = v.subscribed /\ w.auth = v.auth /\ w.pay = v.pay /\ w.diff = v.diff
            /\ w.suggested = v.suggested /\ w.inited = v.inited /\ w.stream = v.stream
            /\ w.row = v.row /\ w.jobs = v.jobs /\ w.made = v.made
            /\ w.waits = v.waits /\ w.told = v.told /\ w.work = v.work
            /\ w.late = v.late /\ w.racing = v.racing /\ w.tasks = v.tasks /\ w.beats = v.beats
        <5>1. v \in SessType /\ w = [v EXCEPT !.accepted = accepted]
          BY <2>5, <3>1
        <5> QED
          BY ONLY ZenonT(60), <3>2, <5>1 DEF SessType
      <4>3. v.hashes = hashes
        BY <2>5
      <4> QED
        BY ONLY <4>1, <4>2, <4>3
    <3>4. x \in SessType /\ ButTasks(w, x) /\ x.tasks = Append(w.tasks, task)
      BY <2>4, <3>1, <3>3, WaitEffect
    <3>5. t \in SessType /\ ButTasks(x, t) /\ t.tasks = x.tasks /\ t.beats = x.beats
      <4>1. n \in Nat
        BY <3>1, <3>4 DEF SessType
      <4>2. t = [x EXCEPT !.msgs = n] /\ x \in SessType
        BY <3>1, <3>4
      <4> QED
        BY ONLY ZenonT(60), <4>1, <4>2 DEF SessType, ButTasks
    <3>6. /\ t.accepted = accepted /\ t.hashes = hashes
          /\ t.mode = s.mode /\ t.socket = s.socket /\ t.closed = s.closed /\ t.destroy = s.destroy
          /\ t.subscribed = s.subscribed /\ t.auth = s.auth /\ t.pay = s.pay /\ t.diff = s.diff
          /\ t.suggested = s.suggested /\ t.inited = s.inited /\ t.stream = s.stream
          /\ t.row = s.row /\ t.jobs = s.jobs /\ t.made = s.made
          /\ t.waits = s.waits /\ t.told = s.told /\ t.work = s.work
          /\ t.late = s.late /\ t.racing = s.racing /\ t.tasks = Append(s.tasks, task)
      BY <3>3, <3>4, <3>5 DEF ButTasks
    <3>7. Go(c, t) /\ UNCHANGED <<heights, blocks, live, recorded, dropped, submitted, finalized>>
      <4>1. Handle(c, x)
        BY <2>9, <3>1
      <4>2. t = [x EXCEPT !.msgs = @ + 1]
        BY <3>1, <3>4 DEF SessType
      <4> QED
        BY <4>1, <4>2 DEF Handle, Go, logs
    <3>8. \A kinds : Waiting(t, kinds) <=> Waiting(s, kinds) \/ task.at \in kinds
      BY <1>1, <2>4, <3>5, <3>6, WaitingAfterAppend
    <3>9. /\ Waiting(t, {"init"}) <=> Waiting(s, {"init"})
          /\ Waiting(t, {"payout"}) <=> Waiting(s, {"payout"})
          /\ Waiting(t, Plain) <=> Waiting(s, Plain)
      BY <2>4, <3>8 DEF Plain
    <3>10. HandOK(t) /\ Starts(t) /\ Subscribes(t) /\ DiffOK(t)
      BY <1>1, <3>6, <3>9 DEF HandOK, Starts, Subscribes, DiffOK
    <3>11. ServeOK(t, Latest)
      BY <1>1, <3>6, <3>9 DEF ServeOK, Served
    <3>12. OwnJobs(c, t, Latest)
      <4>1. job.template <= Latest
        <5>1. job.template \in 1..Latest
          BY <2>9 DEF Inv, SessionsInv, TypeInv
        <5> QED
          BY <5>1, Here DEF Inv
      <4> QED
        BY <1>1, <2>4, <3>1, <3>6, <4>1 DEF OwnJobs
    <3>13. SessInv(c, t, Latest)
      BY <3>10, <3>11, <3>12 DEF SessInv
    <3>14. RowsOK(t, live[c])
      <4>1. s.tasks \in Seq(TaskType) /\ task \notin TouchTask
        BY <1>1, <2>4 DEF SessType, TouchTask
      <4>2. \A j \in DOMAIN t.tasks : t.tasks[j] = task \/ \E k \in DOMAIN s.tasks : t.tasks[j] = s.tasks[k]
        BY <2>4, <3>6, <4>1, AfterAppend
      <4>3. ASSUME NEW j \in DOMAIN t.tasks, t.tasks[j] \in TouchTask PROVE t.row[t.tasks[j].row] = "have"
        BY <1>1, <3>6, <4>1, <4>2, <4>3 DEF RowsOK
      <4> QED
        BY <1>1, <2>2, <3>6, <4>3 DEF RowsOK
    <3>15. share \notin s.accepted /\ share \notin Booked
      <4>1. share \notin s.accepted
        BY <1>1, <2>2, <2>4, <2>9 DEF Books
      <4>2. share \in Booked => share \in sess[share.conn].accepted
        BY LogsHere
      <4> QED
        BY <1>0, <2>4, <4>1, <4>2
    <3>16. Single(t.tasks) /\ Pending(t) = Pending(s) \cup {task}
      <4>1. \A p \in Pending(s) : p.share # task.share
        BY <1>1, <2>4, <3>15 DEF Books
      <4> QED
        BY <1>1, <2>4, <3>5, <3>6, <4>1, PendingNew DEF Books
    <3>17. Booked' = Booked /\ blocks' = blocks /\ dropped' = dropped /\ submitted' = submitted
      BY <3>7 DEF Booked
    <3>18. Books(t)'
      <4>1. \A y \in t.accepted : <<y.job, y.work>> \in t.hashes \/ y.job.template \notin blocks \/ t.closed
        <5>1. <<share.job, share.work>> \in hashes
          BY <2>3, <2>4
        <5>2. s.hashes \subseteq hashes
          BY <2>3
        <5> QED
          BY <1>1, <3>1, <3>6, <5>1, <5>2 DEF Books
      <4>2. \A p \in Pending(t) : p.share \in t.accepted /\ p.share \notin Booked
        BY <1>1, <2>4, <3>1, <3>6, <3>15, <3>16 DEF Books
      <4>3. \A y \in t.accepted : y \in dropped \/ y \in Booked \/ \E p \in Pending(t) : p.share = y
        BY <1>1, <2>4, <3>1, <3>6, <3>16 DEF Books
      <4>4. \A p \in Pending(t) :
               /\ p.at \in {"node", "save"} => p.share.work >= NetworkDifficulty
               /\ p.at = "save" => p.share \in submitted
        BY <1>1, <2>4, <3>16 DEF Books
      <4> QED
        BY <3>16, <3>17, <4>1, <4>2, <4>3, <4>4 DEF Books, Pending
    <3>19. CreditedOnce' /\ FinalizedAsWorked'
      BY <3>7, LogsHere DEF CreditedOnce, FinalizedAsWorked, HeightOf
    <3>20. /\ recorded' \in Seq([share : ShareType, to : {j.pay : j \in JobType}, credited : Nat])
           /\ dropped' = dropped /\ dropped \subseteq ShareType
           /\ submitted' = submitted /\ submitted \subseteq ShareType
           /\ sess[c].accepted \subseteq t.accepted
      BY <1>0, <3>1, <3>6, <3>7, LogsHere
    <3> QED
      BY <3>5, <3>7, <3>13, <3>14, <3>17, <3>18, <3>19, <3>20, BooksStep
  <2> QED
    BY <2>6, <2>7, <2>8, <2>9
<1> QED
  BY <1>0, <1>2, <1>3 DEF Submit

-----------------------------------------------------------------------------
(* A template reaches every session. *)

LEMMA OnTemplateOK ==
    ASSUME SessionsInv, NEW c \in Conns, NEW jobs \in SUBSET sess[c].jobs,
           NEW template \in 1..MaxTemplates, template = Latest + 1, NEW clear \in BOOLEAN
    PROVE  LET s == sess[c]
               t == OnTemplate(c, [s EXCEPT !.jobs = jobs], template, clear)
           IN  /\ t \in SessType /\ SessInv(c, t, template) /\ RowsOK(t, live[c])
               /\ t.accepted = s.accepted /\ SameShares(s.tasks, t.tasks)
               /\ s.hashes \subseteq t.hashes \/ t.closed \/ clear
               /\ s.closed => t.closed
<1>0. PICK s, hashes, v, w, t :
         /\ s = sess[c] /\ v = [s EXCEPT !.jobs = jobs]
         /\ hashes = (IF clear THEN {} ELSE s.hashes) /\ w = [v EXCEPT !.hashes = hashes]
         /\ t = OnTemplate(c, v, template, clear)
  OBVIOUS
<1>1. /\ s \in SessType /\ RowsOK(s, live[c]) /\ Latest \in Nat
      /\ HandOK(s) /\ Starts(s) /\ Subscribes(s) /\ ServeOK(s, Latest) /\ DiffOK(s)
      /\ OwnJobs(c, s, Latest)
  BY <1>0, Here
<1>2. jobs \in SUBSET JobType /\ jobs \subseteq s.jobs
  BY <1>0, <1>1 DEF SessType
<1>3. /\ v \in SessType /\ v.hashes = s.hashes /\ v.accepted = s.accepted
      /\ v.mode = s.mode /\ v.socket = s.socket /\ v.closed = s.closed /\ v.destroy = s.destroy
      /\ v.subscribed = s.subscribed /\ v.auth = s.auth /\ v.pay = s.pay /\ v.diff = s.diff
      /\ v.suggested = s.suggested /\ v.inited = s.inited /\ v.stream = s.stream
      /\ v.row = s.row /\ v.jobs = jobs /\ v.made = s.made
      /\ v.waits = s.waits /\ v.told = s.told /\ v.work = s.work
      /\ v.late = s.late /\ v.racing = s.racing /\ v.tasks = s.tasks /\ v.beats = s.beats
  <2>1. v = [s EXCEPT !.jobs = jobs]
    BY <1>0
  <2> QED
    BY ONLY ZenonT(60), <1>1, <1>2, <2>1 DEF SessType
<1>4. \A kinds : Waiting(v, kinds) = Waiting(s, kinds)
  BY <1>3 DEF Waiting
<1>5. HandOK(v) /\ Starts(v) /\ Subscribes(v) /\ DiffOK(v)
  BY <1>1, <1>3, <1>4 DEF HandOK, Starts, Subscribes, DiffOK
<1>6. OwnJobs(c, v, Latest)
  BY <1>1, <1>2, <1>3 DEF OwnJobs
<1>7. RowsOK(v, live[c])
  BY <1>1, <1>3 DEF RowsOK, RowWrites
<1>8. CASE ~s.stream
  <2>1. t = v
    BY <1>0, <1>3, <1>8 DEF OnTemplate
  <2>2. ServeOK(v, template)
    BY <1>3, <1>8 DEF ServeOK
  <2>3. OwnJobs(c, v, template)
    <3>1. \A j \in v.jobs : j.template \in Nat
      BY <1>2, <1>3 DEF JobType
    <3>2. \A i \in DOMAIN v.waits : v.waits[i] \in Nat
      <4>1. v.waits \in Seq(1..MaxTemplates)
        BY <1>3 DEF SessType
      <4>2. \A i \in DOMAIN v.waits : v.waits[i] \in 1..MaxTemplates
        BY <4>1, ElementOfSeq, LenProperties
      <4> QED
        BY <4>2
    <3>3. \A share \in v.accepted : share.job.template \in Nat
      BY <1>3 DEF SessType, ShareType, JobType
    <3> QED
      BY <1>1, <1>6, <3>1, <3>2, <3>3 DEF OwnJobs
  <2>4. SessInv(c, v, template)
    BY <1>5, <2>2, <2>3 DEF SessInv
  <2> QED
    BY ZenonT(60), <1>0, <1>3, <1>7, <2>1, <2>4, SharesSame
<1>9. CASE s.stream
  <2>1. t = SendJob(c, w, template)
    <3>1. [v EXCEPT !.hashes = IF clear THEN {} ELSE @] = w
      BY <1>0, <1>3 DEF SessType
    <3> QED
      BY <1>0, <1>3, <1>9, <3>1 DEF OnTemplate
  <2>2. hashes \in SUBSET (JobType \X Work)
    BY <1>0, <1>1 DEF SessType
  <2>3. /\ w \in SessType /\ w.hashes = hashes /\ w.accepted = v.accepted
        /\ w.mode = v.mode /\ w.socket = v.socket /\ w.closed = v.closed /\ w.destroy = v.destroy
        /\ w.subscribed = v.subscribed /\ w.auth = v.auth /\ w.pay = v.pay /\ w.diff = v.diff
        /\ w.suggested = v.suggested /\ w.inited = v.inited /\ w.stream = v.stream
        /\ w.row = v.row /\ w.jobs = v.jobs /\ w.made = v.made
        /\ w.waits = v.waits /\ w.told = v.told /\ w.work = v.work
        /\ w.late = v.late /\ w.racing = v.racing /\ w.tasks = v.tasks /\ w.beats = v.beats
    <3>1. w = [v EXCEPT !.hashes = hashes]
      BY <1>0
    <3> QED
      BY ONLY ZenonT(60), <1>3, <2>2, <3>1 DEF SessType
  <2>4. \A kinds : Waiting(w, kinds) = Waiting(v, kinds)
    BY <2>3 DEF Waiting
  <2>5. HandOK(w) /\ Starts(w) /\ DiffOK(w) /\ OwnJobs(c, w, Latest)
    BY <1>5, <1>6, <2>3, <2>4 DEF HandOK, Starts, DiffOK, OwnJobs
  <2>6. w.stream /\ w.inited /\ w.destroy = "no" /\ w.pay \in Identities
    BY <1>3, <1>9, <2>3, <2>5 DEF HandOK
  <2>7. RowsOK(w, live[c])
    BY <1>7, <2>3 DEF RowsOK, RowWrites
  <2>8. t \in SessType /\ SessInv(c, t, template) /\ SameBooks(w, t)
    <3>1. Latest <= template
      BY <1>1
    <3> QED
      BY <1>1, <2>1, <2>3, <2>5, <2>6, <3>1, SendServes
  <2>9. RowsOK(t, live[c])
    BY <2>1, <2>3, <2>6, <2>7, SendRowsOK
  <2>10. t.accepted = s.accepted /\ (s.closed => t.closed)
         /\ (s.hashes \subseteq t.hashes \/ t.closed \/ clear)
    BY <1>0, <1>3, <2>3, <2>8 DEF SameBooks
  <2>11. SameShares(s.tasks, t.tasks)
    BY <1>3, <2>3, <2>8 DEF SameBooks
  <2> QED
    BY <1>0, <2>8, <2>9, <2>10, <2>11
<1> QED
  BY <1>8, <1>9

LEMMA EmitKeeps ==
    ASSUME Inv, NEW height \in {heights[Latest], heights[Latest] + 1}, NEW clear \in BOOLEAN,
           NEW old \in 0..Latest, EmitTemplate(height, clear, old)
    PROVE  Inv'
<1>0. PICK template : template = Latest + 1
  OBVIOUS
<1>1. /\ sess \in [Conns -> SessType] /\ heights \in Seq(Nat) /\ Latest \in 1..MaxTemplates
      /\ blocks \subseteq 1..Latest /\ live \in [Conns -> SUBSET RowKeys] /\ Latest \in Nat
  BY StratumV1SessionAssumption DEF Inv, SessionsInv, TypeInv
<1>2. height \in Nat
  <2>1. heights[Latest] \in Nat
    BY <1>1, ElementOfSeq, LenProperties DEF Latest
  <2> QED
    BY <2>1
<1>3. template \in 1..MaxTemplates
  BY <1>0, <1>1, StratumV1SessionAssumption DEF EmitTemplate
<1>4. /\ heights' \in Seq(Nat) /\ Latest' = template
      /\ \A i \in 1..Latest : heights'[i] = heights[i]
  <2>1. heights' = Append(heights, height)
    BY DEF EmitTemplate
  <2> QED
    BY <1>0, <1>1, <1>2, <2>1, AfterAppend DEF Latest
<1>5. /\ blocks' \subseteq blocks \cup {template} /\ (clear => blocks' = {template})
      /\ blocks' \subseteq 1..template
  <2>1. blocks' = {t \in blocks : ~clear /\ t > old} \cup {template}
    BY <1>0 DEF EmitTemplate
  <2>2. template \in 1..template /\ \A t \in blocks : t \in 1..template
    BY <1>0, <1>1
  <2>3. clear => {t \in blocks : ~clear /\ t > old} = {}
    OBVIOUS
  <2>4. {t \in blocks : ~clear /\ t > old} \subseteq blocks
    OBVIOUS
  <2> QED
    BY <2>1, <2>2, <2>3, <2>4
<1>6. UNCHANGED <<live, recorded, dropped, submitted, finalized>>
  BY DEF EmitTemplate, logs
<1> DEFINE Keep(s) == {j \in s.jobs : ~clear /\ j.template > old}
           To(c) == OnTemplate(c, [sess[c] EXCEPT !.jobs = Keep(sess[c])], template, clear)
<1>7. sess' = [c \in Conns |-> To(c)]
  BY <1>0 DEF EmitTemplate
<1>8. ASSUME NEW c \in Conns
      PROVE  /\ To(c) \in SessType /\ SessInv(c, To(c), template) /\ RowsOK(To(c), live[c])
             /\ To(c).accepted = sess[c].accepted /\ SameShares(sess[c].tasks, To(c).tasks)
             /\ sess[c].hashes \subseteq To(c).hashes \/ To(c).closed \/ clear
             /\ sess[c].closed => To(c).closed
  <2>1. PICK jobs : jobs = Keep(sess[c])
    OBVIOUS
  <2>2. jobs \in SUBSET sess[c].jobs
    BY <2>1
  <2>3. To(c) = OnTemplate(c, [sess[c] EXCEPT !.jobs = jobs], template, clear)
    BY <2>1
  <2> HIDE DEF To
  <2>4. LET s == sess[c]
            t == OnTemplate(c, [s EXCEPT !.jobs = jobs], template, clear)
        IN  /\ t \in SessType /\ SessInv(c, t, template) /\ RowsOK(t, live[c])
            /\ t.accepted = s.accepted /\ SameShares(s.tasks, t.tasks)
            /\ s.hashes \subseteq t.hashes \/ t.closed \/ clear
            /\ s.closed => t.closed
    <3>1. SessionsInv /\ template = Latest + 1 /\ clear \in BOOLEAN
      BY <1>0 DEF Inv
    <3> QED
      BY ONLY <1>3, <2>2, <3>1, OnTemplateOK
  <2> QED
    BY ONLY <2>3, <2>4
<1> HIDE DEF Keep, To
<1>9. \A c \in Conns : sess'[c] = To(c)
  BY <1>7
<1>10. SessionsInv'
  <2>1. sess' \in [Conns -> SessType]
    BY <1>7, <1>8
  <2>2. TypeInv'
    BY <1>1, <1>3, <1>4, <1>5, <1>6, <2>1 DEF Inv, SessionsInv, TypeInv
  <2>3. \A c \in Conns : SessInv(c, sess'[c], Latest') /\ RowsOK(sess'[c], live'[c])
    BY <1>4, <1>6, <1>8, <1>9
  <2> QED
    BY <2>2, <2>3 DEF SessionsInv
<1>11. Booked' = Booked
  BY <1>6 DEF Booked
<1>12. ASSUME NEW c \in Conns PROVE Books(sess[c])'
  <2>1. PICK s, t : s = sess[c] /\ t = To(c)
    OBVIOUS
  <2>2. /\ Books(s) /\ OwnJobs(c, s, Latest) /\ s \in SessType
        /\ t.accepted = s.accepted /\ SameShares(s.tasks, t.tasks)
        /\ s.hashes \subseteq t.hashes \/ t.closed \/ clear
        /\ s.closed => t.closed
    BY <1>8, <2>1, Here, LogsHere DEF Inv
  <2>3. Pending(t) = Pending(s) /\ Single(t.tasks)
    BY <2>2, PendingSame DEF Books
  <2>4. ASSUME NEW share \in t.accepted
        PROVE  <<share.job, share.work>> \in t.hashes \/ share.job.template \notin blocks' \/ t.closed
    <3>1. share.job.template # template
      <4>1. share.job.template \in Nat /\ share.job.template <= Latest
        BY <2>2, <2>4 DEF SessType, ShareType, JobType, OwnJobs
      <4> QED
        BY <1>0, <1>1, <4>1
    <3>2. \/ <<share.job, share.work>> \in s.hashes
          \/ share.job.template \notin blocks
          \/ s.closed
      BY <2>2, <2>4 DEF Books
    <3> QED
      BY <1>5, <2>2, <3>1, <3>2
  <2>5. Books(t)'
    BY <1>6, <1>11, <2>2, <2>3, <2>4 DEF Books, Pending
  <2>6. sess'[c] = t
    BY <1>9, <2>1
  <2> QED
    BY <2>5, <2>6 DEF Books, Pending
<1>13. CreditedOnce'
  BY <1>6, LogsHere DEF CreditedOnce
<1>14. \A share \in Booked' : share.conn \in Conns /\ share \in sess'[share.conn].accepted
  BY <1>8, <1>9, <1>11, LogsHere
<1>15. \A share \in submitted : share.job.template \in 1..Latest
  <2>1. \A share \in submitted : share.job.template \in Nat \ {0}
    BY LogsHere DEF ShareType, JobType
  <2> QED
    BY <1>1, <2>1, LogsHere
<1>16. \A share \in submitted' : share.job.template <= Latest'
  BY <1>0, <1>1, <1>4, <1>6, <1>15
<1>17. FinalizedAsWorked'
  <2> SUFFICES ASSUME NEW f \in finalized
               PROVE  \E share \in submitted :
                         /\ share.work >= NetworkDifficulty
                         /\ f = <<share.job.template, heights'[share.job.template]>>
    BY <1>6 DEF FinalizedAsWorked, HeightOf
  <2>1. PICK share \in submitted : /\ share.work >= NetworkDifficulty
                                   /\ f = <<share.job.template, heights[share.job.template]>>
    BY LogsHere DEF FinalizedAsWorked, HeightOf
  <2>2. heights'[share.job.template] = heights[share.job.template]
    BY <1>4, <1>15
  <2> QED
    BY <2>1, <2>2
<1> QED
  BY <1>10, <1>12, <1>13, <1>14, <1>16, <1>17 DEF Inv, BooksInv

-----------------------------------------------------------------------------
LEMMA NewSessionOK ==
    ASSUME NEW c \in Conns, NEW mode \in PayoutModes
    PROVE  LET s == NewSession(mode)
           IN  /\ s \in SessType /\ SessInv(c, s, 1) /\ RowsOK(s, {})
               /\ s.accepted = {} /\ s.tasks = << >>
<1>0. PICK s : s = NewSession(mode)
  OBVIOUS
<1>1. /\ StartDifficulty \in Nat /\ NoIdentity \in RowKeys /\ 0 \in Nat
      /\ [k \in RowKeys |-> "none"] \in [RowKeys -> RowStates]
      /\ << >> \in Seq(TaskType) /\ << >> \in Seq(1..MaxTemplates) /\ << >> \in Seq(JobType)
  BY StratumV1SessionAssumption DEF RowKeys, RowStates, Own
<1>2. s \in SessType
  BY <1>0, <1>1 DEF NewSession, SessType, Sockets, Ends
<1>3. /\ s.socket = "open" /\ s.destroy = "no" /\ s.auth = NoIdentity /\ s.inited = FALSE
      /\ s.stream = FALSE /\ s.subscribed = FALSE /\ s.row = [k \in RowKeys |-> "none"]
      /\ s.jobs = {} /\ s.waits = << >> /\ s.tasks = << >> /\ s.accepted = {}
      /\ s.suggested = 0 /\ s.diff = StartDifficulty /\ s.closed = FALSE
  BY <1>0 DEF NewSession
<1>4. DOMAIN s.tasks = {} /\ DOMAIN s.waits = {} /\ s.row[Own] = "none"
  BY <1>1, <1>3 DEF RowKeys
<1>5. HandOK(s) /\ Starts(s) /\ Subscribes(s)
  BY <1>3, <1>4 DEF HandOK, Starts, Subscribes, Waiting
<1>6. ServeOK(s, 1) /\ DiffOK(s) /\ OwnJobs(c, s, 1)
  BY <1>1, <1>3, <1>4 DEF ServeOK, DiffOK, OwnJobs
<1>7. RowsOK(s, {})
  BY <1>3, <1>4 DEF RowsOK
<1> QED
  BY <1>0, <1>2, <1>3, <1>5, <1>6, <1>7 DEF SessInv

LEMMA InvHolds == Spec => []Inv
<1>1. Init => Inv
  <2> SUFFICES ASSUME Init PROVE Inv
    OBVIOUS
  <2>1. PICK mode \in [Conns -> PayoutModes] : sess = [c \in Conns |-> NewSession(mode[c])]
    BY DEF Init
  <2>2. ASSUME NEW c \in Conns
        PROVE  /\ sess[c] \in SessType /\ SessInv(c, sess[c], 1) /\ RowsOK(sess[c], {})
               /\ sess[c].accepted = {} /\ sess[c].tasks = << >>
    <3>1. mode[c] \in PayoutModes /\ sess[c] = NewSession(mode[c])
      BY <2>1
    <3> QED
      BY <3>1, NewSessionOK
  <2>3. /\ heights = <<1>> /\ Latest = 1 /\ blocks = {1} /\ live = [c \in Conns |-> {}]
        /\ recorded = << >> /\ dropped = {} /\ submitted = {} /\ finalized = {}
    BY DEF Init, Latest
  <2>4. TypeInv
    <3>1. heights \in Seq(Nat) /\ Latest \in 1..MaxTemplates /\ blocks \subseteq 1..Latest
      BY <2>3, StratumV1SessionAssumption
    <3>2. sess \in [Conns -> SessType]
      BY <2>1, <2>2
    <3>3. recorded \in Seq([share : ShareType, to : {j.pay : j \in JobType}, credited : Nat])
      BY <2>3
    <3> QED
      BY <2>3, <3>1, <3>2, <3>3 DEF TypeInv
  <2>5. SessionsInv
    BY <2>2, <2>3, <2>4 DEF SessionsInv
  <2>6. DOMAIN recorded = {} /\ Booked = {}
    BY <2>3 DEF Booked
  <2>7. ASSUME NEW c \in Conns PROVE Books(sess[c])
    <3>1. DOMAIN sess[c].tasks = {} /\ Pending(sess[c]) = {} /\ sess[c].accepted = {}
      BY <2>2 DEF Pending
    <3> QED
      BY <3>1 DEF Books, Single
  <2> QED
    BY <2>3, <2>5, <2>6, <2>7 DEF Inv, BooksInv, CreditedOnce, FinalizedAsWorked
<1>2. Inv /\ [Next]_vars => Inv'
  <2> SUFFICES ASSUME Inv, [Next]_vars PROVE Inv'
    OBVIOUS
  <2>1. SessionsInv
    BY DEF Inv
  <2>2. ASSUME NEW c \in Conns, Receive(c) PROVE Inv'
    <3>1. CASE Submit(c)
      BY <3>1, SubmitKeeps
    <3>2. CASE ~Submit(c)
      <4>1. CASE Subscribe(c) \/ AnswerOnly(c)
        BY <2>1, <4>1, SubscribeQuietly, QuietlyKeeps
      <4>2. CASE SubscribeBlocked(c) \/ BadLine(c) \/ BadSubmit(c)
        BY <2>1, <4>2, EndsQuietly, QuietlyKeeps DEF SubscribeBlocked, BadLine, BadSubmit
      <4>3. CASE \E identity \in Accounts, d \in Difficulties \cup {0} : Authorize(c, identity, d)
        BY <2>1, <4>3, AuthorizeQuietly, QuietlyKeeps
      <4>4. CASE \E d \in Difficulties : Suggest(c, d)
        BY <2>1, <4>4, SuggestQuietly, QuietlyKeeps
      <4>5. CASE \E identity \in Identities : SetPayout(c, identity)
        BY <2>1, <4>5, SetPayoutQuietly, QuietlyKeeps
      <4> QED
        BY <2>2, <3>2, <4>1, <4>2, <4>3, <4>4, <4>5 DEF Receive
    <3> QED
      BY <3>1, <3>2
  <2>3. ASSUME NEW c \in Conns, NEW i \in DOMAIN sess[c].tasks, Continue(c, i) PROVE Inv'
    <3>1. CASE WriteFails(c, i)
      BY <3>1, WriteFailsKeeps
    <3>2. CASE EndHandler(c, i) \/ EndSuggest(c, i)
      BY <2>1, <3>2, EndHandlerQuietly, QuietlyKeeps
    <3>3. CASE EndSetPayout(c, i)
      BY <2>1, <3>3, EndSetPayoutQuietly, QuietlyKeeps
    <3>4. CASE EndInit(c, i)
      BY <2>1, <3>4, EndInitQuietly, QuietlyKeeps
    <3>5. CASE TouchRow(c, i)
      BY <2>1, <3>5, TouchRowQuietly, QuietlyKeeps
    <3>6. CASE EndReply(c, i) \/ SubmitBlock(c, i) \/ SaveBlock(c, i) \/ EndBooks(c, i)
      BY <3>6, SharesGoOn
    <3>7. CASE BookkeepingFails(c, i) \/ RecordFails(c, i)
      BY <3>7, DropsKeep
    <3>8. CASE Record(c, i)
      BY <3>8, RecordKeeps
    <3> QED
      BY <2>3, <3>1, <3>2, <3>3, <3>4, <3>5, <3>6, <3>7, <3>8 DEF Continue
  <2>4. ASSUME NEW c \in Conns,
               AnyRow(c) \/ CheckDifficulty(c) \/ LoseSocket(c) \/ OnClose(c) \/ EndDestroy(c)
        PROVE  Inv'
    <3>1. CASE AnyRow(c)
      BY <2>1, <3>1, RowQuietly, HeartbeatQuietly, QuietlyKeeps DEF AnyRow
    <3>2. CASE CheckDifficulty(c)
      BY <2>1, <3>2, CheckDifficultyQuietly, QuietlyKeeps
    <3>3. CASE LoseSocket(c) \/ OnClose(c)
      BY <2>1, <3>3, CloseQuietly, QuietlyKeeps
    <3>4. CASE EndDestroy(c)
      BY <2>1, <3>4, EndDestroyQuietly, QuietlyKeeps
    <3> QED
      BY <2>4, <3>1, <3>2, <3>3, <3>4
  <2>5. CASE UNCHANGED vars
    <3>1. UNCHANGED <<sess, heights, blocks, live, recorded, dropped, submitted, finalized>>
      BY <2>5 DEF vars
    <3>2. Latest' = Latest /\ Booked' = Booked
      BY <3>1 DEF Latest, Booked
    <3>3. SessionsInv'
      BY <2>1, <3>1, <3>2 DEF SessionsInv, TypeInv
    <3>4. \A c \in Conns : Books(sess[c])'
      BY <3>1, <3>2, LogsHere DEF Books, Pending
    <3>5. CreditedOnce' /\ FinalizedAsWorked'
      BY <3>1, LogsHere DEF CreditedOnce, FinalizedAsWorked, HeightOf
    <3>6. /\ \A share \in Booked' : share.conn \in Conns /\ share \in sess'[share.conn].accepted
          /\ \A share \in submitted' : share.job.template <= Latest'
      BY <3>1, <3>2, LogsHere
    <3> QED
      BY <3>3, <3>4, <3>5, <3>6 DEF Inv, BooksInv
  <2>6. ASSUME NEW height \in {heights[Latest], heights[Latest] + 1}, NEW clear \in BOOLEAN,
               NEW old \in 0..Latest, EmitTemplate(height, clear, old)
        PROVE  Inv'
    BY <2>6, EmitKeeps
  <2> QED
    BY <2>2, <2>3, <2>4, <2>5, <2>6 DEF Next, AnyTask
<1> QED
  BY <1>1, <1>2, PTL DEF Spec

(* Whatever the sessions do, no submission is recorded, and so credited, a   *)
(* second time: while its template is in the registry it is remembered, and  *)
(* when the duplicates are forgotten with a new block the template is gone   *)
(* too (handleMiningSubmission).                                             *)
THEOREM SubmissionsAreCreditedOnce == Spec => []CreditedOnce
<1>1. Inv => CreditedOnce
  BY DEF Inv, BooksInv
<1> QED
  BY <1>1, InvHolds, PTL

(* Once nothing of a session is under way every share it was told is         *)
(* accepted has been recorded, or a failure the model names dropped it; and  *)
(* a block is finalized as the template it was worked on, after bitcoind has *)
(* it (the awaits of handleMiningSubmission after the reply).                *)
THEOREM AcceptedSharesAreBooked == Spec => []AcceptedIsBooked
<1>1. Inv => AcceptedIsBooked
  <2> SUFFICES ASSUME Inv, NEW c \in Conns, Quiet(c), NEW share \in sess[c].accepted \ dropped
               PROVE  \E k \in DOMAIN recorded : recorded[k].share = share
    BY LogsHere DEF AcceptedIsBooked, AcceptedIsRecorded
  <2>1. Pending(sess[c]) = {}
    BY DEF Quiet, Pending
  <2>2. Books(sess[c])
    BY LogsHere
  <2>3. share \in Booked
    BY <2>1, <2>2 DEF Books
  <2> QED
    BY <2>3 DEF Booked
<1> QED
  BY <1>1, InvHolds, PTL

(* In whatever order the handshake's messages, set_payout, the templates,    *)
(* the timer and the insert of the client row come, a session with nothing   *)
(* under way works on the last template, for the identity it asked for, at   *)
(* a difficulty it was told.                                                 *)
THEOREM ServedMinersAreCurrent == Spec => []ServedIsCurrent
<1>1. Inv => ServedIsCurrent
  <2> SUFFICES ASSUME Inv, NEW c \in Conns, Serving(c)
               PROVE  /\ sess[c].work # << >>
                      /\ Last(sess[c].work).template = Latest
                      /\ sess[c].late \/ Last(sess[c].work).pay = PaysTo(sess[c].mode, sess[c].pay)
                      /\ sess[c].late \/ sess[c].told = sess[c].diff
                      /\ sess[c].diff >= sess[c].suggested
    BY DEF ServedIsCurrent, WorkIsCurrent, DifficultyIsKnown
  <2>1. PICK s : s = sess[c]
    OBVIOUS
  <2>2. /\ s.tasks = << >> /\ s.row[Own] # "inserting"
        /\ s.subscribed /\ s.auth # NoIdentity /\ s.socket = "open"
    BY <2>1 DEF Serving, Quiet, RowKeys
  <2>3. Starts(s) /\ Subscribes(s) /\ ServeOK(s, Latest) /\ DiffOK(s)
    BY <2>1, Here DEF Inv
  <2>4. \A kinds : ~Waiting(s, kinds)
    BY <2>2 DEF Waiting
  <2>5. s.inited /\ s.stream
    BY <2>2, <2>3, <2>4 DEF Starts, Subscribes
  <2>6. Served(s, Latest)
    BY <2>2, <2>3, <2>5 DEF ServeOK
  <2> QED
    BY <2>1, <2>2, <2>3, <2>4, <2>5, <2>6 DEF Served, DiffOK
<1> QED
  BY <1>1, InvHolds, PTL

(* The types hold, and once destroy() has ended none of the connection's     *)
(* client rows is left unless a write was under way as it began - a heartbeat *)
(* chained on an insert is one - or a delete failed.                         *)
THEOREM RowsLiveAndDie == Spec => []RowsInv
<1>1. Inv => RowsInv
  <2> SUFFICES ASSUME Inv PROVE RowsInv
    OBVIOUS
  <2>1. ASSUME NEW c \in Conns
        PROVE  LET s == sess[c]
               IN  /\ s.socket \in {"open", "ended", "destroyed"}
                   /\ s.destroy \in {"no", "started", "done"}
                   /\ {s.auth, s.pay} \subseteq RowKeys
                   /\ {s.diff, s.suggested, s.told, s.made} \subseteq Nat
                   /\ s.row \in [RowKeys -> {"none", "inserting", "have", "failed"}]
                   /\ s.beats \in [Identities -> Nat]
                   /\ s.jobs \subseteq {j \in JobType : j.conn = c /\ j.n <= s.made}
                   /\ \A i \in DOMAIN s.tasks : TaskOK(s.tasks[i])
                   /\ \A i \in DOMAIN s.waits : s.waits[i] \in 1..Latest
                   /\ live[c] \subseteq RowKeys
    <3>1. PICK s : s = sess[c]
      OBVIOUS
    <3>2. s \in SessType /\ OwnJobs(c, s, Latest) /\ live[c] \in SUBSET RowKeys /\ Latest \in Nat
      BY <3>1, Here DEF Inv
    <3>3. /\ s.socket \in {"open", "ended", "destroyed"}
          /\ s.destroy \in {"no", "started", "done"}
          /\ {s.auth, s.pay} \subseteq RowKeys
          /\ {s.diff, s.suggested, s.told, s.made} \subseteq Nat
          /\ s.row \in [RowKeys -> {"none", "inserting", "have", "failed"}]
          /\ s.beats \in [Identities -> Nat]
      BY <3>2 DEF SessType, Sockets, Ends, RowStates
    <3>4. s.jobs \subseteq {j \in JobType : j.conn = c /\ j.n <= s.made}
      BY <3>2 DEF SessType, OwnJobs
    <3>5. ASSUME NEW i \in DOMAIN s.tasks PROVE TaskOK(s.tasks[i])
      <4>1. s.tasks[i] \in TaskType
        BY <3>2, TaskTyped
      <4> QED
        BY <4>1 DEF TaskType, PlainTask, TouchTask, ShareTask, TaskOK
    <3>6. ASSUME NEW i \in DOMAIN s.waits PROVE s.waits[i] \in 1..Latest
      <4>1. s.waits \in Seq(1..MaxTemplates)
        BY <3>2 DEF SessType
      <4>2. s.waits[i] \in 1..MaxTemplates
        BY <4>1, ElementOfSeq, LenProperties
      <4>3. s.waits[i] <= Latest
        BY <3>2 DEF OwnJobs
      <4> QED
        BY <3>2, <4>2, <4>3
    <3> QED
      BY <3>1, <3>2, <3>3, <3>4, <3>5, <3>6
  <2>2. TypeOK
    BY <2>1 DEF TypeOK, Inv, SessionsInv, TypeInv
  <2>3. RowsDieWithConnection
    BY DEF Inv, SessionsInv, RowsOK, RowsDieWithConnection
  <2> QED
    BY <2>2, <2>3 DEF RowsInv
<1> QED
  BY <1>1, InvHolds, PTL
=============================================================================
