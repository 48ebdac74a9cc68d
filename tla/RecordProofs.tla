---------------------------- MODULE RecordProofs ----------------------------
(***************************************************************************)
(* Proofs about what is recorded: of an accepted share, in the queue of    *)
(* the process that accepts it (ShareQueue), for every set of shares and   *)
(* every size of the batches and of the queue, and in the rollup           *)
(* (ShareRollup), for every set of shares, every number of workers and     *)
(* rollup processes and every lag that meets LagAssumption; and of a found *)
(* block (FoundBlocks), for any blocks, gateways' claims and number of     *)
(* handlers that report.                                                   *)
(*                                                                         *)
(* Every method of the queue rearranges the line of the waiting shares,    *)
(* the batch in flight followed by the queue, without changing it, except  *)
(* that Record adds a share at its end, EndFlush takes the batch off its   *)
(* front and Exit forgets it.  So one lemma says what the methods keep     *)
(* (StartFlush and ScheduleFlush), and the steps follow from lemmas on     *)
(* sequences.                                                              *)
(*                                                                         *)
(* The node takes one block and says so once.  So at most one handler at a *)
(* time holds the answer "success", and none does any more when a block    *)
(* that is no claim is in the books (OneSuccess, BookedInv); what the      *)
(* other handlers write for a block that is no claim changes neither its   *)
(* result nor its snapshot.                                                *)
(***************************************************************************)
EXTENDS ShareRollup, ShareQueue, FoundBlocks, SequenceTheorems, FiniteSetTheorems, TLAPS

-----------------------------------------------------------------------------
(* The queue. *)

line == flight \o pending

Waiting == {s \in CallerShares : outcome[s] = "waiting"}

Distinct(seq) == \A i, j \in DOMAIN seq : seq[i] = seq[j] => i = j

(* What the database executes belongs to someone who does not believe that *)
(* it succeeded, unless it is stored already.                              *)
ExecutingIsOpen ==
    \A batch \in executing : \A s \in Range(batch) :
        outcome[s] \in {"waiting", "rejected", "lost"} \/ s \in table

Inv == QueueInv /\ ExecutingIsOpen

(* What a method leaves behind when it is called with the line "old".      *)
Keeps(old) ==
    /\ pending' \in Seq(CallerShares) /\ Len(pending') <= MaxQueueSize
    /\ flight' \in Seq(CallerShares) /\ Len(flight') <= BatchSize
    /\ line' = old
    /\ timer' \in BOOLEAN
    /\ timer' <=> (pending' # <<>> /\ flight' = <<>>)
    /\ executing' \subseteq executing \cup {flight'}

-----------------------------------------------------------------------------
(* Sequences. *)

(* The batch taken from a queue and what is left make up the queue, and    *)
(* the batch is empty only if the queue is.                                *)
LEMMA BatchTaken ==
    ASSUME NEW queue \in Seq(CallerShares)
    PROVE  LET k == TakeLength(queue)
               batch == SubSeq(queue, 1, k)
               rest == SubSeq(queue, k + 1, Len(queue))
           IN  /\ batch \in Seq(CallerShares) /\ Len(batch) <= BatchSize
               /\ rest \in Seq(CallerShares) /\ Len(rest) <= Len(queue)
               /\ batch \o rest = queue
               /\ batch = <<>> => queue = <<>>
               /\ queue = <<>> => rest = <<>>
<1> DEFINE k == TakeLength(queue)
           batch == SubSeq(queue, 1, k)
           rest == SubSeq(queue, k + 1, Len(queue))
<1>1. Len(queue) \in Nat /\ \A i \in 1..Len(queue) : queue[i] \in CallerShares
  BY ElementOfSeq, LenProperties
<1>2. /\ k \in 0..Len(queue) /\ k <= BatchSize
      /\ k = 0 => Len(queue) = 0
  BY <1>1, ShareQueueAssumption DEF TakeLength
<1>3. batch \in Seq(CallerShares) /\ Len(batch) = k
  <2>1. \A i \in 1..k : queue[i] \in CallerShares
    BY <1>1, <1>2
  <2> QED
    BY <1>2, <2>1, SubSeqProperties
<1>4. rest \in Seq(CallerShares) /\ Len(rest) = Len(queue) - k
  <2>1. \A i \in k + 1 .. Len(queue) : queue[i] \in CallerShares
    BY <1>1, <1>2
  <2>2. /\ rest \in Seq(CallerShares)
        /\ Len(rest) = IF k + 1 <= Len(queue)
                         THEN Len(queue) - (k + 1) + 1 ELSE 0
    BY <1>1, <1>2, <2>1, SubSeqProperties
  <2> QED
    BY <1>1, <1>2, <2>2
<1>5. batch \o rest = queue
  <2>1. /\ 1 \in 1 .. Len(queue) + 1 /\ k \in 1 - 1 .. Len(queue)
        /\ Len(queue) \in k .. Len(queue)
    BY <1>1, <1>2
  <2> HIDE DEF k
  <2>2. batch \o rest = SubSeq(queue, 1, Len(queue))
    BY <2>1, ConcatAdjacentSubSeq
  <2> QED
    BY <2>2, SubSeqFull
<1> HIDE DEF k, batch, rest
<1>6. batch = <<>> => queue = <<>>
  BY <1>2, <1>3, EmptySeq
<1>7. queue = <<>> => rest = <<>>
  BY <1>2, <1>4, EmptySeq
<1>8. Len(batch) <= BatchSize /\ Len(rest) <= Len(queue)
  BY <1>1, <1>2, <1>3, <1>4
<1> QED
  BY <1>3, <1>4, <1>5, <1>6, <1>7, <1>8 DEF k, batch, rest

(* The front of a line holds some of its shares.                           *)
LEMMA FrontInLine ==
    ASSUME NEW front \in Seq(CallerShares), NEW rest \in Seq(CallerShares)
    PROVE  Range(front) \subseteq Range(front \o rest)
BY RangeConcatenation

(* A new share at the end of a line of distinct shares.                    *)
LEMMA AppendDistinct ==
    ASSUME NEW seq \in Seq(CallerShares), Distinct(seq),
           NEW s \in CallerShares, s \notin Range(seq)
    PROVE  /\ Distinct(Append(seq, s))
           /\ Range(Append(seq, s)) = Range(seq) \cup {s}
<1>1. /\ Append(seq, s) \in Seq(CallerShares)
      /\ Len(Append(seq, s)) = Len(seq) + 1
      /\ \A i \in 1..Len(seq) : Append(seq, s)[i] = seq[i]
      /\ Append(seq, s)[Len(seq) + 1] = s
      /\ Len(seq) \in Nat
  BY AppendProperties, LenProperties
<1>2. /\ DOMAIN Append(seq, s) = 1 .. Len(seq) + 1
      /\ DOMAIN seq = 1..Len(seq)
  BY <1>1, LenProperties
<1>3. \A i \in 1..Len(seq) : seq[i] # s
  BY <1>2 DEF Range
<1>4. Distinct(Append(seq, s))
  <2> SUFFICES ASSUME NEW i \in 1 .. Len(seq) + 1, NEW j \in 1 .. Len(seq) + 1,
                      Append(seq, s)[i] = Append(seq, s)[j]
               PROVE  i = j
    BY <1>2 DEF Distinct
  <2> QED
    BY <1>1, <1>2, <1>3 DEF Distinct
<1>5. Range(Append(seq, s)) = Range(seq) \cup {s}
  <2>1. \A x : x \in Range(Append(seq, s)) =>
            x = s \/ \E i \in 1..Len(seq) : x = seq[i]
    BY <1>1, <1>2 DEF Range
  <2>2. \A i \in 1..Len(seq) : seq[i] \in Range(Append(seq, s))
    BY <1>1, <1>2 DEF Range
  <2>3. s \in Range(Append(seq, s))
    BY <1>1, <1>2 DEF Range
  <2> QED
    BY <1>2, <2>1, <2>2, <2>3 DEF Range
<1> QED
  BY <1>4, <1>5

(* The front of a line of distinct shares is gone from what follows.       *)
LEMMA FrontRemoved ==
    ASSUME NEW front \in Seq(CallerShares), NEW rest \in Seq(CallerShares),
           Distinct(front \o rest)
    PROVE  /\ Distinct(rest)
           /\ Range(rest) = Range(front \o rest) \ Range(front)
           /\ SubSeq(front \o rest, 1, Len(front)) = front
           /\ SubSeq(front \o rest, Len(front) + 1, Len(front \o rest)) = rest
<1> DEFINE m == Len(front)
           n == Len(rest)
           all == front \o rest
<1>1. m \in Nat /\ n \in Nat /\ DOMAIN front = 1..m /\ DOMAIN rest = 1..n
  BY LenProperties
<1>2. /\ all \in Seq(CallerShares) /\ Len(all) = m + n
      /\ \A i \in 1 .. m + n : all[i] = IF i <= m THEN front[i] ELSE rest[i - m]
  BY ConcatProperties
<1>3. DOMAIN all = 1 .. m + n
  BY <1>2, LenProperties
<1> HIDE DEF all, m, n
<1>4. \A i \in 1..m : i \in 1 .. m + n /\ all[i] = front[i]
  BY <1>1, <1>2
<1>5. \A i \in 1..n : m + i \in m + 1 .. m + n /\ all[m + i] = rest[i]
  BY <1>1, <1>2
<1>6. Distinct(rest)
  <2> SUFFICES ASSUME NEW i \in 1..n, NEW j \in 1..n, rest[i] = rest[j]
               PROVE  i = j
    BY <1>1 DEF Distinct
  <2>1. m + i = m + j
    <3>1. all[m + i] = all[m + j] /\ m + i \in 1 .. m + n /\ m + j \in 1 .. m + n
      BY <1>1, <1>5
    <3> QED
      BY <1>3, <3>1 DEF Distinct, all
  <2> QED
    BY <1>1, <2>1
<1>7. Range(all) = Range(front) \cup Range(rest)
  BY RangeConcatenation DEF all
<1>8. Range(front) \cap Range(rest) = {}
  <2> SUFFICES ASSUME NEW i \in 1..m, NEW j \in 1..n, front[i] = rest[j]
               PROVE  FALSE
    BY <1>1 DEF Range
  <2>1. all[i] = all[m + j] /\ i \in DOMAIN all /\ m + j \in DOMAIN all
    BY <1>1, <1>3, <1>4, <1>5
  <2>2. i = m + j
    BY <2>1 DEF Distinct, all
  <2> QED
    BY <1>1, <2>2
<1>9. SubSeq(all, 1, m) = front
  <2>1. /\ SubSeq(all, 1, m) \in Seq(CallerShares) /\ Len(SubSeq(all, 1, m)) = m
        /\ \A i \in 1..m : SubSeq(all, 1, m)[i] = all[i]
    <3>1. \A i \in 1..m : all[i] \in CallerShares
      BY <1>2, <1>4, ElementOfSeq
    <3>2. /\ SubSeq(all, 1, m) \in Seq(CallerShares)
          /\ Len(SubSeq(all, 1, m)) = IF 1 <= m THEN m - 1 + 1 ELSE 0
          /\ \A i \in 1 .. m - 1 + 1 : SubSeq(all, 1, m)[i] = all[1 + i - 1]
      BY <1>1, <3>1, SubSeqProperties
    <3> QED
      BY <1>1, <3>2
  <2> QED
    BY <1>1, <1>4, <2>1, SeqEqual DEF m
<1>10. SubSeq(all, m + 1, Len(all)) = rest
  <2> DEFINE tail == SubSeq(all, m + 1, m + n)
  <2>1. /\ tail \in Seq(CallerShares) /\ Len(tail) = n
        /\ \A i \in 1..n : tail[i] = all[m + i]
    <3>1. \A i \in m + 1 .. m + n : all[i] \in CallerShares
      <4>1. m + 1 .. m + n \subseteq 1 .. Len(all)
        BY <1>1, <1>2
      <4> QED
        BY <1>2, <4>1, ElementOfSeq
    <3>2. /\ tail \in Seq(CallerShares)
          /\ Len(tail) = IF m + 1 <= m + n THEN m + n - (m + 1) + 1 ELSE 0
          /\ \A i \in 1 .. m + n - (m + 1) + 1 : tail[i] = all[m + 1 + i - 1]
      BY <1>1, <3>1, SubSeqProperties
    <3> QED
      BY <1>1, <3>2
  <2> HIDE DEF tail
  <2>2. \A i \in 1..n : tail[i] = rest[i]
    BY <1>5, <2>1
  <2>3. tail = rest
    BY <2>1, <2>2, SeqEqual DEF n
  <2> QED
    BY <1>2, <2>3 DEF tail
<1> QED
  BY <1>6, <1>7, <1>8, <1>9, <1>10 DEF all, m

-----------------------------------------------------------------------------
(* Methods. *)

LEMMA StartFlushKeeps ==
    ASSUME NEW queue \in Seq(CallerShares), Len(queue) <= MaxQueueSize,
           NEW armed \in BOOLEAN,
           flight \in Seq(CallerShares), Len(flight) <= BatchSize,
           armed => flight = <<>>,
           armed => queue # <<>>,
           StartFlush(queue, flight, armed)
    PROVE  Keeps(flight \o queue)
<1>1. CASE flight # <<>>
  BY <1>1 DEF StartFlush, Keeps, line
<1>2. CASE flight = <<>>
  <2> DEFINE k == TakeLength(queue)
  <2>1. /\ flight' = SubSeq(queue, 1, k)
        /\ pending' = SubSeq(queue, k + 1, Len(queue))
        /\ timer' = FALSE
        /\ executing' \subseteq executing \cup {flight'}
    BY <1>2 DEF StartFlush
  <2>2. /\ flight' \in Seq(CallerShares) /\ Len(flight') <= BatchSize
        /\ pending' \in Seq(CallerShares) /\ Len(pending') <= Len(queue)
        /\ flight' \o pending' = queue
        /\ flight' = <<>> => pending' = <<>>
    BY <2>1, BatchTaken
  <2>3. Len(pending') <= MaxQueueSize
    BY <2>2, LenProperties, ShareQueueAssumption
  <2>4. flight \o queue = queue
    BY <1>2, ConcatEmptySeq
  <2> QED
    BY <2>1, <2>2, <2>3, <2>4 DEF Keeps, line
<1> QED
  BY <1>1, <1>2

(* The .finally() of startFlush goes on with the queue. *)
LEMMA RestartKeeps ==
    ASSUME pending \in Seq(CallerShares), Len(pending) <= MaxQueueSize,
           flight # <<>>, timer = FALSE, Restart
    PROVE  Keeps(pending)
<1>0. <<>> \in Seq(CallerShares) /\ Len(<<>>) <= BatchSize /\ <<>> \o pending = pending
  <2>1. Len(<<>>) = 0 /\ <<>> \in Seq(CallerShares)
    BY EmptySeq
  <2>2. <<>> \o pending = pending
    BY ConcatEmptySeq
  <2> QED
    BY <2>1, <2>2, ShareQueueAssumption
<1>1. CASE Len(pending) >= BatchSize /\ StartFlush(pending, <<>>, timer)
  <2> DEFINE k == TakeLength(pending)
  <2>1. /\ flight' = SubSeq(pending, 1, k)
        /\ pending' = SubSeq(pending, k + 1, Len(pending))
        /\ timer' = FALSE
        /\ executing' \subseteq executing \cup {flight'}
    BY <1>1 DEF StartFlush
  <2>2. /\ flight' \in Seq(CallerShares) /\ Len(flight') <= BatchSize
        /\ pending' \in Seq(CallerShares) /\ Len(pending') <= Len(pending)
        /\ flight' \o pending' = pending
        /\ flight' = <<>> => pending' = <<>>
    BY <2>1, BatchTaken
  <2>3. Len(pending') <= MaxQueueSize
    BY <2>2, LenProperties, ShareQueueAssumption
  <2> QED
    BY <2>1, <2>2, <2>3 DEF Keeps, line
<1>2. CASE Len(pending) \in 1..(BatchSize - 1) /\ ScheduleFlush(pending, <<>>)
  <2>1. /\ pending' = pending /\ flight' = <<>> /\ timer' = TRUE
        /\ executing' = executing
    BY <1>2 DEF ScheduleFlush
  <2>2. flight' \o pending' = pending
    BY <2>1, <1>0
  <2>3. pending # <<>>
    BY <1>2, EmptySeq
  <2> QED
    BY <2>1, <2>2, <2>3, <1>0 DEF Keeps, line
<1>3. CASE Len(pending) = 0 /\ NoRestart
  <2>1. /\ pending' = pending /\ flight' = <<>> /\ timer' = FALSE
        /\ executing' = executing /\ pending = <<>>
    BY <1>3, EmptySeq DEF NoRestart
  <2>2. flight' \o pending' = pending
    BY <2>1, <1>0
  <2> QED
    BY <2>1, <2>2, <1>0 DEF Keeps, line
<1> QED
  BY <1>1, <1>2, <1>3 DEF Restart

(* recordAcceptedShare adds its share to the end of the line.              *)
LEMMA RecordAppends ==
    ASSUME QueueTypeOK, TimerArmedWhenNeeded, NEW s \in CallerShares, Record(s)
    PROVE  Keeps(Append(line, s))
<1> DEFINE queue == Append(pending, s)
<1>1. /\ queue \in Seq(CallerShares) /\ Len(queue) <= MaxQueueSize /\ queue # <<>>
  <2>1. pending \in Seq(CallerShares) /\ Len(pending) \in Nat
        /\ Len(pending) < MaxQueueSize
    BY LenProperties DEF Record, QueueTypeOK
  <2>2. queue \in Seq(CallerShares) /\ queue # <<>> /\ Len(queue) = Len(pending) + 1
    BY <2>1, AppendProperties
  <2> QED
    BY <2>1, <2>2, ShareQueueAssumption
<1>2. flight \o queue = Append(line, s)
  <2>1. flight \in Seq(CallerShares) /\ pending \in Seq(CallerShares)
    BY DEF QueueTypeOK
  <2>2. <<s>> \in Seq(CallerShares) /\ line \in Seq(CallerShares)
    BY <2>1, ConcatProperties DEF line
  <2>3. (flight \o pending) \o <<s>> = flight \o (pending \o <<s>>)
    BY <2>1, <2>2, ConcatAssociative
  <2>4. queue = pending \o <<s>> /\ Append(line, s) = line \o <<s>>
    BY <2>1, <2>2, AppendIsConcat
  <2> QED
    BY <2>3, <2>4 DEF line
<1> HIDE DEF queue
<1>3. CASE StartFlush(queue, flight, timer)
  <2>1. Keeps(flight \o queue)
    BY <1>1, <1>3, StartFlushKeeps DEF QueueTypeOK, TimerArmedWhenNeeded
  <2> QED
    BY <1>2, <2>1
<1>4. CASE ScheduleFlush(queue, flight)
  <2>1. /\ pending' = queue /\ flight' = flight /\ executing' = executing
        /\ timer' = (timer \/ flight = <<>>)
    BY <1>4 DEF ScheduleFlush
  <2>2. timer' = (flight = <<>>) /\ timer' \in BOOLEAN
    BY <2>1 DEF QueueTypeOK, TimerArmedWhenNeeded
  <2> QED
    BY <1>1, <1>2, <2>1, <2>2 DEF Keeps, line, QueueTypeOK
<1> QED
  BY <1>3, <1>4 DEF Record, queue

(* EndFlush takes the batch off the front of the line. *)
LEMMA EndFlushRemoves ==
    ASSUME QueueInv, EndFlush
    PROVE  /\ Keeps(pending)
           /\ UNCHANGED <<up, draining, table>>
           /\ \E answer \in {"resolved", "rejected"} :
                 /\ answer = "resolved" => Range(flight) \subseteq table
                 /\ Settle(answer)
<1>1. flight # <<>> /\ Restart /\ UNCHANGED <<up, draining, table>>
  BY DEF EndFlush, ResolveFlush, RejectFlush
<1>2. Keeps(pending)
  BY <1>1, RestartKeeps DEF QueueInv, QueueTypeOK, TimerArmedWhenNeeded
<1> QED
  BY <1>1, <1>2 DEF EndFlush, ResolveFlush, RejectFlush

-----------------------------------------------------------------------------
(* The invariant. *)

(* What a step must show: the methods keep the line, those who wait are    *)
(* those in line, and the outcomes and the table grow as they may.         *)
LEMMA InvFromKeeps ==
    ASSUME QueueInv, ExecutingIsOpen,
           NEW seq \in Seq(CallerShares), Keeps(seq),
           Distinct(seq), Range(seq) = Waiting',
           {up', draining'} \subseteq BOOLEAN,
           outcome' \in [CallerShares -> Outcomes],
           table' = table,
           \A batch \in executing : \A s \in Range(batch) :
               outcome'[s] \in {"waiting", "rejected", "lost"} \/ s \in table
    PROVE  Inv'
<1>1. /\ flight' \in Seq(CallerShares) /\ pending' \in Seq(CallerShares)
      /\ flight' \o pending' = seq
      /\ executing' \subseteq executing \cup {flight'}
  BY DEF Keeps, line
<1>2. QueueTypeOK'
  BY <1>1 DEF QueueTypeOK, QueueInv, Keeps
<1>3. TimerArmedWhenNeeded'
  BY DEF TimerArmedWhenNeeded, Keeps
<1>4. WaitingIsQueued'
  BY <1>1 DEF WaitingIsQueued, Waiting, Distinct
<1>5. \A s \in Range(flight') : outcome'[s] = "waiting"
  <2>1. Range(flight') \subseteq Range(seq)
    BY <1>1, FrontInLine
  <2>2. Range(flight') \subseteq Waiting'
    BY <2>1
  <2> QED
    BY <2>2 DEF Waiting
<1>6. ExecutingIsOpen'
  BY <1>1, <1>5 DEF ExecutingIsOpen
<1> QED
  BY <1>2, <1>3, <1>4, <1>6 DEF Inv, QueueInv

(* The empty line. *)
LEMMA EmptyLine ==
    /\ <<>> \in Seq(CallerShares) /\ <<>> \o <<>> = <<>>
    /\ Len(<<>>) <= BatchSize /\ Len(<<>>) <= MaxQueueSize
    /\ Range(<<>>) = {} /\ Distinct(<<>>)
<1>1. <<>> \in Seq(CallerShares) /\ Len(<<>>) = 0
  BY EmptySeq
<1>2. <<>> \o <<>> = <<>>
  BY <1>1, ConcatEmptySeq
<1>3. 1..Len(<<>>) = {}
  BY <1>1
<1>4. DOMAIN <<>> = {}
  BY <1>1, <1>3, LenProperties
<1>5. Len(<<>>) <= BatchSize /\ Len(<<>>) <= MaxQueueSize
  BY <1>1, ShareQueueAssumption
<1> QED
  BY <1>1, <1>2, <1>4, <1>5 DEF Range, Distinct

LEMMA InvInit == QueueInit => Inv
<1> SUFFICES ASSUME QueueInit PROVE Inv
  OBVIOUS
<1>1. QueueTypeOK
  BY EmptyLine DEF QueueInit, QueueTypeOK, Outcomes
<1>2. TimerArmedWhenNeeded
  BY DEF QueueInit, TimerArmedWhenNeeded
<1>3. WaitingIsQueued
  <2>1. line = <<>> /\ Waiting = {}
    BY EmptyLine DEF QueueInit, line, Waiting
  <2> QED
    BY <2>1, EmptyLine DEF WaitingIsQueued, Distinct, line, Waiting
<1> QED
  BY <1>1, <1>2, <1>3 DEF QueueInit, Inv, QueueInv, ExecutingIsOpen

LEMMA InvNext == Inv /\ [QueueNext]_queueVars => Inv'
<1> SUFFICES ASSUME Inv, [QueueNext]_queueVars PROVE Inv'
  OBVIOUS
<1> USE DEF Inv
<1>0. /\ QueueInv /\ ExecutingIsOpen
      /\ QueueTypeOK /\ TimerArmedWhenNeeded /\ WaitingIsQueued
      /\ flight \in Seq(CallerShares) /\ pending \in Seq(CallerShares)
      /\ line \in Seq(CallerShares) /\ Distinct(line) /\ Range(line) = Waiting
  <2>1. QueueInv /\ ExecutingIsOpen
        /\ QueueTypeOK /\ TimerArmedWhenNeeded /\ WaitingIsQueued
    BY DEF QueueInv
  <2>2. flight \in Seq(CallerShares) /\ pending \in Seq(CallerShares)
    BY <2>1 DEF QueueTypeOK
  <2>3. line \in Seq(CallerShares)
    BY <2>2, ConcatProperties DEF line
  <2> QED
    BY <2>1, <2>2, <2>3 DEF WaitingIsQueued, Distinct, Waiting, line
<1>1. ASSUME NEW s \in CallerShares, Record(s) PROVE Inv'
  <2>1. Keeps(Append(line, s))
    BY <1>0, <1>1, RecordAppends
  <2>2. /\ outcome[s] = "new" /\ outcome' = [outcome EXCEPT ![s] = "waiting"]
        /\ UNCHANGED <<up, draining, table>>
    BY <1>1 DEF Record
  <2>3. outcome' \in [CallerShares -> Outcomes] /\ Waiting' = Waiting \cup {s}
    BY <1>0, <2>2 DEF QueueTypeOK, Outcomes, Waiting
  <2>4. /\ Append(line, s) \in Seq(CallerShares)
        /\ Distinct(Append(line, s)) /\ Range(Append(line, s)) = Waiting'
    <3>1. s \notin Range(line)
      BY <1>0, <2>2 DEF Waiting
    <3> QED
      BY <1>0, <2>3, <3>1, AppendDistinct, AppendProperties
  <2>5. \A batch \in executing : \A x \in Range(batch) :
            outcome'[x] \in {"waiting", "rejected", "lost"} \/ x \in table
    <3>1. \A x \in CallerShares : outcome'[x] = IF x = s THEN "waiting" ELSE outcome[x]
      BY <1>0, <2>2 DEF QueueTypeOK
    <3>2. \A batch \in executing : Range(batch) \subseteq CallerShares
      BY <1>0, RangeOfSeq DEF QueueTypeOK
    <3> QED
      BY <1>0, <3>1, <3>2 DEF ExecutingIsOpen
  <2> QED
    BY <1>0, <2>1, <2>2, <2>3, <2>4, <2>5, InvFromKeeps DEF QueueTypeOK
<1>2. ASSUME NEW s \in CallerShares, Refuse(s) PROVE Inv'
  <2>1. /\ outcome[s] = "new" /\ outcome' = [outcome EXCEPT ![s] = "refused"]
        /\ UNCHANGED <<up, pending, flight, timer, draining, executing, table>>
    BY <1>2 DEF Refuse
  <2>2. \A x \in CallerShares : outcome'[x] = IF x = s THEN "refused" ELSE outcome[x]
    BY <1>0, <2>1 DEF QueueTypeOK
  <2>3. QueueTypeOK' /\ TimerArmedWhenNeeded'
    BY <1>0, <2>1 DEF QueueTypeOK, Outcomes, TimerArmedWhenNeeded
  <2>4. WaitingIsQueued'
    <3>1. {x \in CallerShares : outcome'[x] = "waiting"}
              = {x \in CallerShares : outcome[x] = "waiting"}
      BY <2>1, <2>2
    <3> QED
      BY <1>0, <2>1, <3>1 DEF WaitingIsQueued
  <2>5. ExecutingIsOpen'
    <3>1. \A batch \in executing : Range(batch) \subseteq CallerShares
      BY <1>0, RangeOfSeq DEF QueueTypeOK
    <3> QED
      BY <1>0, <2>1, <2>2, <3>1 DEF ExecutingIsOpen
  <2> QED
    BY <2>3, <2>4, <2>5 DEF QueueInv
<1>3. CASE TimerFires
  <2>1. Keeps(line)
    BY <1>0, <1>3, StartFlushKeeps
       DEF TimerFires, QueueTypeOK, TimerArmedWhenNeeded, line
  <2> QED
    BY <1>0, <1>3, <2>1, InvFromKeeps
       DEF TimerFires, QueueTypeOK, Waiting, ExecutingIsOpen
<1>4. CASE EndInsert
  <2>1. PICK batch \in executing : CommitInsert(batch) \/ FailInsert(batch)
    BY <1>4 DEF EndInsert
  <2>2. /\ executing' \subseteq executing
        /\ table \subseteq table' /\ table' \subseteq table \cup Range(batch)
        /\ UNCHANGED <<up, pending, flight, timer, draining, outcome>>
    BY <2>1 DEF CommitInsert, FailInsert
  <2>3. Range(batch) \subseteq CallerShares
    BY <1>0, RangeOfSeq DEF QueueTypeOK
  <2>4. QueueTypeOK' /\ TimerArmedWhenNeeded' /\ WaitingIsQueued'
    BY <1>0, <2>2, <2>3 DEF QueueTypeOK, TimerArmedWhenNeeded, WaitingIsQueued
  <2>5. ExecutingIsOpen'
    BY <1>0, <2>2 DEF ExecutingIsOpen
  <2> QED
    BY <2>4, <2>5 DEF QueueInv
<1>5. CASE EndFlush
  <2>1. /\ Keeps(pending) /\ UNCHANGED <<up, draining, table>>
    BY <1>0, <1>5, EndFlushRemoves
  <2>2. PICK answer \in {"resolved", "rejected"} :
            /\ answer = "resolved" => Range(flight) \subseteq table
            /\ Settle(answer)
    BY <1>0, <1>5, EndFlushRemoves
  <2>3. \A x \in CallerShares :
            outcome'[x] = IF x \in Range(flight) THEN answer ELSE outcome[x]
    BY <2>2 DEF Settle
  <2>4. outcome' \in [CallerShares -> Outcomes]
    BY <1>0, <2>2 DEF Settle, QueueTypeOK, Outcomes
  <2>5. /\ Distinct(pending)
        /\ Range(pending) = Waiting \ Range(flight)
    BY <1>0, FrontRemoved DEF line
  <2>6. Waiting' = Waiting \ Range(flight)
    BY <2>2, <2>3 DEF Waiting
  <2>7. \A batch \in executing : \A x \in Range(batch) :
            outcome'[x] \in {"waiting", "rejected", "lost"} \/ x \in table
    <3>1. \A batch \in executing : Range(batch) \subseteq CallerShares
      BY <1>0, RangeOfSeq DEF QueueTypeOK
    <3> QED
      BY <1>0, <2>2, <2>3, <3>1 DEF ExecutingIsOpen
  <2> QED
    BY <1>0, <2>1, <2>4, <2>5, <2>6, <2>7, InvFromKeeps DEF QueueTypeOK
<1>6. CASE Drain
  BY <1>0, <1>6
     DEF Drain, QueueInv, QueueTypeOK, TimerArmedWhenNeeded, WaitingIsQueued,
         ExecutingIsOpen
<1>7. CASE DrainFlush
  <2>1. Keeps(line)
    BY <1>0, <1>7, StartFlushKeeps
       DEF DrainFlush, QueueTypeOK, TimerArmedWhenNeeded, line
  <2> QED
    BY <1>0, <1>7, <2>1, InvFromKeeps
       DEF DrainFlush, QueueTypeOK, Waiting, ExecutingIsOpen
<1>8. CASE DrainReturns
  <2>1. draining' = FALSE /\ UNCHANGED <<up, pending, flight, timer, outcome, executing, table>>
    BY <1>8 DEF DrainReturns
  <2>2. QueueTypeOK' /\ TimerArmedWhenNeeded'
    BY <1>0, <2>1 DEF QueueTypeOK, TimerArmedWhenNeeded
  <2>3. WaitingIsQueued' /\ ExecutingIsOpen'
    BY <1>0, <2>1 DEF WaitingIsQueued, ExecutingIsOpen
  <2> QED
    BY <2>2, <2>3 DEF QueueInv
<1>9. CASE Exit
  <2>1. /\ pending' = <<>> /\ flight' = <<>> /\ timer' = FALSE
        /\ up' = FALSE /\ draining' = FALSE
        /\ UNCHANGED <<executing, table>>
        /\ outcome' = [s \in CallerShares |->
              IF outcome[s] \in {"new", "waiting"} THEN "lost" ELSE outcome[s]]
    BY <1>9 DEF Exit
  <2>2. Waiting' = {}
    BY <2>1 DEF Waiting
  <2>3. outcome' \in [CallerShares -> Outcomes]
    BY <1>0, <2>1 DEF QueueTypeOK, Outcomes
  <2>4. Keeps(<<>>)
    BY <2>1, EmptyLine DEF Keeps, line
  <2>5. \A batch \in executing : \A x \in Range(batch) :
            outcome'[x] \in {"waiting", "rejected", "lost"} \/ x \in table
    <3>1. \A batch \in executing : Range(batch) \subseteq CallerShares
      BY <1>0, RangeOfSeq DEF QueueTypeOK
    <3> QED
      BY <1>0, <2>1, <3>1 DEF ExecutingIsOpen
  <2> QED
    BY <1>0, <2>1, <2>2, <2>3, <2>4, <2>5, EmptyLine, InvFromKeeps
<1>10. CASE UNCHANGED queueVars
  BY <1>0, <1>10
     DEF queueVars, QueueInv, QueueTypeOK, TimerArmedWhenNeeded, WaitingIsQueued,
         ExecutingIsOpen
<1> QED
  BY <1>1, <1>2, <1>3, <1>4, <1>5, <1>6, <1>7, <1>8, <1>9, <1>10
     DEF QueueNext, DrainStep

(* In every reachable state the timer is armed exactly when shares wait    *)
(* and no flush is active, and a caller waits iff its share is queued or   *)
(* in flight, once: scheduleFlush, startFlush and its .finally() together. *)
THEOREM NoCallerForgotten == QueueSpec => []QueueInv
<1>1. Inv => QueueInv
  BY DEF Inv
<1> QED
  BY InvInit, InvNext, <1>1, PTL DEF QueueSpec

-----------------------------------------------------------------------------
(* The refinement. *)

LEMMA JournalInit == QueueInit => Journal!Init
<1> SUFFICES ASSUME QueueInit PROVE Journal!Init
  OBVIOUS
<1>1. flight \o pending = <<>>
  BY EmptyLine DEF QueueInit
<1> QED
  BY <1>1 DEF QueueInit, Journal!Init

(* A committed INSERT stores the batch, or nothing if it was stored: what  *)
(* it belongs to is open.                                                  *)
LEMMA CommitIsStore ==
    ASSUME Inv, NEW batch \in executing, CommitInsert(batch)
    PROVE  Journal!Store \/ UNCHANGED Journal!vars
<1> DEFINE fresh == Range(batch) \ table
<1>1. /\ table' = table \cup fresh
      /\ UNCHANGED <<pending, flight, outcome>>
  BY DEF CommitInsert
<1>2. fresh \in SUBSET (CallerShares \ table)
  BY RangeOfSeq DEF Inv, QueueInv, QueueTypeOK
<1>3. \A s \in fresh : outcome[s] \in {"waiting", "rejected", "lost"}
  BY DEF Inv, ExecutingIsOpen
<1> HIDE DEF fresh
<1>4. CASE fresh = {}
  BY <1>1, <1>4 DEF Journal!vars
<1>5. CASE fresh # {}
  BY <1>1, <1>2, <1>3, <1>5 DEF Journal!Store
<1> QED
  BY <1>4, <1>5

(* The end of a flush settles the batch, the front of the line. *)
LEMMA EndFlushIsSettle ==
    ASSUME Inv, EndFlush
    PROVE  \E n \in 1..Len(flight \o pending) : Journal!Settle(n)
<1> DEFINE n == Len(flight)
<1>1. /\ flight \in Seq(CallerShares) /\ pending \in Seq(CallerShares)
      /\ Distinct(flight \o pending)
  BY DEF Inv, QueueInv, QueueTypeOK, WaitingIsQueued, Distinct
<1>2. /\ flight' \o pending' = pending /\ table' = table
  BY EndFlushRemoves DEF Inv, Keeps, line
<1>3. PICK answer \in {"resolved", "rejected"} :
          /\ answer = "resolved" => Range(flight) \subseteq table
          /\ Settle(answer)
  BY EndFlushRemoves DEF Inv
<1>4. n \in 1..Len(flight \o pending)
  <2>1. flight # <<>>
    BY DEF EndFlush, ResolveFlush, RejectFlush
  <2>2. /\ n \in Nat \ {0} /\ Len(pending) \in Nat
        /\ Len(flight \o pending) = n + Len(pending)
    BY <1>1, <2>1, EmptySeq, LenProperties, ConcatProperties
  <2> QED
    BY <2>2
<1>5. /\ SubSeq(flight \o pending, 1, n) = flight
      /\ SubSeq(flight \o pending, n + 1, Len(flight \o pending)) = pending
  BY <1>1, FrontRemoved
<1>6. Journal!Range(flight) = Range(flight)
  BY DEF Range, Journal!Range
<1> HIDE DEF n
<1>7. Journal!Settle(n)
  <2>1. /\ answer = "resolved" => Journal!Range(flight) \subseteq table
        /\ outcome' = [s \in CallerShares |->
              IF s \in Journal!Range(flight) THEN answer ELSE outcome[s]]
    BY <1>3, <1>6 DEF Settle
  <2>2. (flight \o pending)' = SubSeq(flight \o pending, n + 1,
                                      Len(flight \o pending))
    BY <1>2, <1>5
  <2> QED
    BY <1>2, <1>3, <1>5, <2>1, <2>2 DEF Journal!Settle
<1> QED
  BY <1>4, <1>7

LEMMA JournalNext ==
    Inv /\ [QueueNext]_queueVars => [Journal!Next]_Journal!vars
<1> SUFFICES ASSUME Inv, [QueueNext]_queueVars
             PROVE  Journal!Next \/ UNCHANGED Journal!vars
  OBVIOUS
<1>0. /\ QueueTypeOK /\ TimerArmedWhenNeeded
      /\ flight \in Seq(CallerShares) /\ pending \in Seq(CallerShares)
  BY DEF Inv, QueueInv, QueueTypeOK
<1>1. ASSUME NEW s \in CallerShares, Record(s) PROVE Journal!Accept(s)
  <2>1. flight' \o pending' = Append(flight \o pending, s)
    BY <1>0, <1>1, RecordAppends DEF Keeps, line
  <2> QED
    BY <1>1, <2>1 DEF Record, Journal!Accept
<1>2. ASSUME NEW s \in CallerShares, Refuse(s) PROVE Journal!Refuse(s)
  BY <1>2 DEF Refuse, Journal!Refuse
<1>3. CASE TimerFires
  <2>1. flight' \o pending' = flight \o pending
    BY <1>0, <1>3, StartFlushKeeps
       DEF TimerFires, QueueTypeOK, TimerArmedWhenNeeded, Keeps, line
  <2> QED
    BY <1>3, <2>1 DEF TimerFires, Journal!vars
<1>4. CASE EndInsert
  <2>1. PICK batch \in executing : CommitInsert(batch) \/ FailInsert(batch)
    BY <1>4 DEF EndInsert
  <2>2. CASE CommitInsert(batch)
    BY <2>2, CommitIsStore DEF Journal!Next
  <2>3. CASE FailInsert(batch)
    BY <2>3 DEF FailInsert, Journal!vars
  <2> QED
    BY <2>1, <2>2, <2>3
<1>5. CASE EndFlush
  BY <1>5, EndFlushIsSettle DEF Journal!Next
<1>6. CASE Drain
  BY <1>6 DEF Drain, Journal!vars
<1>7. CASE DrainFlush
  <2>1. flight' \o pending' = flight \o pending
    BY <1>0, <1>7, StartFlushKeeps
       DEF DrainFlush, QueueTypeOK, TimerArmedWhenNeeded, Keeps, line
  <2> QED
    BY <1>7, <2>1 DEF DrainFlush, Journal!vars
<1>8. CASE DrainReturns
  BY <1>8 DEF DrainReturns, Journal!vars
<1>9. CASE Exit
  <2>1. flight' \o pending' = <<>>
    BY <1>9, EmptyLine DEF Exit
  <2>2. Journal!Exit
    BY <1>9, <2>1 DEF Exit, Journal!Exit
  <2> QED
    BY <2>2 DEF Journal!Next
<1>10. CASE UNCHANGED queueVars
  BY <1>10 DEF queueVars, Journal!vars
<1> QED
  BY <1>1, <1>2, <1>3, <1>4, <1>5, <1>6, <1>7, <1>8, <1>9, <1>10
     DEF QueueNext, DrainStep, Journal!Next

(* The queue keeps ShareJournal's promise to the callers: they are         *)
(* answered in order, all of a batch alike, and with success only when     *)
(* their shares are in the database, however batching, the timer, failed   *)
(* and late INSERTs and the exit of the process interleave.                *)
THEOREM QueueImplementsJournal == QueueSpec => ImplementsJournal
<1> QED
  BY InvInit, InvNext, JournalInit, JournalNext, PTL
     DEF QueueSpec, ImplementsJournal, Journal!Spec

-----------------------------------------------------------------------------
(* The rollup. *)

(* What the accepting side guarantees.                                     *)

(* A share draws at most one index; rows have one, queued shares none. *)
IndexInv ==
    /\ \A s \in Shares : shareIndex[s] < nextIndex
    /\ \A s, t \in Shares :
          shareIndex[s] = shareIndex[t] /\ shareIndex[s] # 0 => s = t
    /\ \A s \in Shares : phase[s] = "committed" => shareIndex[s] # 0
    /\ \A s \in Shares : phase[s] \in {"new", "pending"} => shareIndex[s] = 0

(* Stamps are off by at most MaxSkew, shares on their way are in time, and *)
(* a lower index was accepted at most MaxDelay after a higher one.         *)
TimeInv ==
    /\ \A s \in Shares : phase[s] # "new" =>
          born[s] <= now /\ born[s] - MaxSkew <= acceptedAt[s]
    /\ \A s \in Shares :
          phase[s] \in {"pending", "inserting"} => now <= born[s] + MaxDelay
    /\ \A s, t \in Shares :
          shareIndex[s] # 0 /\ shareIndex[s] < shareIndex[t]
            => born[s] <= born[t] + MaxDelay

ShareInv == TypeOK /\ IndexInv /\ TimeInv

(* What the rollup adds.  No row can appear any more at or below index e. *)
NoLateRow(e) ==
    /\ e < nextIndex
    /\ \A s \in Shares :
          phase[s] = "inserting" /\ shareIndex[s] # 0 => e < shareIndex[s]

BatchInv ==
    \A b \in batches :
        /\ 1 <= b.start /\ b.start <= b.end
        /\ NoLateRow(b.end)

(* A transaction works under the lock and, once it has its range, above the *)
(* watermark and on every row up to the range's end not yet rolled up.      *)
HasRange(r) == tx[r].step \in {"ranged", "counted"}

TxInv ==
    \A r \in Rollers :
        /\ tx[r].step # "idle" => lock = r
        /\ tx[r].startedAt <= now
        /\ HasRange(r) =>
              /\ 1 <= tx[r].start /\ tx[r].start <= tx[r].end
              /\ NoLateRow(tx[r].end)
              /\ \A b \in batches : b.end < tx[r].start
              /\ \A s \in Rows : shareIndex[s] <= tx[r].end =>
                    \/ tx[r].start <= shareIndex[s]
                    \/ \E b \in batches : s \in b.summary
        /\ tx[r].step = "counted" =>
              tx[r].counted = RowsBetween(tx[r].start, tx[r].end)

RollupInv ==
    /\ BatchInv
    /\ TxInv
    /\ BatchesComplete
    /\ NoShareSkipped
    /\ BatchesDisjoint

-----------------------------------------------------------------------------
LEMMA InitShareInv == Init => ShareInv
  BY ShareRollupAssumption
     DEF Init, ShareInv, TypeOK, IndexInv, TimeInv, IdleTx, TxType, Phases

LEMMA NextRowsAreShares ==
  ASSUME NEW r \in Rollers
  PROVE  NextRows(r) \subseteq Shares
<1>1. Rows \subseteq Shares
  BY ShareRollupAssumption DEF Rows
<1>2. \A last, startedAt : BoundedRows(last, startedAt) \subseteq Rows
  BY DEF BoundedRows, StableRows
<1> QED
  BY <1>1, <1>2 DEF NextRows

(* Every step keeps the types. *)
LEMMA StepTypeOK == TypeOK /\ [Next]_vars => TypeOK'
<1> SUFFICES ASSUME TypeOK, [Next]_vars PROVE TypeOK'
  OBVIOUS
<1> USE ShareRollupAssumption DEF TypeOK, Phases, shareVars, rollupVars
<1>1. ASSUME NEW s \in Shares, RecordAcceptedShare(s) PROVE TypeOK'
  BY <1>1 DEF RecordAcceptedShare
<1>2. ASSUME NEW s \in Shares, AssignIndex(s) PROVE TypeOK'
  BY <1>2 DEF AssignIndex
<1>3. ASSUME NEW w \in Workers, FlushStep(w) PROVE TypeOK'
  BY <1>3 DEF FlushStep, BeginFlush, CommitFlush, FailFlush, ExitWorker
<1>4. ASSUME NEW r \in Rollers, BeginRollup(r) PROVE TypeOK'
  BY <1>4 DEF BeginRollup, TxType, IdleTx
<1>5. ASSUME NEW r \in Rollers, FindNoShares(r) PROVE TypeOK'
  BY <1>5 DEF FindNoShares, TxType, IdleTx
<1>6. ASSUME NEW r \in Rollers, FindRange(r) PROVE TypeOK'
  <2>1. NextRows(r) \subseteq Shares
    BY NextRowsAreShares
  <2>2. PICK lo \in Shares, hi \in Shares :
           tx' = [tx EXCEPT ![r].step = "ranged",
                            ![r].start = shareIndex[lo],
                            ![r].end = shareIndex[hi]]
    BY <1>6, <2>1 DEF FindRange
  <2>3. tx[r] \in TxType /\ shareIndex[lo] \in Nat /\ shareIndex[hi] \in Nat
    OBVIOUS
  <2>4. tx' \in [Rollers -> TxType]
    <3> DEFINE next == [tx[r] EXCEPT !.step = "ranged",
                                     !.start = shareIndex[lo],
                                     !.end = shareIndex[hi]]
    <3>1. next \in TxType
      BY <2>3 DEF TxType
    <3>2. tx' = [tx EXCEPT ![r] = next]
      BY <2>2
    <3> QED
      BY <3>1, <3>2
  <2> QED
    BY <1>6, <2>4 DEF FindRange
<1>7. ASSUME NEW r \in Rollers, ReadStats(r) PROVE TypeOK'
  <2> DEFINE next == [tx[r] EXCEPT !.step = "counted",
                !.counted = RowsBetween(tx[r].start, tx[r].end)]
  <2>1. RowsBetween(tx[r].start, tx[r].end) \in SUBSET PplnsShares
    BY DEF RowsBetween, Rows
  <2>2. next \in TxType
    BY <2>1 DEF TxType
  <2>3. tx' = [tx EXCEPT ![r] = next]
    BY <1>7 DEF ReadStats
  <2> QED
    BY <1>7, <2>2, <2>3 DEF ReadStats
<1>8. ASSUME NEW r \in Rollers, CommitRollup(r) PROVE TypeOK'
  <2>1. RowsBetween(tx[r].start, tx[r].end) \in SUBSET PplnsShares
    BY DEF RowsBetween, Rows
  <2>2. batches' \in SUBSET BatchType
    BY <1>8, <2>1 DEF CommitRollup, TxType, BatchType
  <2> QED
    BY <1>8, <2>2 DEF CommitRollup, TxType, IdleTx
<1>9. ASSUME NEW r \in Rollers, AbortRollup(r) PROVE TypeOK'
  BY <1>9 DEF AbortRollup, TxType, IdleTx
<1>10. ASSUME Tick PROVE TypeOK'
  BY <1>10 DEF Tick
<1>11. CASE UNCHANGED vars
  BY <1>11 DEF vars
<1> QED
  BY <1>1, <1>2, <1>3, <1>4, <1>5, <1>6, <1>7, <1>8, <1>9, <1>10, <1>11
     DEF Next, RollupStep

(* Every variable has its type in every reachable state. *)
THEOREM TypeCorrect == Spec => []TypeOK
<1>1. Init => TypeOK
  BY InitShareInv DEF ShareInv
<1> QED
  BY <1>1, StepTypeOK, PTL DEF Spec

-----------------------------------------------------------------------------
(* The rollup's own steps leave the shares and the clock alone. *)
LEMMA RollupKeepsShares ==
  ASSUME NEW r \in Rollers, RollupStep(r) \/ AbortRollup(r)
  PROVE  UNCHANGED <<now, shareVars>>
BY DEF RollupStep, BeginRollup, FindNoShares, FindRange, ReadStats,
       CommitRollup, AbortRollup

LEMMA StepIndexInv == ShareInv /\ [Next]_vars => IndexInv'
<1> SUFFICES ASSUME ShareInv, [Next]_vars PROVE IndexInv'
  OBVIOUS
<1> USE DEF ShareInv, TypeOK, IndexInv
<1>1. ASSUME NEW s \in Shares, RecordAcceptedShare(s) PROVE IndexInv'
  BY <1>1 DEF RecordAcceptedShare
<1>2. ASSUME NEW s \in Shares, AssignIndex(s) PROVE IndexInv'
  BY <1>2 DEF AssignIndex
<1>3. ASSUME NEW w \in Workers, FlushStep(w) PROVE IndexInv'
  <2>1. ASSUME NEW batch \in SUBSET Pending(w),
               phase' = [s \in Shares |->
                           IF s \in batch THEN "inserting" ELSE phase[s]],
               UNCHANGED <<shareIndex, nextIndex>>
        PROVE  IndexInv'
    BY <2>1
  <2>2. CASE BeginFlush(w)
    BY <2>1, <2>2 DEF BeginFlush
  <2>3. CASE CommitFlush(w)
    BY <2>3 DEF CommitFlush
  <2>4. CASE FailFlush(w) \/ ExitWorker(w)
    BY <2>4 DEF FailFlush, ExitWorker
  <2> QED
    BY <1>3, <2>2, <2>3, <2>4 DEF FlushStep
<1>4. ASSUME UNCHANGED shareVars PROVE IndexInv'
  BY <1>4 DEF shareVars
<1>5. ASSUME Tick PROVE IndexInv'
  BY <1>4, <1>5 DEF Tick
<1> QED
  BY <1>1, <1>2, <1>3, <1>4, <1>5, RollupKeepsShares DEF Next, vars, shareVars

(* The queueing delay is what bounds how far index order and the order of  *)
(* acceptance can disagree: whoever draws a higher index at time t was     *)
(* accepted after t - MaxDelay, and whoever drew a lower one, before t.    *)
LEMMA StepTimeInv == ShareInv /\ [Next]_vars => TimeInv'
<1> SUFFICES ASSUME ShareInv, [Next]_vars PROVE TimeInv'
  OBVIOUS
<1> USE ShareRollupAssumption DEF ShareInv, TypeOK, IndexInv, TimeInv
<1>1. ASSUME NEW s \in Shares, RecordAcceptedShare(s) PROVE TimeInv'
  BY <1>1 DEF RecordAcceptedShare
<1>2. ASSUME NEW s \in Shares, AssignIndex(s) PROVE TimeInv'
  <2>1. \A t \in Shares : shareIndex[t] # 0 => born[t] <= born[s] + MaxDelay
    BY <1>2 DEF AssignIndex
  <2> QED
    BY <1>2, <2>1 DEF AssignIndex
<1>3. ASSUME NEW w \in Workers, FlushStep(w) PROVE TimeInv'
  <2>1. UNCHANGED <<now, acceptedAt, born, shareIndex>>
    BY <1>3 DEF FlushStep, BeginFlush, CommitFlush, FailFlush, ExitWorker
  <2>2. \A s \in Shares :
           /\ phase'[s] # "new" => phase[s] # "new"
           /\ phase'[s] \in {"pending", "inserting"}
                => phase[s] \in {"pending", "inserting"}
    BY <1>3 DEF FlushStep, BeginFlush, CommitFlush, FailFlush, ExitWorker,
                Pending, Flight
  <2> QED
    BY <2>1, <2>2
<1>4. ASSUME UNCHANGED <<now, shareVars>> PROVE TimeInv'
  BY <1>4 DEF shareVars
<1>5. ASSUME Tick PROVE TimeInv'
  BY <1>5 DEF Tick, shareVars
<1> QED
  BY <1>1, <1>2, <1>3, <1>4, <1>5, RollupKeepsShares DEF Next, vars, shareVars

LEMMA ShareInvariance == Spec => []ShareInv
<1>1. ShareInv /\ [Next]_vars => ShareInv'
  BY StepTypeOK, StepIndexInv, StepTimeInv DEF ShareInv
<1> QED
  BY <1>1, InitShareInv, PTL DEF Spec

-----------------------------------------------------------------------------
(* The key fact: once a row is older than the lag, every insert that drew a *)
(* lower index has ended.  A lower index still on its way would have been   *)
(* accepted at most MaxDelay after that row, and at most MaxDelay ago.      *)
LEMMA OldRowsAreSettled ==
  ASSUME ShareInv,
         NEW hi \in Shares, phase[hi] = "committed",
         NEW startedAt \in Nat, startedAt <= now,
         acceptedAt[hi] <= startedAt - Lag
  PROVE  NoLateRow(shareIndex[hi])
<1> USE ShareRollupAssumption DEF ShareInv, TypeOK, IndexInv, TimeInv
<1>1. SUFFICES ASSUME NEW s \in Shares, phase[s] = "inserting",
                      shareIndex[s] # 0, ~(shareIndex[hi] < shareIndex[s])
               PROVE  FALSE
  BY DEF NoLateRow
<1>2. s # hi
  BY <1>1
<1>3. shareIndex[s] < shareIndex[hi]
  BY <1>1, <1>2
<1>4. born[s] <= born[hi] + MaxDelay
  BY <1>1, <1>3
<1>5. now <= born[s] + MaxDelay
  BY <1>1
<1>6. born[hi] <= acceptedAt[hi] + MaxSkew
  BY DEF Phases
<1> QED
  BY <1>4, <1>5, <1>6, LagAssumption

(* The watermark is one number: two maxima of one set are equal. *)
LEMMA OneWatermark ==
  ASSUME TypeOK, BatchInv, NEW v \in LastProcessed, NEW w \in LastProcessed
  PROVE  v = w /\ v \in Nat
BY DEF TypeOK, BatchInv, BatchType, LastProcessed

(* Rows below a row of the next batch are in the next batch as well, unless *)
(* they are at or below the watermark.                                      *)
LEMMA BoundedRowsPrefix ==
  ASSUME TypeOK, NEW last \in Nat, NEW startedAt \in Nat,
         NEW hi \in BoundedRows(last, startedAt),
         NEW s \in Rows, last < shareIndex[s], shareIndex[s] <= shareIndex[hi]
  PROVE  s \in BoundedRows(last, startedAt)
<1> DEFINE stable == StableRows(last, startedAt)
           below(t) == {c \in stable : shareIndex[c] < shareIndex[t]}
<1>1. stable \subseteq Shares /\ hi \in stable /\ s \in Shares
  BY ShareRollupAssumption DEF BoundedRows, StableRows, Rows
<1>2. s \in stable
  <2>1. ASSUME NEW u \in Rows, shareIndex[u] > last,
               acceptedAt[u] > startedAt - Lag
        PROVE  shareIndex[s] < shareIndex[u]
    <3>1. shareIndex[hi] < shareIndex[u]
      BY <1>1, <2>1 DEF StableRows
    <3>2. {shareIndex[s], shareIndex[hi], shareIndex[u]} \subseteq Nat
      BY <1>1, ShareRollupAssumption DEF TypeOK, Rows
    <3> QED
      BY <3>1, <3>2
  <2> QED
    BY <1>1, <2>1 DEF StableRows, TypeOK
<1>3. IsFiniteSet(below(hi)) /\ below(s) \subseteq below(hi)
  <2>1. below(hi) \subseteq Shares
    BY <1>1
  <2>2. IsFiniteSet(below(hi))
    BY <2>1, FS_Subset, ShareRollupAssumption
  <2>3. \A c \in stable :
           shareIndex[c] < shareIndex[s] => shareIndex[c] < shareIndex[hi]
    <3> SUFFICES ASSUME NEW c \in stable, shareIndex[c] < shareIndex[s]
                 PROVE  shareIndex[c] < shareIndex[hi]
      OBVIOUS
    <3>1. {shareIndex[c], shareIndex[s], shareIndex[hi]} \subseteq Nat
      BY <1>1 DEF TypeOK
    <3> QED
      BY <3>1
  <2> QED
    BY <2>2, <2>3
<1>4. Cardinality(below(s)) <= Cardinality(below(hi))
      /\ Cardinality(below(s)) \in Nat /\ Cardinality(below(hi)) \in Nat
  BY <1>3, FS_Subset, FS_CardinalityType
<1>5. Cardinality(below(hi)) < MaxSharesPerBatch
  BY DEF BoundedRows
<1>6. Cardinality(below(s)) < MaxSharesPerBatch
  <2> HIDE DEF below
  <2> QED
    BY <1>4, <1>5, ShareRollupAssumption
<1> QED
  BY <1>2, <1>6 DEF BoundedRows

(* What a transaction may rely on once it has its range. *)
LEMMA RangeIsSettled ==
  ASSUME ShareInv, RollupInv, NEW r \in Rollers,
         NEW lo \in NextRows(r), NEW hi \in NextRows(r),
         \A s \in NextRows(r) :
            shareIndex[s] \in shareIndex[lo]..shareIndex[hi]
  PROVE  /\ 1 <= shareIndex[lo] /\ shareIndex[lo] <= shareIndex[hi]
         /\ NoLateRow(shareIndex[hi])
         /\ \A b \in batches : b.end < shareIndex[lo]
         /\ \A s \in Rows : shareIndex[s] <= shareIndex[hi] =>
               \/ shareIndex[lo] <= shareIndex[s]
               \/ \E b \in batches : s \in b.summary
<1> DEFINE startedAt == tx[r].startedAt
<1>1. startedAt \in Nat /\ startedAt <= now
  BY DEF ShareInv, TypeOK, TxType, RollupInv, TxInv
<1>2. PICK last \in LastProcessed : hi \in BoundedRows(last, startedAt)
  BY DEF NextRows
<1>3. last \in Nat /\ lo \in BoundedRows(last, startedAt)
  BY <1>2, OneWatermark DEF NextRows, ShareInv, RollupInv
<1>4. /\ lo \in Rows /\ hi \in Rows
      /\ last < shareIndex[lo] /\ last < shareIndex[hi]
      /\ shareIndex[lo] \in Nat /\ shareIndex[hi] \in Nat
  BY <1>2, <1>3, ShareRollupAssumption
     DEF BoundedRows, StableRows, Rows, ShareInv, TypeOK
<1>5. acceptedAt[hi] <= startedAt - Lag
  BY <1>1, <1>2, <1>4, ShareRollupAssumption
     DEF BoundedRows, StableRows, Rows, ShareInv, TypeOK
<1>6. NoLateRow(shareIndex[hi])
  BY <1>1, <1>4, <1>5, OldRowsAreSettled, ShareRollupAssumption DEF Rows
<1>7. \A b \in batches : b.end < shareIndex[lo]
  BY <1>2, <1>3, <1>4 DEF LastProcessed, ShareInv, TypeOK, BatchType
<1>8. ASSUME NEW s \in Rows, shareIndex[s] <= shareIndex[hi]
      PROVE  \/ shareIndex[lo] <= shareIndex[s]
             \/ \E b \in batches : s \in b.summary
  <2>0. shareIndex[s] \in Nat /\ shareIndex[s] # 0
    BY ShareRollupAssumption DEF Rows, ShareInv, TypeOK, IndexInv
  <2>1. CASE last < shareIndex[s]
    <3>1. s \in NextRows(r)
      BY <1>1, <1>2, <1>3, <1>8, <2>1, BoundedRowsPrefix DEF NextRows, ShareInv
    <3> QED
      BY <2>0, <3>1, <1>4
  <2>2. CASE shareIndex[s] <= last
    <3>1. PICK w \in batches : w.end = last
      BY <1>2, <2>0, <2>2 DEF LastProcessed
    <3> QED
      BY <2>2, <3>1 DEF RollupInv, NoShareSkipped
  <2> QED
    BY <1>3, <2>0, <2>1, <2>2
<1> QED
  BY <1>3, <1>4, <1>6, <1>7, <1>8

-----------------------------------------------------------------------------
LEMMA InitRollupInv == Init => RollupInv
BY ShareRollupAssumption
   DEF Init, RollupInv, BatchInv, TxInv, HasRange, BatchesComplete,
       NoShareSkipped, BatchesDisjoint, IdleTx

(* Steps of the accepting side change neither a finalized range nor the    *)
(* range a transaction works on: a row that appears has an index above all *)
(* of them, and so has an index drawn now.                                 *)
LEMMA ShareStepRollupInv ==
  ASSUME ShareInv, RollupInv,
         \/ \E s \in Shares : RecordAcceptedShare(s) \/ AssignIndex(s)
         \/ \E w \in Workers : FlushStep(w)
         \/ Tick
  PROVE  RollupInv'
<1> USE ShareRollupAssumption
<1>1. UNCHANGED rollupVars /\ now <= now' /\ now' \in Nat
  BY DEF RecordAcceptedShare, AssignIndex, FlushStep, BeginFlush, CommitFlush,
         FailFlush, ExitWorker, Tick, rollupVars, ShareInv, TypeOK
<1>2. ASSUME NEW e \in Nat, NoLateRow(e)
      PROVE  /\ NoLateRow(e)'
             /\ \A s \in Rows : s \in Rows' /\ shareIndex'[s] = shareIndex[s]
             /\ \A s \in Rows' : s \in Rows \/ e < shareIndex'[s]
  <2> USE <1>2 DEF NoLateRow, Rows, ShareInv, TypeOK, IndexInv
  <2>1. CASE \E s \in Shares : RecordAcceptedShare(s)
    BY <2>1 DEF RecordAcceptedShare
  <2>2. CASE \E s \in Shares : AssignIndex(s)
    BY <2>2 DEF AssignIndex
  <2>3. CASE \E w \in Workers : BeginFlush(w)
    BY <2>3 DEF BeginFlush, Pending
  <2>4. CASE \E w \in Workers : CommitFlush(w)
    BY <2>4 DEF CommitFlush, Flight
  <2>5. CASE \E w \in Workers : FailFlush(w) \/ ExitWorker(w)
    BY <2>5 DEF FailFlush, ExitWorker, Flight, Pending
  <2>6. CASE Tick
    BY <2>6 DEF Tick, shareVars
  <2> QED
    BY <2>1, <2>2, <2>3, <2>4, <2>5, <2>6 DEF FlushStep
<1>3. ASSUME NEW lo \in Nat, NEW e \in Nat, NoLateRow(e)
      PROVE  RowsBetween(lo, e)' = RowsBetween(lo, e)
  <2>1. \A s \in Rows \cup Rows' : shareIndex[s] \in Nat /\ shareIndex'[s] \in Nat
    BY StepTypeOK DEF ShareInv, Rows, TypeOK, Next
  <2>2. ASSUME NEW s \in Rows', shareIndex'[s] <= e
        PROVE  s \in Rows /\ shareIndex'[s] = shareIndex[s]
    BY <1>2, <1>3, <2>1, <2>2
  <2> QED
    BY <1>2, <1>3, <2>1, <2>2 DEF RowsBetween
<1>4. BatchInv'
  BY <1>1, <1>2 DEF RollupInv, BatchInv, rollupVars, ShareInv, TypeOK, BatchType
<1>5. BatchesComplete'
  BY <1>1, <1>3
     DEF RollupInv, BatchInv, BatchesComplete, rollupVars, ShareInv, TypeOK,
         BatchType
<1>6. NoShareSkipped'
  <2> SUFFICES ASSUME NEW s \in Rows', NEW w \in batches,
                      shareIndex'[s] <= w.end
               PROVE  \E b \in batches : s \in b.summary
    BY <1>1 DEF NoShareSkipped, rollupVars
  <2>1. w.end \in Nat /\ NoLateRow(w.end)
    BY DEF RollupInv, BatchInv, ShareInv, TypeOK, BatchType
  <2>2. shareIndex'[s] \in Nat
    BY StepTypeOK DEF ShareInv, TypeOK, Rows, Next
  <2>3. s \in Rows /\ shareIndex'[s] = shareIndex[s]
    BY <1>2, <2>1, <2>2
  <2> QED
    BY <2>3 DEF RollupInv, NoShareSkipped
<1>7. TxInv'
  <2> SUFFICES ASSUME NEW r \in Rollers
               PROVE  TxInv!(r)'
    BY DEF TxInv
  <2>0. tx' = tx /\ batches' = batches /\ lock' = lock
    BY <1>1 DEF rollupVars
  <2>1. tx[r].startedAt \in Nat /\ tx[r].start \in Nat /\ tx[r].end \in Nat
    BY DEF ShareInv, TypeOK, TxType
  <2>2. tx[r].startedAt <= now'
    BY <1>1, <2>1 DEF RollupInv, TxInv, ShareInv, TypeOK
  <2>3. ASSUME HasRange(r), NEW s \in Rows', shareIndex'[s] <= tx[r].end
        PROVE  s \in Rows /\ shareIndex'[s] = shareIndex[s]
    <3>1. shareIndex'[s] \in Nat
      BY StepTypeOK DEF ShareInv, TypeOK, Rows, Next
    <3> QED
      BY <1>2, <2>1, <2>3, <3>1 DEF RollupInv, TxInv
  <2>4. HasRange(r) => NoLateRow(tx[r].end)'
    BY <1>2, <2>0, <2>1 DEF RollupInv, TxInv
  <2>5. tx[r].step = "counted" =>
           tx[r].counted = RowsBetween(tx[r].start, tx[r].end)'
    BY <1>3, <2>0, <2>1 DEF RollupInv, TxInv, HasRange
  <2> QED
    BY <2>0, <2>2, <2>3, <2>4, <2>5 DEF RollupInv, TxInv, HasRange
<1>8. BatchesDisjoint'
  BY <1>1 DEF RollupInv, BatchesDisjoint, rollupVars
<1> QED
  BY <1>4, <1>5, <1>6, <1>7, <1>8 DEF RollupInv

(* A rollup step of r changes no row; what it leaves of the invariant to    *)
(* show is what it says of r's own transaction and of the batches.          *)
LEMMA RollupStepFrame ==
  ASSUME ShareInv, NEW r \in Rollers, RollupStep(r) \/ AbortRollup(r)
  PROVE  /\ Rows' = Rows
         /\ \A lo, hi : RowsBetween(lo, hi)' = RowsBetween(lo, hi)
         /\ \A e : NoLateRow(e)' <=> NoLateRow(e)
         /\ now' = now /\ shareIndex' = shareIndex
<1>1. UNCHANGED <<now, phase, shareIndex, nextIndex>>
  BY RollupKeepsShares DEF shareVars
<1> QED
  BY <1>1 DEF Rows, RowsBetween, NoLateRow

(* Steps that leave the batches alone. *)
LEMMA ReadStepRollupInv ==
  ASSUME ShareInv, RollupInv, NEW r \in Rollers,
         \/ BeginRollup(r) \/ FindNoShares(r) \/ FindRange(r)
         \/ ReadStats(r) \/ AbortRollup(r)
  PROVE  RollupInv'
<1> USE DEF HasRange
<1>0. /\ Rows' = Rows
      /\ \A lo, hi : RowsBetween(lo, hi)' = RowsBetween(lo, hi)
      /\ \A e : NoLateRow(e)' <=> NoLateRow(e)
      /\ now' = now /\ shareIndex' = shareIndex
  BY RollupStepFrame DEF RollupStep
<1>1. batches' = batches
  BY DEF BeginRollup, FindNoShares, FindRange, ReadStats, AbortRollup
<1>2. BatchInv' /\ BatchesComplete' /\ NoShareSkipped' /\ BatchesDisjoint'
  BY <1>0, <1>1
     DEF RollupInv, BatchInv, BatchesComplete, NoShareSkipped, BatchesDisjoint
<1>3. tx \in [Rollers -> TxType] /\ now \in Nat
  BY DEF ShareInv, TypeOK
<1>4. CASE BeginRollup(r)
  BY <1>0, <1>1, <1>2, <1>3, <1>4, ShareRollupAssumption
     DEF BeginRollup, RollupInv, TxInv, IdleTx, TxType
<1>5. CASE FindNoShares(r) \/ AbortRollup(r)
  BY <1>0, <1>1, <1>2, <1>3, <1>5
     DEF FindNoShares, AbortRollup, RollupInv, TxInv, IdleTx, TxType
<1>6. CASE FindRange(r)
  <2>1. PICK lo \in NextRows(r), hi \in NextRows(r) :
           /\ \A s \in NextRows(r) :
                 shareIndex[s] \in shareIndex[lo]..shareIndex[hi]
           /\ tx' = [tx EXCEPT ![r].step = "ranged",
                               ![r].start = shareIndex[lo],
                               ![r].end = shareIndex[hi]]
    BY <1>6 DEF FindRange
  <2>2. /\ 1 <= shareIndex[lo] /\ shareIndex[lo] <= shareIndex[hi]
        /\ NoLateRow(shareIndex[hi])
        /\ \A b \in batches : b.end < shareIndex[lo]
        /\ \A s \in Rows : shareIndex[s] <= shareIndex[hi] =>
              \/ shareIndex[lo] <= shareIndex[s]
              \/ \E b \in batches : s \in b.summary
    BY <2>1, RangeIsSettled
  <2>3. lock' = lock /\ tx[r].step = "locked"
    BY <1>6 DEF FindRange
  <2>4. TxInv'
    BY <1>0, <1>1, <1>3, <2>1, <2>2, <2>3 DEF RollupInv, TxInv, TxType
  <2> QED
    BY <1>2, <2>4 DEF RollupInv
<1>7. CASE ReadStats(r)
  BY <1>0, <1>1, <1>2, <1>3, <1>7 DEF ReadStats, RollupInv, TxInv, TxType
<1> QED
  BY <1>4, <1>5, <1>6, <1>7

(* The batch a transaction inserts is complete, starts above all others and *)
(* leaves no row behind; only its process was in a transaction.             *)
LEMMA CommitStepRollupInv ==
  ASSUME ShareInv, RollupInv, NEW r \in Rollers, CommitRollup(r)
  PROVE  RollupInv'
<1> USE DEF HasRange
<1>0. /\ Rows' = Rows
      /\ \A lo, hi : RowsBetween(lo, hi)' = RowsBetween(lo, hi)
      /\ \A e : NoLateRow(e)' <=> NoLateRow(e)
      /\ now' = now /\ shareIndex' = shareIndex
  BY RollupStepFrame DEF RollupStep
<1> DEFINE new == [start   |-> tx[r].start,
                   end     |-> tx[r].end,
                   counted |-> tx[r].counted,
                   summary |-> RowsBetween(tx[r].start, tx[r].end)]
<1>1. batches' = batches \cup {new}
  BY DEF CommitRollup
<1>2. /\ tx[r].step = "counted" /\ lock = r
      /\ 1 <= tx[r].start /\ tx[r].start <= tx[r].end
      /\ NoLateRow(tx[r].end)
      /\ \A b \in batches : b.end < tx[r].start
      /\ \A s \in Rows : shareIndex[s] <= tx[r].end =>
            \/ tx[r].start <= shareIndex[s]
            \/ \E b \in batches : s \in b.summary
      /\ tx[r].counted = RowsBetween(tx[r].start, tx[r].end)
  BY DEF CommitRollup, RollupInv, TxInv
<1>3. BatchInv'
  BY <1>0, <1>1, <1>2 DEF RollupInv, BatchInv
<1>4. BatchesComplete'
  BY <1>0, <1>1, <1>2 DEF RollupInv, BatchesComplete
<1>5. NoShareSkipped'
  <2> SUFFICES ASSUME NEW s \in Rows, NEW w \in batches',
                      shareIndex[s] <= w.end
               PROVE  \E b \in batches' : s \in b.summary
    BY <1>0 DEF NoShareSkipped
  <2>1. CASE w \in batches
    BY <1>1, <2>1 DEF RollupInv, NoShareSkipped
  <2>2. CASE w = new
    <3>1. CASE tx[r].start <= shareIndex[s]
      BY <1>1, <2>2, <3>1 DEF RowsBetween
    <3> QED
      BY <1>1, <1>2, <2>2, <3>1
  <2> QED
    BY <1>1, <2>1, <2>2
<1>6. BatchesDisjoint'
  <2>1. \A b \in batches : b.end < new.start
    BY <1>2
  <2> QED
    BY <1>1, <2>1 DEF RollupInv, BatchesDisjoint
<1>7. TxInv'
  <2>1. \A q \in Rollers \ {r} : tx[q].step = "idle"
    BY <1>2 DEF RollupInv, TxInv
  <2>2. tx' = [tx EXCEPT ![r] = IdleTx] /\ tx \in [Rollers -> TxType]
    BY DEF CommitRollup, ShareInv, TypeOK
  <2>3. \A q \in Rollers : tx'[q].step = "idle"
    BY <2>1, <2>2 DEF IdleTx
  <2>4. \A q \in Rollers : tx'[q].startedAt <= now'
    BY <1>0, <2>2 DEF IdleTx, RollupInv, TxInv, ShareInv, TypeOK
  <2> QED
    BY <2>3, <2>4 DEF TxInv
<1> QED
  BY <1>3, <1>4, <1>5, <1>6, <1>7 DEF RollupInv

LEMMA StepRollupInv == ShareInv /\ RollupInv /\ [Next]_vars => RollupInv'
<1> SUFFICES ASSUME ShareInv, RollupInv, [Next]_vars PROVE RollupInv'
  OBVIOUS
<1>1. CASE UNCHANGED vars
  BY <1>1 DEF vars, RollupInv, BatchInv, TxInv, HasRange, NoLateRow, Rows,
              RowsBetween, BatchesComplete, NoShareSkipped, BatchesDisjoint
<1> QED
  BY <1>1, ShareStepRollupInv, ReadStepRollupInv, CommitStepRollupInv
     DEF Next, RollupStep

LEMMA RollupInvariance == Spec => []RollupInv
  BY ShareInvariance, InitRollupInv, StepRollupInv, PTL DEF Spec

(* A finalized batch holds exactly the rows of its range, now and later:    *)
(* the count of the batch and its summary agree, and nothing commits into   *)
(* a finalized range, whatever the interleaving of inserts and rollups, if  *)
(* the lag exceeds twice the longest way to the table plus the clock skew.  *)
THEOREM BatchesAreComplete == Spec => []BatchesComplete
  BY RollupInvariance, PTL DEF RollupInv

(* No committed PPLNS share at or below the watermark is missing from the   *)
(* batches: the rollup, which never looks back, does not have to.           *)
THEOREM NoShareIsSkipped == Spec => []NoShareSkipped
  BY RollupInvariance, PTL DEF RollupInv

(* No share is in two batches, with any number of processes running the     *)
(* rollup timer.                                                            *)
THEOREM BatchesAreDisjoint == Spec => []BatchesDisjoint
  BY RollupInvariance, PTL DEF RollupInv

-----------------------------------------------------------------------------
(* The refinement of ShareLedger. *)

Crediting(s) == {b \in batches : s \in b.summary}

LEMMA CardinalityOfOne ==
  /\ Cardinality({}) = 0
  /\ \A x : Cardinality({x}) = 1
BY FS_EmptySet, FS_Singleton

LEMMA LedgerInit == Init => Ledger!Init
<1> SUFFICES ASSUME Init PROVE Ledger!Init
  OBVIOUS
<1>1. Rows = {}
  BY ShareRollupAssumption DEF Init, Rows
<1>2. \A s : {b \in batches : s \in b.summary} = {}
  BY DEF Init
<1> QED
  BY <1>1, <1>2, CardinalityOfOne DEF Ledger!Init

(* Rows only ever appear, and only when an INSERT commits.                  *)
LEMMA RowsAppear ==
  ASSUME TypeOK, [Next]_vars
  PROVE  Rows \subseteq Rows' /\ Rows' \subseteq PplnsShares
<1> USE ShareRollupAssumption DEF TypeOK, Rows
<1>1. ASSUME NEW s \in Shares, RecordAcceptedShare(s) \/ AssignIndex(s)
      PROVE  Rows \subseteq Rows'
  BY <1>1 DEF RecordAcceptedShare, AssignIndex
<1>2. ASSUME NEW w \in Workers, FlushStep(w) PROVE Rows \subseteq Rows'
  BY <1>2 DEF FlushStep, BeginFlush, CommitFlush, FailFlush, ExitWorker,
              Pending, Flight
<1>3. ASSUME NEW r \in Rollers, RollupStep(r) \/ AbortRollup(r)
      PROVE  Rows \subseteq Rows'
  BY <1>3, RollupKeepsShares DEF shareVars
<1>4. CASE Tick \/ UNCHANGED vars
  BY <1>4 DEF Tick, shareVars, vars
<1> QED
  BY <1>1, <1>2, <1>3, <1>4 DEF Next

(* A step that leaves the batches alone records the rows that appeared.     *)
LEMMA OthersRecord ==
  ASSUME TypeOK, [Next]_vars, batches' = batches
  PROVE  Ledger!Record \/ UNCHANGED Ledger!vars
<1> DEFINE new == Rows' \ Rows
<1>1. Rows' = Rows \cup new /\ new \in SUBSET (PplnsShares \ Rows)
  BY RowsAppear
<1> HIDE DEF new
<1>2. CASE new = {}
  BY <1>1, <1>2 DEF Ledger!vars
<1>3. CASE new # {}
  BY <1>1, <1>3 DEF Ledger!Record
<1> QED
  BY <1>2, <1>3

(* A batch that commits credits its rows, which no batch had credited.      *)
LEMMA CommitCredits ==
  ASSUME ShareInv, RollupInv, NEW r \in Rollers, CommitRollup(r)
  PROVE  Ledger!Credit \/ UNCHANGED Ledger!vars
<1> DEFINE range == RowsBetween(tx[r].start, tx[r].end)
           new == [start |-> tx[r].start, end |-> tx[r].end,
                   counted |-> tx[r].counted, summary |-> range]
<1>1. batches' = batches \cup {new} /\ Rows' = Rows
  BY RollupStepFrame DEF CommitRollup, RollupStep
<1>2. \A b \in batches : b.end < tx[r].start
  BY DEF CommitRollup, RollupInv, TxInv, HasRange
<1>3. range \subseteq Rows /\ Rows \subseteq PplnsShares
  BY DEF RowsBetween, Rows
<1>4. \A s \in range : Crediting(s) = {}
  <2> SUFFICES ASSUME NEW s \in range, NEW b \in batches, s \in b.summary
               PROVE  FALSE
    BY DEF Crediting
  <2>1. shareIndex[s] <= b.end
    BY DEF RollupInv, BatchesComplete, RowsBetween
  <2>2. tx[r].start <= shareIndex[s]
    BY DEF RowsBetween
  <2>3. /\ shareIndex[s] \in Nat /\ tx[r].start \in Nat /\ b.end \in Nat
    <3>1. s \in Shares
      BY <1>3, ShareRollupAssumption
    <3>2. tx[r] \in TxType /\ b \in BatchType /\ shareIndex[s] \in Nat
      BY <3>1 DEF ShareInv, TypeOK
    <3> QED
      BY <3>2 DEF TxType, BatchType
  <2> QED
    BY <1>2, <2>1, <2>2, <2>3
<1>5. \A s : {b \in batches' : s \in b.summary}
               = IF s \in range THEN Crediting(s) \cup {new} ELSE Crediting(s)
  <2>1. new.summary = range
    OBVIOUS
  <2> HIDE DEF new, range
  <2> QED
    BY <1>1, <2>1 DEF Crediting
<1> HIDE DEF new
<1>6. \A s \in PplnsShares : Cardinality({b \in batches' : s \in b.summary})
          = IF s \in range THEN 1
            ELSE Cardinality({b \in batches : s \in b.summary})
  <2>1. ASSUME NEW s \in range
        PROVE  Cardinality({b \in batches' : s \in b.summary}) = 1
    <3>1. {b \in batches' : s \in b.summary} = {new}
      BY <1>4, <1>5
    <3> QED
      BY <3>1, CardinalityOfOne
  <2> QED
    BY <1>5, <2>1 DEF Crediting
<1>7. \A s \in range : Cardinality({b \in batches : s \in b.summary}) = 0
  BY <1>4, CardinalityOfOne DEF Crediting
<1> HIDE DEF range
<1> DEFINE credits == [s \in PplnsShares |->
                          Cardinality({b \in batches : s \in b.summary})]
<1>8. /\ credits' = [s \in PplnsShares |-> IF s \in range THEN 1 ELSE credits[s]]
      /\ \A s \in range : credits[s] = 0
  BY <1>3, <1>6, <1>7
<1>9. CASE range = {}
  <2>1. credits' = credits
    BY <1>8, <1>9
  <2> QED
    BY <1>1, <2>1 DEF Ledger!vars
<1>10. CASE range # {}
  <2>1. range \in SUBSET {s \in Rows : credits[s] = 0}
    BY <1>3, <1>8
  <2> QED
    BY <1>1, <1>8, <1>10, <2>1 DEF Ledger!Credit
<1> QED
  BY <1>9, <1>10

LEMMA LedgerNext ==
  ShareInv /\ RollupInv /\ [Next]_vars => [Ledger!Next]_Ledger!vars
<1> SUFFICES ASSUME ShareInv, RollupInv, [Next]_vars
             PROVE  Ledger!Next \/ UNCHANGED Ledger!vars
  OBVIOUS
<1>1. CASE \E r \in Rollers : CommitRollup(r)
  BY <1>1, CommitCredits DEF Ledger!Next
<1>2. CASE ~\E r \in Rollers : CommitRollup(r)
  <2>1. batches' = batches
    BY <1>2 DEF Next, vars, rollupVars, RecordAcceptedShare, AssignIndex,
         FlushStep, BeginFlush, CommitFlush, FailFlush, ExitWorker, RollupStep,
         BeginRollup, FindNoShares, FindRange, ReadStats, AbortRollup, Tick
  <2> QED
    BY <2>1, OthersRecord DEF ShareInv, Ledger!Next
<1> QED
  BY <1>1, <1>2

(* The rollup credits each recorded share exactly once and nothing else: it *)
(* implements ShareLedger, whatever the workers' inserts, the masters'      *)
(* transactions, their failures and the clocks do within the lag's contract.*)
THEOREM RollupImplementsLedger == Spec => ImplementsLedger
<1> QED
  BY ShareInvariance, RollupInvariance, LedgerInit, LedgerNext, PTL
     DEF Spec, ImplementsLedger, Ledger!Spec

-----------------------------------------------------------------------------
(* Found blocks. *)

TaskType ==
    [at : {"submit", "look", "write", "finalize", "book"}, block : Blocks,
     by : {"miner", "tdp"}, mode : Modes,
     result : {"none", "success", "null", "rejected", "expected"},
     snapshot : Blocks \cup {None}, seen : Nat, seenInternal : BOOLEAN]

RowType ==
    [block : Blocks, result : {"success", "null", "rejected", "expected"},
     snapshot : Blocks \cup {None}, by : {"miner", "tdp"}, mode : Modes]

TypeInv ==
    /\ taken \in PoolBlocks \cup GatewayBlocks \cup {None}
    /\ rows \in Seq(RowType)
    /\ tasks \in Seq(TaskType)
    /\ history \in [block : Blocks \cup {None}, snapshot : Blocks \cup {None}]
    /\ booked \in Seq(Blocks)
    /\ reports \in 0..MaxReports
    /\ trouble \in BOOLEAN

(* What a handler that has its answer may have been told of a block.       *)
Answers(b, result) ==
    /\ b \in PoolBlocks => result \in {"success", "rejected"}
    /\ b \in GatewayBlocks => result = "expected"
    /\ b \in Claims => result = "null"

(* The row r holds what the handler wrote when it was told of success.     *)
Wrote(task, r) ==
    /\ rows[r].block = task.block
    /\ Successful(rows[r].result)
    /\ task.result = "success" =>
          rows[r].result = "success" /\ rows[r].snapshot = task.snapshot

TaskOK(task) ==
    /\ task.snapshot = IF task.mode = "pplns" THEN task.block ELSE None
    /\ task.at = "submit" => task.block \in PoolBlocks /\ task.result = "none"
    /\ task.at # "submit" => Answers(task.block, task.result)
    /\ task.result = "success" => task.block = taken
    /\ task.at = "write" /\ task.seen # 0 =>
          task.seen \in DOMAIN rows /\ rows[task.seen].block = task.block
    /\ task.at \in {"finalize", "book"} /\ Successful(task.result) =>
          \E r \in DOMAIN rows : Wrote(task, r)
    /\ task.at = "book" => Successful(task.result) /\ task.mode = "pplns"

TaskInv == \A i \in DOMAIN tasks : TaskOK(tasks[i])

OneSuccess ==
    \A i, j \in DOMAIN tasks :
        tasks[i].result = "success" /\ tasks[j].result = "success" => i = j

RowOK(row) ==
    /\ row.block \in PoolBlocks =>
          /\ row.result \in {"success", "rejected"}
          /\ row.result = "success" => row.block = taken
    /\ row.block \in GatewayBlocks => row.result = "expected"
    /\ row.block \in Claims => row.result \in {"null", "success"}

RowInv ==
    /\ \A r \in DOMAIN rows : RowOK(rows[r])
    /\ \A r, q \in DOMAIN rows : rows[r].block = rows[q].block => r = q

BookedInv ==
    /\ \A k \in DOMAIN booked : booked[k] \notin Claims =>
          /\ booked[k] = taken
          /\ \A i \in DOMAIN tasks : tasks[i].result # "success"
    /\ \A k, l \in DOMAIN booked :
          booked[k] \notin Claims /\ booked[l] \notin Claims => k = l
    /\ history.block # None =>
          \E k \in DOMAIN booked : booked[k] = history.block

(* A handler on its way with the node's word, before or after it wrote it. *)
OnItsWay(i) == tasks[i].result = "success" /\ tasks[i].at \in {"look", "write"}
ToFinalize(i) ==
    /\ tasks[i].result = "success"
    /\ tasks[i].at \in {"finalize", "book"}
    /\ tasks[i].mode = "pplns"

TakenRow(r) ==
    /\ rows[r].block = taken
    /\ rows[r].result = "success"
    /\ \/ rows[r].snapshot = None
       \/ history.block # None
       \/ \E i \in DOMAIN tasks : ToFinalize(i)

(* The block of the pool that the node took is not forgotten.              *)
TakenInv ==
    ~trouble /\ taken \in PoolBlocks =>
        \/ \E i \in DOMAIN tasks : OnItsWay(i)
        \/ \E r \in DOMAIN rows : TakenRow(r)

BlocksInv ==
    /\ TypeInv /\ TaskInv /\ OneSuccess /\ RowInv /\ BookedInv
    /\ FinalizedIsRecorded /\ TakenInv

-----------------------------------------------------------------------------
(* Sequences. *)

(* What is left when the i-th element of a sequence is gone.               *)
LEMMA RemoveAtProperties ==
    ASSUME NEW S, NEW seq \in Seq(S), NEW i \in DOMAIN seq
    PROVE  /\ RemoveAt(seq, i) \in Seq(S)
           /\ Len(RemoveAt(seq, i)) = Len(seq) - 1
           /\ \A j \in 1 .. Len(seq) - 1 :
                 RemoveAt(seq, i)[j] = IF j < i THEN seq[j] ELSE seq[j + 1]
<1> DEFINE n == Len(seq)
           front == SubSeq(seq, 1, i - 1)
           rest == SubSeq(seq, i + 1, n)
<1>1. /\ n \in Nat /\ i \in 1..n
      /\ \A j \in 1..n : seq[j] \in S
  BY LenProperties, ElementOfSeq
<1>2. /\ front \in Seq(S) /\ Len(front) = i - 1
      /\ \A j \in 1 .. i - 1 : front[j] = seq[j]
  <2>1. \A j \in 1 .. i - 1 : seq[j] \in S
    BY <1>1
  <2>2. /\ front \in Seq(S)
        /\ Len(front) = IF 1 <= i - 1 THEN i - 1 - 1 + 1 ELSE 0
        /\ \A j \in 1 .. i - 1 - 1 + 1 : front[j] = seq[1 + j - 1]
    BY <1>1, <2>1, SubSeqProperties
  <2> QED
    BY <1>1, <2>2
<1>3. /\ rest \in Seq(S) /\ Len(rest) = n - i
      /\ \A j \in 1 .. n - i : rest[j] = seq[i + j]
  <2>1. \A j \in i + 1 .. n : seq[j] \in S
    BY <1>1
  <2>2. /\ rest \in Seq(S)
        /\ Len(rest) = IF i + 1 <= n THEN n - (i + 1) + 1 ELSE 0
        /\ \A j \in 1 .. n - (i + 1) + 1 : rest[j] = seq[i + 1 + j - 1]
    BY <1>1, <2>1, SubSeqProperties
  <2> QED
    BY <1>1, <2>2
<1> HIDE DEF n, front, rest
<1>4. /\ front \o rest \in Seq(S) /\ Len(front \o rest) = n - 1
      /\ \A j \in 1 .. n - 1 : (front \o rest)[j] =
            IF j <= i - 1 THEN front[j] ELSE rest[j - (i - 1)]
  <2>1. /\ front \o rest \in Seq(S)
        /\ Len(front \o rest) = Len(front) + Len(rest)
        /\ \A j \in 1 .. Len(front) + Len(rest) : (front \o rest)[j] =
              IF j <= Len(front) THEN front[j] ELSE rest[j - Len(front)]
    BY <1>2, <1>3, ConcatProperties
  <2>2. Len(front) + Len(rest) = n - 1
    BY <1>1, <1>2, <1>3
  <2> QED
    BY <1>2, <2>1, <2>2
<1>5. ASSUME NEW j \in 1 .. n - 1
      PROVE  (front \o rest)[j] = IF j < i THEN seq[j] ELSE seq[j + 1]
  <2>1. CASE j < i
    BY <1>1, <1>2, <1>4, <2>1
  <2>2. CASE ~(j < i)
    <3>1. ~(j <= i - 1) /\ j - (i - 1) \in 1 .. n - i
      BY <1>1, <2>2
    <3>2. (front \o rest)[j] = seq[i + (j - (i - 1))]
      BY <1>3, <1>4, <3>1
    <3>3. i + (j - (i - 1)) = j + 1
      BY <1>1
    <3> QED
      BY <2>2, <3>2, <3>3
  <2> QED
    BY <2>1, <2>2
<1> QED
  BY <1>4, <1>5 DEF RemoveAt, front, rest, n

(* What a handler that ends, goes on or begins leaves of the handlers.     *)
LEMMA AfterDone ==
    ASSUME tasks \in Seq(TaskType), NEW i \in DOMAIN tasks, Done(i)
    PROVE  /\ tasks' \in Seq(TaskType)
           /\ \A j \in DOMAIN tasks' : LET k == IF j < i THEN j ELSE j + 1 IN
                 k \in DOMAIN tasks /\ k # i /\ tasks'[j] = tasks[k]
           /\ \A k \in DOMAIN tasks : k # i =>
                 \E j \in DOMAIN tasks' : tasks'[j] = tasks[k]
<1>1. Len(tasks) \in Nat /\ DOMAIN tasks = 1..Len(tasks)
  BY LenProperties
<1>2. /\ tasks' \in Seq(TaskType) /\ Len(tasks') = Len(tasks) - 1
      /\ \A j \in 1 .. Len(tasks) - 1 :
            tasks'[j] = IF j < i THEN tasks[j] ELSE tasks[j + 1]
  BY RemoveAtProperties DEF Done
<1>3. DOMAIN tasks' = 1 .. Len(tasks) - 1
  BY <1>2, LenProperties
<1>4. ASSUME NEW k \in DOMAIN tasks, k # i
      PROVE  \E j \in DOMAIN tasks' : tasks'[j] = tasks[k]
  <2>1. CASE k < i
    BY <1>1, <1>2, <1>3, <2>1
  <2>2. CASE k > i
    <3>1. k - 1 \in DOMAIN tasks' /\ tasks'[k - 1] = tasks[k - 1 + 1]
      BY <1>1, <1>2, <1>3, <2>2
    <3> QED
      BY <1>1, <3>1
  <2> QED
    BY <1>1, <1>4, <2>1, <2>2
<1> QED
  BY <1>1, <1>2, <1>3, <1>4

LEMMA AfterGoesOn ==
    ASSUME tasks \in Seq(TaskType), NEW i \in DOMAIN tasks,
           NEW task \in TaskType, GoesOn(i, task)
    PROVE  /\ tasks' \in Seq(TaskType)
           /\ DOMAIN tasks' = DOMAIN tasks
           /\ \A j \in DOMAIN tasks :
                 tasks'[j] = IF j = i THEN task ELSE tasks[j]
<1>1. DOMAIN tasks = 1..Len(tasks)
  BY LenProperties
<1>2. /\ tasks' \in Seq(TaskType) /\ Len(tasks') = Len(tasks)
      /\ \A j \in 1..Len(tasks) : tasks'[j] = IF j = i THEN task ELSE tasks[j]
  BY <1>1, ExceptSeq DEF GoesOn
<1> QED
  BY <1>1, <1>2, LenProperties

LEMMA AfterAppend ==
    ASSUME NEW S, NEW seq \in Seq(S), NEW e \in S
    PROVE  /\ Append(seq, e) \in Seq(S)
           /\ DOMAIN seq = 1..Len(seq) /\ Len(seq) \in Nat
           /\ DOMAIN Append(seq, e) = 1 .. Len(seq) + 1
           /\ \A j \in DOMAIN seq : Append(seq, e)[j] = seq[j]
           /\ Append(seq, e)[Len(seq) + 1] = e
BY AppendProperties, LenProperties

-----------------------------------------------------------------------------
(* The handlers' steps. *)

LEMMA TaskTyped ==
    ASSUME TypeInv, NEW i \in DOMAIN tasks
    PROVE  tasks[i] \in TaskType
BY ElementOfSeq, LenProperties DEF TypeInv

(* What a handler is told does not depend on where the tasks are kept.     *)
LEMMA TaskOKSame ==
    ASSUME UNCHANGED <<taken, rows>>
    PROVE  \A task : TaskOK(task)' <=> TaskOK(task)
BY DEF TaskOK, Wrote

(* While the node took no block nobody was told of success.                *)
LEMMA NoneTaken ==
    ASSUME BlocksInv, taken = None
    PROVE  \A i \in DOMAIN tasks : tasks[i].result # "success"
<1> SUFFICES ASSUME NEW i \in DOMAIN tasks, tasks[i].result = "success"
             PROVE  FALSE
  OBVIOUS
<1>1. tasks[i].block = None
  BY DEF BlocksInv, TaskInv, TaskOK
<1>2. tasks[i].block \in Blocks
  BY TaskTyped DEF BlocksInv, TaskType
<1> QED
  BY <1>1, <1>2, FoundBlocksAssumption DEF Blocks

LEMMA InitInv == BlocksInit => BlocksInv
<1> SUFFICES ASSUME BlocksInit PROVE BlocksInv
  OBVIOUS
<1> USE DEF BlocksInit
<1>1. \A S : <<>> \in Seq(S) /\ DOMAIN <<>> = {}
  <2>1. \A S : <<>> \in Seq(S) /\ Len(<<>>) = 0
    BY EmptySeq
  <2>2. DOMAIN <<>> = 1..Len(<<>>)
    BY <2>1, LenProperties
  <2>3. 1..0 = {}
    OBVIOUS
  <2> QED
    BY <2>1, <2>2, <2>3
<1>2. TypeInv
  <2>1. rows \in Seq(RowType) /\ tasks \in Seq(TaskType) /\ booked \in Seq(Blocks)
    BY <1>1
  <2>2. reports \in 0..MaxReports
    BY FoundBlocksAssumption
  <2>3. history \in [block : Blocks \cup {None}, snapshot : Blocks \cup {None}]
    OBVIOUS
  <2> QED
    BY <2>1, <2>2, <2>3 DEF TypeInv
<1>3. TaskInv /\ OneSuccess /\ RowInv /\ BookedInv /\ FinalizedIsRecorded
  BY <1>1 DEF TaskInv, OneSuccess, RowInv, BookedInv, FinalizedIsRecorded
<1>4. TakenInv
  BY FoundBlocksAssumption DEF TakenInv
<1> QED
  BY <1>2, <1>3, <1>4 DEF BlocksInv

(* The pool's block is not lost in a step that loses no handler's word.    *)
LEMMA WordKept ==
    ASSUME TakenInv, UNCHANGED <<taken, rows>>, trouble => trouble',
           history.block # None => history'.block # None,
           \A k \in DOMAIN tasks : OnItsWay(k) =>
               \E j \in DOMAIN tasks' : OnItsWay(j)',
           \A k \in DOMAIN tasks : ToFinalize(k) =>
               \/ history'.block # None
               \/ \E j \in DOMAIN tasks' : ToFinalize(j)'
    PROVE  TakenInv'
<1> SUFFICES ASSUME ~trouble, taken \in PoolBlocks
             PROVE  \/ \E j \in DOMAIN tasks' : OnItsWay(j)'
                    \/ \E r \in DOMAIN rows : TakenRow(r)'
  BY DEF TakenInv
<1>1. CASE \E k \in DOMAIN tasks : OnItsWay(k)
  BY <1>1
<1>2. ASSUME NEW r \in DOMAIN rows, TakenRow(r) PROVE TakenRow(r)'
  BY <1>2 DEF TakenRow
<1> QED
  BY <1>1, <1>2 DEF TakenInv

(* A handler begins, with no word of the node yet.                         *)
LEMMA BeginKeepsInv ==
    ASSUME BlocksInv, NEW task \in TaskType, TaskOK(task), task.result # "success",
           tasks' = Append(tasks, task), reports' \in 0..MaxReports,
           UNCHANGED <<taken, rows, history, booked, trouble>>
    PROVE  BlocksInv'
<1>1. /\ tasks' \in Seq(TaskType)
      /\ DOMAIN tasks = 1..Len(tasks) /\ Len(tasks) \in Nat
      /\ DOMAIN tasks' = 1 .. Len(tasks) + 1
      /\ \A j \in DOMAIN tasks : tasks'[j] = tasks[j]
      /\ tasks'[Len(tasks) + 1] = task
  BY AfterAppend DEF BlocksInv, TypeInv
<1>2. \A j \in DOMAIN tasks' :
          (j \in DOMAIN tasks /\ tasks'[j] = tasks[j]) \/ tasks'[j] = task
  BY <1>1
<1>3. DOMAIN tasks \subseteq DOMAIN tasks'
  BY <1>1
<1>4. TypeInv'
  BY <1>1 DEF BlocksInv, TypeInv
<1>5. TaskInv'
  <2>1. \A j \in DOMAIN tasks' : TaskOK(tasks'[j])
    BY <1>2 DEF BlocksInv, TaskInv
  <2> QED
    BY <2>1, TaskOKSame DEF TaskInv
<1>6. OneSuccess' /\ BookedInv'
  BY <1>2 DEF BlocksInv, OneSuccess, BookedInv
<1>7. RowInv' /\ FinalizedIsRecorded'
  BY DEF BlocksInv, RowInv, RowOK, FinalizedIsRecorded, Public
<1>8. TakenInv'
  <2>1. \A k \in DOMAIN tasks : OnItsWay(k) => OnItsWay(k)'
    BY <1>1 DEF OnItsWay
  <2>2. \A k \in DOMAIN tasks : ToFinalize(k) => ToFinalize(k)'
    BY <1>1 DEF ToFinalize
  <2> QED
    BY <1>3, <2>1, <2>2, WordKept DEF BlocksInv
<1> QED
  BY <1>4, <1>5, <1>6, <1>7, <1>8 DEF BlocksInv

(* A handler ends, and whoever it was, the pool's block is not lost.       *)
LEMMA EndKeepsInv ==
    ASSUME BlocksInv, NEW i \in DOMAIN tasks, Done(i),
           UNCHANGED <<taken, rows, history, booked, reports>>,
           trouble' \in BOOLEAN, TakenInv'
    PROVE  BlocksInv'
<1>1. /\ tasks' \in Seq(TaskType)
      /\ \A j \in DOMAIN tasks' : LET k == IF j < i THEN j ELSE j + 1 IN
            k \in DOMAIN tasks /\ k # i /\ tasks'[j] = tasks[k]
  BY AfterDone DEF BlocksInv, TypeInv
<1>2. TypeInv'
  BY <1>1 DEF BlocksInv, TypeInv
<1>3. TaskInv'
  <2>1. \A j \in DOMAIN tasks' : TaskOK(tasks'[j])
    BY <1>1 DEF BlocksInv, TaskInv
  <2> QED
    BY <2>1, TaskOKSame DEF TaskInv
<1>4. OneSuccess'
  <2> SUFFICES ASSUME NEW j \in DOMAIN tasks', NEW l \in DOMAIN tasks',
                      tasks'[j].result = "success", tasks'[l].result = "success"
               PROVE  j = l
    BY DEF OneSuccess
  <2>1. j \in Nat /\ l \in Nat /\ i \in Nat
    BY <1>1, LenProperties DEF BlocksInv, TypeInv
  <2>2. (IF j < i THEN j ELSE j + 1) = (IF l < i THEN l ELSE l + 1)
    BY <1>1 DEF BlocksInv, OneSuccess
  <2> QED
    BY <2>1, <2>2
<1>5. BookedInv'
  BY <1>1 DEF BlocksInv, BookedInv
<1>6. RowInv' /\ FinalizedIsRecorded'
  BY DEF BlocksInv, RowInv, RowOK, FinalizedIsRecorded, Public
<1> QED
  BY <1>2, <1>3, <1>4, <1>5, <1>6 DEF BlocksInv

(* A handler goes on with what it was told.                                *)
LEMMA GoOnKeepsInv ==
    ASSUME BlocksInv, NEW i \in DOMAIN tasks, NEW task \in TaskType,
           GoesOn(i, task), TaskOK(task), task.result = tasks[i].result,
           UNCHANGED <<taken, rows, history, booked, reports, trouble>>,
           TakenInv'
    PROVE  BlocksInv'
<1>1. /\ tasks' \in Seq(TaskType)
      /\ DOMAIN tasks' = DOMAIN tasks
      /\ \A j \in DOMAIN tasks : tasks'[j] = IF j = i THEN task ELSE tasks[j]
  BY AfterGoesOn DEF BlocksInv, TypeInv
<1>2. \A j \in DOMAIN tasks' : tasks'[j].result = tasks[j].result
  BY <1>1
<1>3. TypeInv'
  BY <1>1 DEF BlocksInv, TypeInv
<1>4. TaskInv'
  <2>1. \A j \in DOMAIN tasks' : TaskOK(tasks'[j])
    BY <1>1 DEF BlocksInv, TaskInv
  <2> QED
    BY <2>1, TaskOKSame DEF TaskInv
<1>5. OneSuccess' /\ BookedInv'
  BY <1>1, <1>2 DEF BlocksInv, OneSuccess, BookedInv
<1>6. RowInv' /\ FinalizedIsRecorded'
  BY DEF BlocksInv, RowInv, RowOK, FinalizedIsRecorded, Public
<1> QED
  BY <1>3, <1>4, <1>5, <1>6 DEF BlocksInv

LEMMA FindInv == BlocksInv /\ Find => BlocksInv'
<1> SUFFICES ASSUME BlocksInv, Find PROVE BlocksInv'
  OBVIOUS
<1>1. PICK b \in PoolBlocks, by \in {"miner", "tdp"}, mode \in Modes :
          tasks' = Append(tasks, Task("submit", b, by, mode, "none"))
  BY DEF Find
<1> DEFINE task == Task("submit", b, by, mode, "none")
<1>2. task \in TaskType
  BY DEF Task, TaskType, Blocks, Modes
<1>3. TaskOK(task) /\ task.result # "success"
  BY DEF Task, TaskOK, Successful
<1>4. /\ reports' \in 0..MaxReports
      /\ UNCHANGED <<taken, rows, history, booked, trouble>>
  BY FoundBlocksAssumption DEF Find, BlocksInv, TypeInv
<1> HIDE DEF task
<1> QED
  BY <1>1, <1>2, <1>3, <1>4, BeginKeepsInv DEF task

LEMMA GatewayReportsInv == BlocksInv /\ GatewayReports => BlocksInv'
<1> SUFFICES ASSUME BlocksInv, GatewayReports PROVE BlocksInv'
  OBVIOUS
<1>1. PICK b \in GatewayBlocks \cup Claims, mode \in Modes :
          tasks' = Append(tasks, Task("look", b, "miner", mode,
                        IF b \in GatewayBlocks THEN "expected" ELSE "null"))
  BY DEF GatewayReports
<1> DEFINE result == IF b \in GatewayBlocks THEN "expected" ELSE "null"
           task == Task("look", b, "miner", mode, result)
<1>2. task \in TaskType
  BY DEF Task, TaskType, Blocks, Modes
<1>3. TaskOK(task) /\ task.result # "success"
  <2>1. Answers(b, result) /\ result # "success"
    BY FoundBlocksAssumption DEF Answers
  <2> QED
    BY <2>1 DEF Task, TaskOK
<1>4. /\ reports' \in 0..MaxReports
      /\ UNCHANGED <<taken, rows, history, booked, trouble>>
  BY FoundBlocksAssumption DEF GatewayReports, BlocksInv, TypeInv
<1> HIDE DEF task
<1> QED
  BY <1>1, <1>2, <1>3, <1>4, BeginKeepsInv DEF task

(* The node takes a block of the height: nobody had been told of success   *)
(* and nothing but claims is in the books.                                 *)
LEMMA TakenKeeps ==
    ASSUME BlocksInv, taken = None, UNCHANGED <<rows, history, booked>>
    PROVE  /\ \A i \in DOMAIN tasks : TaskOK(tasks[i]) =>
                 \A task : task = tasks[i] => TaskOK(task)'
           /\ RowInv'
           /\ \A k \in DOMAIN booked : booked[k] \in Claims
           /\ FinalizedIsRecorded'
<1>1. \A i \in DOMAIN tasks : tasks[i].result # "success"
  BY NoneTaken
<1>2. \A r \in DOMAIN rows : RowOK(rows[r]) /\ rows[r].block # None
  <2>1. \A r \in DOMAIN rows : rows[r] \in RowType
    BY ElementOfSeq, LenProperties DEF BlocksInv, TypeInv
  <2> QED
    BY <2>1, FoundBlocksAssumption DEF BlocksInv, RowInv, RowType, Blocks
<1>3. \A k \in DOMAIN booked : booked[k] # None
  <2>1. \A k \in DOMAIN booked : booked[k] \in Blocks
    BY ElementOfSeq, LenProperties DEF BlocksInv, TypeInv
  <2> QED
    BY <2>1, FoundBlocksAssumption DEF Blocks
<1>4. RowInv'
  BY <1>2 DEF BlocksInv, RowInv, RowOK
<1>5. ASSUME NEW i \in DOMAIN tasks, TaskOK(tasks[i]), NEW task, task = tasks[i]
      PROVE  TaskOK(task)'
  BY <1>1, <1>5 DEF TaskOK, Wrote
<1>6. \A k \in DOMAIN booked : booked[k] \in Claims
  BY <1>3 DEF BlocksInv, BookedInv
<1>7. FinalizedIsRecorded'
  BY DEF BlocksInv, FinalizedIsRecorded, Public
<1> QED
  BY <1>4, <1>5, <1>6, <1>7

LEMMA GatewaySubmitsInv == BlocksInv /\ GatewaySubmits => BlocksInv'
<1> SUFFICES ASSUME BlocksInv, GatewaySubmits PROVE BlocksInv'
  OBVIOUS
<1>1. /\ taken = None /\ taken' \in GatewayBlocks
      /\ UNCHANGED <<rows, tasks, history, booked, reports, trouble>>
  BY DEF GatewaySubmits
<1>2. TypeInv'
  BY <1>1 DEF BlocksInv, TypeInv
<1>3. TaskInv'
  <2>1. \A i \in DOMAIN tasks : \A task : task = tasks[i] => TaskOK(task)'
    BY <1>1, TakenKeeps DEF BlocksInv, TaskInv
  <2> QED
    BY <1>1, <2>1 DEF TaskInv
<1>4. OneSuccess' /\ RowInv' /\ FinalizedIsRecorded'
  BY <1>1, TakenKeeps DEF BlocksInv, OneSuccess
<1>5. BookedInv'
  BY <1>1, TakenKeeps DEF BlocksInv, BookedInv
<1>6. TakenInv'
  BY <1>1, FoundBlocksAssumption DEF TakenInv
<1> QED
  BY <1>2, <1>3, <1>4, <1>5, <1>6 DEF BlocksInv

(* SUBMIT_BLOCK: the only one who hears of success is who brought the block *)
(* the node takes.                                                         *)
LEMMA SubmitBlockInv ==
    ASSUME BlocksInv, NEW i \in DOMAIN tasks, SubmitBlock(i)
    PROVE  BlocksInv'
<1> DEFINE Told(result) == [tasks[i] EXCEPT !.at = "look", !.result = result]
<1>0. /\ tasks[i] \in TaskType /\ TaskOK(tasks[i]) /\ tasks[i].at = "submit"
      /\ tasks[i].block \in PoolBlocks
      /\ UNCHANGED <<rows, history, booked, reports>>
  BY TaskTyped DEF BlocksInv, TaskInv, TaskOK, SubmitBlock, Of
<1>1. \A result \in {"success", "rejected"} :
          /\ Told(result) \in TaskType
          /\ Told(result).at = "look" /\ Told(result).result = result
          /\ Told(result).block = tasks[i].block
          /\ Told(result).mode = tasks[i].mode
          /\ Told(result).snapshot = tasks[i].snapshot
  BY <1>0 DEF TaskType
<1> HIDE DEF Told
<1>2. CASE taken # None
  <2>1. GoesOn(i, Told("rejected")) /\ UNCHANGED <<taken, trouble>>
    BY <1>2 DEF SubmitBlock, Told, Of
  <2>2. /\ tasks' \in Seq(TaskType) /\ DOMAIN tasks' = DOMAIN tasks
        /\ \A j \in DOMAIN tasks :
              tasks'[j] = IF j = i THEN Told("rejected") ELSE tasks[j]
    BY <1>1, <2>1, AfterGoesOn DEF BlocksInv, TypeInv
  <2>3. TaskOK(Told("rejected"))
    BY <1>0, <1>1, FoundBlocksAssumption DEF TaskOK, Answers
  <2>4. TypeInv'
    BY <1>0, <2>1, <2>2 DEF BlocksInv, TypeInv
  <2>5. TaskInv'
    <3>1. \A j \in DOMAIN tasks' : TaskOK(tasks'[j])
      BY <2>2, <2>3 DEF BlocksInv, TaskInv
    <3> QED
      BY <1>0, <2>1, <3>1, TaskOKSame DEF TaskInv
  <2>6. \A j \in DOMAIN tasks' :
            tasks'[j].result = "success" => tasks'[j] = tasks[j]
    BY <1>1, <2>2
  <2>7. OneSuccess'
    BY <2>2, <2>6 DEF BlocksInv, OneSuccess
  <2>8. BookedInv'
    BY <1>0, <2>1, <2>2, <2>6 DEF BlocksInv, BookedInv
  <2>9. RowInv' /\ FinalizedIsRecorded'
    BY <1>0, <2>1 DEF BlocksInv, RowInv, RowOK, FinalizedIsRecorded, Public
  <2>10. TakenInv'
    <3>1. \A k \in DOMAIN tasks :
              OnItsWay(k) \/ ToFinalize(k) => k # i /\ tasks'[k] = tasks[k]
      BY <1>0, <2>2 DEF OnItsWay, ToFinalize
    <3>2. \A k \in DOMAIN tasks : OnItsWay(k) => OnItsWay(k)'
      BY <3>1 DEF OnItsWay
    <3>3. \A k \in DOMAIN tasks : ToFinalize(k) => ToFinalize(k)'
      BY <3>1 DEF ToFinalize
    <3> QED
      BY <1>0, <2>1, <2>2, <3>2, <3>3, WordKept DEF BlocksInv
  <2> QED
    BY <2>4, <2>5, <2>7, <2>8, <2>9, <2>10 DEF BlocksInv
<1>3. CASE taken = None
  <2>1. taken' = tasks[i].block
    BY <1>3 DEF SubmitBlock, Of
  <2>2. PICK lost \in BOOLEAN :
            /\ GoesOn(i, Told(IF lost THEN "rejected" ELSE "success"))
            /\ trouble' = (trouble \/ lost)
    BY <1>3 DEF SubmitBlock, Told, Of
  <2> DEFINE result == IF lost THEN "rejected" ELSE "success"
  <2>3. result \in {"success", "rejected"}
    OBVIOUS
  <2>4. /\ tasks' \in Seq(TaskType) /\ DOMAIN tasks' = DOMAIN tasks
        /\ \A j \in DOMAIN tasks :
              tasks'[j] = IF j = i THEN Told(result) ELSE tasks[j]
    BY <1>1, <2>2, <2>3, AfterGoesOn DEF BlocksInv, TypeInv
  <2> HIDE DEF result
  <2>5. \A j \in DOMAIN tasks : tasks[j].result # "success"
    BY <1>3, NoneTaken
  <2>6. TypeInv'
    BY <1>0, <2>1, <2>2, <2>4 DEF BlocksInv, TypeInv
  <2>7. TaskInv'
    <3>1. \A j \in DOMAIN tasks : \A task : task = tasks[j] => TaskOK(task)'
      BY <1>0, <1>3, TakenKeeps DEF BlocksInv, TaskInv
    <3>2. \A task : task = Told(result) => TaskOK(task)'
      <4>1. Answers(tasks[i].block, result)
        BY <1>0, <2>3, FoundBlocksAssumption DEF Answers
      <4>2. tasks[i].snapshot
                = IF tasks[i].mode = "pplns" THEN tasks[i].block ELSE None
        BY <1>0 DEF TaskOK
      <4> QED
        BY <1>1, <2>1, <2>3, <4>1, <4>2 DEF TaskOK
    <3> QED
      BY <2>4, <3>1, <3>2 DEF TaskInv
  <2>8. OneSuccess'
    BY <2>4, <2>5 DEF OneSuccess
  <2>9. RowInv' /\ FinalizedIsRecorded'
    BY <1>0, <1>3, TakenKeeps
  <2>10. BookedInv'
    BY <1>0, <1>3, TakenKeeps DEF BlocksInv, BookedInv
  <2>11. TakenInv'
    <3>1. CASE lost
      BY <2>2, <3>1 DEF TakenInv
    <3>2. CASE ~lost
      <4>1. tasks'[i] = Told("success")
        BY <2>4, <3>2 DEF result
      <4>2. OnItsWay(i)'
        BY <1>1, <4>1 DEF OnItsWay
      <4> QED
        BY <2>4, <4>2 DEF TakenInv
    <3> QED
      BY <3>1, <3>2
  <2> QED
    BY <2>6, <2>7, <2>8, <2>9, <2>10, <2>11 DEF BlocksInv
<1> QED
  BY <1>2, <1>3

LEMMA LookInv ==
    ASSUME BlocksInv, NEW i \in DOMAIN tasks, Look(i)
    PROVE  BlocksInv'
<1>0. /\ tasks[i] \in TaskType /\ TaskOK(tasks[i]) /\ tasks[i].at = "look"
      /\ UNCHANGED <<taken, rows, history, booked, reports, trouble>>
  BY TaskTyped DEF BlocksInv, TaskInv, Look, Of
<1>1. PICK r \in IF RowsOf(tasks[i].block) = {} THEN {0} ELSE RowsOf(tasks[i].block) :
          GoesOn(i, [tasks[i] EXCEPT !.at = "write", !.seen = r,
                        !.seenInternal = r # 0 /\ Internal(rows[r].by)])
  BY DEF Look, Of
<1> DEFINE task == [tasks[i] EXCEPT !.at = "write", !.seen = r,
                        !.seenInternal = r # 0 /\ Internal(rows[r].by)]
<1>2. /\ r \in Nat
      /\ r # 0 => r \in DOMAIN rows /\ rows[r].block = tasks[i].block
  BY LenProperties DEF RowsOf, BlocksInv, TypeInv
<1>3. /\ task \in TaskType /\ task.at = "write" /\ task.seen = r
      /\ task.block = tasks[i].block /\ task.result = tasks[i].result
      /\ task.mode = tasks[i].mode /\ task.snapshot = tasks[i].snapshot
  BY <1>0, <1>2 DEF TaskType, Internal
<1> HIDE DEF task
<1>4. TaskOK(task)
  BY <1>0, <1>2, <1>3 DEF TaskOK
<1>5. GoesOn(i, task)
  BY <1>1 DEF task
<1>6. /\ DOMAIN tasks' = DOMAIN tasks
      /\ \A j \in DOMAIN tasks : tasks'[j] = IF j = i THEN task ELSE tasks[j]
  BY <1>3, <1>5, AfterGoesOn DEF BlocksInv, TypeInv
<1>7. TakenInv'
  <2>1. \A k \in DOMAIN tasks : OnItsWay(k) => OnItsWay(k)'
    BY <1>3, <1>6 DEF OnItsWay
  <2>2. \A k \in DOMAIN tasks : ToFinalize(k) => ToFinalize(k)'
    BY <1>0, <1>6 DEF ToFinalize
  <2> QED
    BY <1>0, <1>6, <2>1, <2>2, WordKept DEF BlocksInv
<1> QED
  BY <1>0, <1>3, <1>4, <1>5, <1>7, GoOnKeepsInv

(* The handler found no history, or ends.                                  *)
LEMMA CheckInv ==
    ASSUME BlocksInv, NEW i \in DOMAIN tasks, Check(i)
    PROVE  BlocksInv'
<1>0. /\ tasks[i] \in TaskType /\ TaskOK(tasks[i]) /\ tasks[i].at = "finalize"
      /\ UNCHANGED <<taken, rows, history, booked, reports, trouble>>
  BY TaskTyped DEF BlocksInv, TaskInv, Check, Of
<1>1. CASE Finalizes(tasks[i])
  <2> DEFINE task == [tasks[i] EXCEPT !.at = "book"]
  <2>1. /\ task \in TaskType /\ task.at = "book"
        /\ task.block = tasks[i].block /\ task.result = tasks[i].result
        /\ task.mode = tasks[i].mode /\ task.snapshot = tasks[i].snapshot
    BY <1>0 DEF TaskType
  <2>2. GoesOn(i, task)
    BY <1>1 DEF Check, Of
  <2> HIDE DEF task
  <2>3. TaskOK(task)
    BY <1>0, <1>1, <2>1 DEF TaskOK, Finalizes, Wrote
  <2>4. /\ DOMAIN tasks' = DOMAIN tasks
        /\ \A j \in DOMAIN tasks : tasks'[j] = IF j = i THEN task ELSE tasks[j]
    BY <2>1, <2>2, AfterGoesOn DEF BlocksInv, TypeInv
  <2>5. TakenInv'
    <3>1. \A k \in DOMAIN tasks : OnItsWay(k) => OnItsWay(k)'
      BY <1>0, <2>4 DEF OnItsWay
    <3>2. \A k \in DOMAIN tasks : ToFinalize(k) => ToFinalize(k)'
      BY <2>1, <2>4 DEF ToFinalize
    <3> QED
      BY <1>0, <2>4, <3>1, <3>2, WordKept DEF BlocksInv
  <2> QED
    BY <1>0, <2>1, <2>2, <2>3, <2>5, GoOnKeepsInv
<1>2. CASE ~Finalizes(tasks[i])
  <2>1. Done(i)
    BY <1>2 DEF Check, Of
  <2>2. \A k \in DOMAIN tasks : k # i =>
            \E j \in DOMAIN tasks' : tasks'[j] = tasks[k]
    BY <2>1, AfterDone DEF BlocksInv, TypeInv
  <2>3. TakenInv'
    <3>1. ASSUME NEW k \in DOMAIN tasks, OnItsWay(k)
          PROVE  \E j \in DOMAIN tasks' : OnItsWay(j)'
      BY <1>0, <2>2, <3>1 DEF OnItsWay
    <3>2. ASSUME NEW k \in DOMAIN tasks, ToFinalize(k), k # i
          PROVE  \E j \in DOMAIN tasks' : ToFinalize(j)'
      BY <2>2, <3>2 DEF ToFinalize
    <3>3. ToFinalize(i) => history.block # None
      BY <1>2 DEF ToFinalize, Finalizes, Successful
    <3> QED
      BY <1>0, <3>1, <3>2, <3>3, WordKept DEF BlocksInv
  <2>4. trouble' \in BOOLEAN
    BY <1>0 DEF BlocksInv, TypeInv
  <2> QED
    BY <1>0, <2>1, <2>3, <2>4, EndKeepsInv
<1> QED
  BY <1>1, <1>2

LEMMA FailsInv ==
    ASSUME BlocksInv, NEW i \in DOMAIN tasks, Fails(i)
    PROVE  BlocksInv'
<1>1. TakenInv' /\ trouble' \in BOOLEAN
  BY DEF Fails, TakenInv
<1> QED
  BY <1>1, EndKeepsInv DEF Fails

-----------------------------------------------------------------------------
(* Writing the row. *)

(* The row r holds, from now on, what the handler writes.                  *)
Writes(task, r) ==
    /\ rows'[r].block = task.block
    /\ Successful(task.result) => Successful(rows'[r].result)
    /\ task.result = "success" =>
          rows'[r].result = "success" /\ rows'[r].snapshot = task.snapshot

(* What one handler's write leaves of the rows of the others.              *)
RowsKeep(task) ==
    /\ rows' \in Seq(RowType)
    /\ DOMAIN rows \subseteq DOMAIN rows'
    /\ \A r \in DOMAIN rows :
          /\ rows'[r].block = rows[r].block
          /\ rows'[r].result \in {rows[r].result, "success"}
          /\ Internal(rows'[r].by) => Internal(rows[r].by)
          /\ rows[r].block \notin Claims /\ task.result # "success" =>
                rows'[r].snapshot = rows[r].snapshot
    /\ RowInv'
    /\ \E r \in DOMAIN rows' : Writes(task, r)

LEMMA UpdateKeeps ==
    ASSUME BlocksInv, NEW task \in TaskType, TaskOK(task), task.at = "write",
           task.seen # 0, taken' = taken,
           rows' = [rows EXCEPT ![task.seen] = Updated(@, task)]
    PROVE  RowsKeep(task)
<1> DEFINE q == task.seen
           row == Updated(rows[q], task)
<1>0. /\ q \in DOMAIN rows /\ rows[q].block = task.block
      /\ Answers(task.block, task.result)
      /\ task.result = "success" => task.block = taken
  BY DEF TaskOK
<1>1. /\ rows \in Seq(RowType) /\ DOMAIN rows = 1..Len(rows)
      /\ \A r \in DOMAIN rows : rows[r] \in RowType
  BY ElementOfSeq, LenProperties DEF BlocksInv, TypeInv
<1>2. /\ row \in RowType /\ row.block = task.block
      /\ row.result = IF Successful(task.result) THEN "success" ELSE rows[q].result
      /\ row.snapshot = IF Successful(task.result) THEN task.snapshot
                                                   ELSE rows[q].snapshot
      /\ row.by = IF Replaces(task) THEN task.by ELSE rows[q].by
  <2>1. rows[q] \in RowType
    BY <1>0, <1>1
  <2> QED
    BY <1>0, <2>1 DEF Updated, RowType, TaskType
<1> HIDE DEF row
<1>3. /\ rows' \in Seq(RowType) /\ DOMAIN rows' = DOMAIN rows
      /\ \A r \in DOMAIN rows : rows'[r] = IF r = q THEN row ELSE rows[r]
  <2>1. rows' = [rows EXCEPT ![q] = row]
    BY <1>0 DEF row
  <2>2. /\ rows' \in Seq(RowType) /\ Len(rows') = Len(rows)
        /\ \A r \in 1..Len(rows) : rows'[r] = IF r = q THEN row ELSE rows[r]
    BY <1>0, <1>1, <1>2, <2>1, ExceptSeq
  <2> QED
    BY <1>1, <2>2, LenProperties
<1> HIDE DEF q
<1>4. ASSUME NEW r \in DOMAIN rows
      PROVE  /\ rows'[r].block = rows[r].block
             /\ rows'[r].result \in {rows[r].result, "success"}
             /\ Internal(rows'[r].by) => Internal(rows[r].by)
             /\ rows[r].block \notin Claims /\ task.result # "success" =>
                   rows'[r].snapshot = rows[r].snapshot
  <2>1. CASE r = q
    <3>1. task.block \notin Claims /\ task.result # "success" =>
              ~Successful(task.result)
      BY <1>0 DEF TaskType, Blocks, Answers, Successful
    <3> QED
      BY <1>0, <1>2, <1>3, <2>1, <3>1 DEF Replaces
  <2> QED
    BY <1>3, <2>1
<1>5. RowInv'
  <2>1. RowOK(row)
    <3>1. RowOK(rows[q]) /\ rows[q].block = task.block
      BY <1>0 DEF BlocksInv, RowInv
    <3>2. CASE task.block \in Claims
      BY <1>2, <3>1, <3>2, FoundBlocksAssumption DEF RowOK
    <3>3. CASE task.block \notin Claims
      BY <1>0, <1>2, <3>1, <3>3 DEF RowOK, Answers, Successful
    <3> QED
      BY <3>2, <3>3
  <2>2. \A r \in DOMAIN rows' : RowOK(rows'[r])
    BY <1>3, <2>1 DEF BlocksInv, RowInv
  <2>3. \A r, s \in DOMAIN rows' : rows'[r].block = rows'[s].block => r = s
    BY <1>3, <1>4 DEF BlocksInv, RowInv
  <2> QED
    BY <2>2, <2>3 DEF RowInv, RowOK
<1>6. q \in DOMAIN rows' /\ Writes(task, q)
  BY <1>0, <1>2, <1>3 DEF Writes, Successful
<1> QED
  BY <1>3, <1>4, <1>5, <1>6 DEF RowsKeep

LEMMA InsertKeeps ==
    ASSUME BlocksInv, NEW task \in TaskType, TaskOK(task), task.at = "write",
           RowsOf(task.block) = {}, taken' = taken,
           rows' = Append(rows, [block |-> task.block, result |-> task.result,
                                 snapshot |-> task.snapshot, by |-> task.by,
                                 mode |-> task.mode])
    PROVE  RowsKeep(task)
<1> DEFINE row == [block |-> task.block, result |-> task.result,
                   snapshot |-> task.snapshot, by |-> task.by,
                   mode |-> task.mode]
           q == Len(rows) + 1
<1>0. /\ Answers(task.block, task.result)
      /\ task.result = "success" => task.block = taken
      /\ rows \in Seq(RowType)
  BY DEF TaskOK, BlocksInv, TypeInv
<1>1. /\ row \in RowType /\ row.block = task.block /\ row.result = task.result
      /\ row.snapshot = task.snapshot
  BY <1>0 DEF RowType, TaskType, Answers, Blocks
<1> HIDE DEF row
<1>2. /\ rows' \in Seq(RowType) /\ DOMAIN rows = 1..Len(rows)
      /\ Len(rows) \in Nat /\ DOMAIN rows' = 1 .. Len(rows) + 1
      /\ \A r \in DOMAIN rows : rows'[r] = rows[r]
      /\ rows'[q] = row
  BY <1>0, <1>1, AfterAppend DEF row
<1>3. DOMAIN rows' = DOMAIN rows \cup {q} /\ q \notin DOMAIN rows
  BY <1>2
<1> HIDE DEF q
<1>4. RowInv'
  <2>1. RowOK(row)
    BY <1>0, <1>1, FoundBlocksAssumption DEF RowOK, Answers
  <2>2. \A r \in DOMAIN rows' : RowOK(rows'[r])
    BY <1>2, <1>3, <2>1 DEF BlocksInv, RowInv
  <2>3. \A r \in DOMAIN rows : rows[r].block # task.block
    BY DEF RowsOf
  <2>4. \A r, s \in DOMAIN rows' : rows'[r].block = rows'[s].block => r = s
    BY <1>1, <1>2, <1>3, <2>3 DEF BlocksInv, RowInv
  <2> QED
    BY <2>2, <2>4 DEF RowInv, RowOK
<1>5. q \in DOMAIN rows' /\ Writes(task, q)
  BY <1>1, <1>2, <1>3 DEF Writes
<1> QED
  BY <1>1, <1>2, <1>3, <1>4, <1>5 DEF RowsKeep

LEMMA WriteEffect ==
    ASSUME BlocksInv, NEW i \in DOMAIN tasks, Write(i)
    PROVE  \/ /\ RowsKeep(tasks[i])
              /\ GoesOn(i, [tasks[i] EXCEPT !.at = "finalize"])
              /\ UNCHANGED trouble
           \/ UNCHANGED rows /\ Done(i) /\ trouble' = TRUE
<1>1. /\ tasks[i] \in TaskType /\ TaskOK(tasks[i]) /\ tasks[i].at = "write"
      /\ taken' = taken
  BY TaskTyped DEF BlocksInv, TaskInv, Write, Of
<1> QED
  BY <1>1, UpdateKeeps, InsertKeeps DEF Write, Of

LEMMA WrittenKeepsInv ==
    ASSUME BlocksInv, NEW i \in DOMAIN tasks, NEW task, task = tasks[i],
           task.at = "write",
           RowsKeep(task), GoesOn(i, [task EXCEPT !.at = "finalize"]),
           UNCHANGED <<taken, history, booked, reports, trouble>>
    PROVE  BlocksInv'
<1> DEFINE next == [task EXCEPT !.at = "finalize"]
<1>0. task \in TaskType /\ TaskOK(task)
  BY TaskTyped DEF BlocksInv, TaskInv
<1>1. /\ next \in TaskType /\ next.at = "finalize"
      /\ next.block = task.block /\ next.result = task.result
      /\ next.mode = task.mode /\ next.snapshot = task.snapshot
  BY <1>0 DEF TaskType
<1> HIDE DEF next
<1>2. /\ tasks' \in Seq(TaskType) /\ DOMAIN tasks' = DOMAIN tasks
      /\ \A j \in DOMAIN tasks : tasks'[j] = IF j = i THEN next ELSE tasks[j]
  BY <1>1, AfterGoesOn DEF BlocksInv, TypeInv, next
<1>3. PICK q \in DOMAIN rows' : Writes(task, q)
  BY DEF RowsKeep
<1>4. /\ DOMAIN rows \subseteq DOMAIN rows'
      /\ \A r \in DOMAIN rows :
            /\ rows'[r].block = rows[r].block
            /\ rows'[r].result \in {rows[r].result, "success"}
            /\ rows[r].block \notin Claims /\ task.result # "success" =>
                  rows'[r].snapshot = rows[r].snapshot
  BY DEF RowsKeep
<1>5. taken \notin Claims
  BY FoundBlocksAssumption DEF BlocksInv, TypeInv
<1>6. TypeInv'
  BY <1>2 DEF RowsKeep, BlocksInv, TypeInv
<1>7. TaskInv'
  <2>1. TaskOK(next)'
    <3>1. Successful(task.result) => Wrote(next, q)'
      BY <1>1, <1>3 DEF Wrote, Writes
    <3> QED
      BY <1>0, <1>1, <1>3, <3>1 DEF TaskOK
  <2>2. ASSUME NEW j \in DOMAIN tasks, j # i, NEW t, t = tasks[j] PROVE TaskOK(t)'
    <3>1. TaskOK(t) /\ (t.result = "success" => task.result # "success")
      BY <2>2 DEF BlocksInv, TaskInv, OneSuccess
    <3>2. ASSUME NEW r \in DOMAIN rows, Wrote(t, r) PROVE Wrote(t, r)'
      BY <1>4, <1>5, <3>1, <3>2 DEF Wrote, TaskOK, Successful
    <3> QED
      BY <1>4, <3>1, <3>2 DEF TaskOK
  <2> QED
    BY <1>2, <2>1, <2>2 DEF TaskInv
<1>8. \A j \in DOMAIN tasks' : tasks'[j].result = tasks[j].result
  BY <1>1, <1>2
<1>9. OneSuccess' /\ BookedInv'
  BY <1>2, <1>8 DEF BlocksInv, OneSuccess, BookedInv
<1>10. FinalizedIsRecorded'
  <2> SUFFICES ASSUME history.block # None
               PROVE  \E r \in Public' :
                         /\ rows'[r].block = history.block
                         /\ history.block \notin Claims =>
                               rows'[r].snapshot = history.snapshot
    BY DEF FinalizedIsRecorded
  <2>1. PICK r \in Public :
            /\ rows[r].block = history.block
            /\ history.block \notin Claims => rows[r].snapshot = history.snapshot
    BY DEF BlocksInv, FinalizedIsRecorded
  <2>2. r \in Public'
    BY <1>4 DEF Public, Successful
  <2>3. history.block \notin Claims => task.result # "success"
    BY DEF BlocksInv, BookedInv
  <2>4. r \in DOMAIN rows
    BY DEF Public
  <2> QED
    BY <1>4, <2>1, <2>2, <2>3, <2>4
<1>11. TakenInv'
  <2> SUFFICES ASSUME ~trouble, taken \in PoolBlocks
               PROVE  \/ \E j \in DOMAIN tasks' : OnItsWay(j)'
                      \/ \E r \in DOMAIN rows' : TakenRow(r)'
    BY DEF TakenInv
  <2>1. CASE task.result = "success"
    <3>1. /\ rows'[q].block = taken /\ rows'[q].result = "success"
          /\ rows'[q].snapshot = IF task.mode = "pplns" THEN task.block ELSE None
      BY <1>0, <1>3, <2>1 DEF TaskOK, Writes
    <3>2. task.mode = "pplns" => ToFinalize(i)'
      BY <1>1, <1>2, <2>1 DEF ToFinalize
    <3>3. TakenRow(q)'
      BY <1>2, <3>1, <3>2 DEF TakenRow
    <3> QED
      BY <3>3
  <2>2. CASE task.result # "success"
    <3>1. \A k \in DOMAIN tasks : tasks[k].result = "success" =>
              tasks'[k] = tasks[k]
      BY <1>2, <2>2
    <3>2. \A k \in DOMAIN tasks : /\ OnItsWay(k) => OnItsWay(k)'
                                  /\ ToFinalize(k) => ToFinalize(k)'
      BY <3>1 DEF OnItsWay, ToFinalize
    <3>3. ASSUME NEW r \in DOMAIN rows, TakenRow(r) PROVE TakenRow(r)'
      <4>1. /\ rows'[r].block = taken /\ rows'[r].result = "success"
            /\ rows'[r].snapshot = rows[r].snapshot
        BY <1>4, <1>5, <2>2, <3>3 DEF TakenRow
      <4> QED
        BY <1>2, <3>2, <3>3, <4>1 DEF TakenRow
    <3> QED
      BY <1>2, <1>4, <3>2, <3>3 DEF BlocksInv, TakenInv
  <2> QED
    BY <2>1, <2>2
<1> QED
  BY <1>6, <1>7, <1>9, <1>10, <1>11 DEF BlocksInv, RowsKeep

LEMMA WriteInv ==
    ASSUME BlocksInv, NEW i \in DOMAIN tasks, Write(i)
    PROVE  BlocksInv'
<1>1. tasks[i].at = "write" /\ UNCHANGED <<taken, history, booked, reports>>
  BY DEF Write, Of
<1>2. CASE /\ RowsKeep(tasks[i])
           /\ GoesOn(i, [tasks[i] EXCEPT !.at = "finalize"])
           /\ UNCHANGED trouble
  BY <1>1, <1>2, WrittenKeepsInv
<1>3. CASE UNCHANGED rows /\ Done(i) /\ trouble' = TRUE
  <2>1. TakenInv'
    BY <1>3 DEF TakenInv
  <2> QED
    BY <1>1, <1>3, <2>1, EndKeepsInv
<1> QED
  BY <1>2, <1>3, WriteEffect

(* The balances: with the last word of success gone, no block that is no   *)
(* claim comes to them any more.                                           *)
LEMMA BookInv ==
    ASSUME BlocksInv, NEW i \in DOMAIN tasks, Book(i)
    PROVE  BlocksInv'
<1> DEFINE b == tasks[i].block
           n == Len(booked) + 1
<1>0. /\ tasks[i] \in TaskType /\ TaskOK(tasks[i]) /\ tasks[i].at = "book"
      /\ UNCHANGED <<taken, rows, reports, trouble>> /\ Done(i)
  BY TaskTyped DEF BlocksInv, TaskInv, Book, Of
<1>1. /\ booked \in Seq(Blocks) /\ b \in Blocks
      /\ booked' = Append(booked, b)
      /\ history' = IF history.block # None THEN history
                    ELSE [block |-> b, snapshot |-> tasks[i].snapshot]
  BY <1>0 DEF BlocksInv, TypeInv, TaskType, Book, Of
<1>2. /\ booked' \in Seq(Blocks) /\ DOMAIN booked' = DOMAIN booked \cup {n}
      /\ n \notin DOMAIN booked
      /\ \A k \in DOMAIN booked : booked'[k] = booked[k]
      /\ booked'[n] = b
  <2>1. /\ booked' \in Seq(Blocks)
        /\ DOMAIN booked = 1..Len(booked) /\ Len(booked) \in Nat
        /\ DOMAIN booked' = 1 .. Len(booked) + 1
        /\ \A k \in DOMAIN booked : booked'[k] = booked[k]
        /\ booked'[n] = b
    BY <1>1, AfterAppend
  <2> QED
    BY <2>1
<1> HIDE DEF n
<1>3. /\ tasks' \in Seq(TaskType)
      /\ \A j \in DOMAIN tasks' : LET k == IF j < i THEN j ELSE j + 1 IN
            k \in DOMAIN tasks /\ k # i /\ tasks'[j] = tasks[k]
      /\ \A k \in DOMAIN tasks : k # i =>
            \E j \in DOMAIN tasks' : tasks'[j] = tasks[k]
  BY <1>0, AfterDone DEF BlocksInv, TypeInv
<1>4. /\ Successful(tasks[i].result) /\ tasks[i].mode = "pplns"
      /\ tasks[i].snapshot = b
      /\ b \notin Claims => tasks[i].result = "success" /\ b = taken
  BY <1>0, <1>1 DEF TaskOK, Answers, Successful, Blocks
<1>5. b \notin Claims =>
          /\ \A k \in DOMAIN booked : booked[k] \in Claims
          /\ \A j \in DOMAIN tasks' : tasks'[j].result # "success"
  <2>1. b \notin Claims => \A k \in DOMAIN booked : booked[k] \in Claims
    BY <1>4 DEF BlocksInv, BookedInv
  <2>2. ASSUME b \notin Claims, NEW j \in DOMAIN tasks',
               tasks'[j].result = "success"
        PROVE  FALSE
    BY <1>3, <1>4, <2>2 DEF BlocksInv, OneSuccess
  <2> QED
    BY <2>1, <2>2
<1>6. TypeInv'
  <2>1. history' \in [block : Blocks \cup {None}, snapshot : Blocks \cup {None}]
    BY <1>1, <1>4 DEF BlocksInv, TypeInv
  <2> QED
    BY <1>0, <1>2, <1>3, <2>1 DEF BlocksInv, TypeInv
<1>7. TaskInv'
  <2>1. \A j \in DOMAIN tasks' : TaskOK(tasks'[j])
    BY <1>3 DEF BlocksInv, TaskInv
  <2> QED
    BY <1>0, <2>1, TaskOKSame DEF TaskInv
<1>8. OneSuccess'
  <2> SUFFICES ASSUME NEW j \in DOMAIN tasks', NEW l \in DOMAIN tasks',
                      tasks'[j].result = "success", tasks'[l].result = "success"
               PROVE  j = l
    BY DEF OneSuccess
  <2>1. j \in Nat /\ l \in Nat /\ i \in Nat
    BY <1>3, LenProperties DEF BlocksInv, TypeInv
  <2>2. (IF j < i THEN j ELSE j + 1) = (IF l < i THEN l ELSE l + 1)
    BY <1>3 DEF BlocksInv, OneSuccess
  <2> QED
    BY <2>1, <2>2
<1>9. RowInv'
  BY <1>0 DEF BlocksInv, RowInv, RowOK
<1>10. BookedInv'
  <2>1. ASSUME NEW k \in DOMAIN booked', booked'[k] \notin Claims
        PROVE  /\ booked'[k] = taken
               /\ \A j \in DOMAIN tasks' : tasks'[j].result # "success"
    <3>1. CASE k \in DOMAIN booked
      BY <1>2, <1>3, <2>1, <3>1 DEF BlocksInv, BookedInv
    <3>2. CASE k = n
      BY <1>2, <1>4, <1>5, <2>1, <3>2
    <3> QED
      BY <1>2, <3>1, <3>2
  <2>2. ASSUME NEW k \in DOMAIN booked', NEW l \in DOMAIN booked',
               booked'[k] \notin Claims, booked'[l] \notin Claims
        PROVE  k = l
    <3>1. CASE b \in Claims
      BY <1>2, <2>2, <3>1 DEF BlocksInv, BookedInv
    <3>2. CASE b \notin Claims
      BY <1>2, <1>5, <2>2, <3>2
    <3> QED
      BY <3>1, <3>2
  <2>3. history'.block # None =>
            \E k \in DOMAIN booked' : booked'[k] = history'.block
    <3>1. CASE history.block # None
      BY <1>1, <1>2, <3>1 DEF BlocksInv, BookedInv
    <3>2. CASE history.block = None
      BY <1>1, <1>2, <3>2
    <3> QED
      BY <3>1, <3>2
  <2> QED
    BY <1>0, <2>1, <2>2, <2>3 DEF BookedInv
<1>11. FinalizedIsRecorded'
  <2>1. Public' = Public
    BY <1>0 DEF Public
  <2>2. CASE history.block # None
    BY <1>0, <1>1, <2>1, <2>2 DEF BlocksInv, FinalizedIsRecorded
  <2>3. CASE history.block = None
    <3>1. PICK r \in DOMAIN rows : Wrote(tasks[i], r)
      BY <1>0, <1>4 DEF TaskOK
    <3>2. r \in Public /\ rows[r].block = b
      BY <3>1 DEF Public, Wrote
    <3>3. b \notin Claims => rows[r].snapshot = tasks[i].snapshot
      BY <1>4, <3>1 DEF Wrote
    <3>4. history'.block = b /\ history'.snapshot = tasks[i].snapshot
      BY <1>1, <2>3
    <3> QED
      BY <1>0, <2>1, <3>2, <3>3, <3>4 DEF FinalizedIsRecorded
  <2> QED
    BY <2>2, <2>3
<1>12. TakenInv'
  <2>1. history'.block # None
    BY <1>1, FoundBlocksAssumption DEF Blocks
  <2>2. ASSUME NEW k \in DOMAIN tasks, OnItsWay(k)
        PROVE  \E j \in DOMAIN tasks' : OnItsWay(j)'
    BY <1>0, <1>3, <2>2 DEF OnItsWay
  <2> QED
    BY <1>0, <2>1, <2>2, WordKept DEF BlocksInv
<1> QED
  BY <1>6, <1>7, <1>8, <1>9, <1>10, <1>11, <1>12 DEF BlocksInv

LEMMA NextInv == BlocksInv /\ [BlocksNext]_blocksVars => BlocksInv'
<1> SUFFICES ASSUME BlocksInv, [BlocksNext]_blocksVars PROVE BlocksInv'
  OBVIOUS
<1>1. CASE UNCHANGED blocksVars
  <2> USE <1>1 DEF blocksVars
  <2>1. TypeInv' /\ OneSuccess' /\ BookedInv' /\ FinalizedIsRecorded'
    BY DEF BlocksInv, TypeInv, OneSuccess, BookedInv, FinalizedIsRecorded, Public
  <2>2. TaskInv' /\ RowInv'
    BY TaskOKSame DEF BlocksInv, TaskInv, RowInv, RowOK
  <2>3. TakenInv'
    BY DEF BlocksInv, TakenInv, OnItsWay, TakenRow, ToFinalize
  <2> QED
    BY <2>1, <2>2, <2>3 DEF BlocksInv
<1>2. CASE BlocksNext
  BY <1>2, FindInv, GatewayReportsInv, GatewaySubmitsInv, SubmitBlockInv,
     LookInv, WriteInv, CheckInv, BookInv, FailsInv DEF BlocksNext
<1> QED
  BY <1>1, <1>2

LEMMA Invariance == BlocksSpec => []BlocksInv
  BY InitInv, NextInv, PTL DEF BlocksSpec

-----------------------------------------------------------------------------
(* Theorems. *)

(* finalizeSnapshotForBlock: of all blocks reported for a height only the  *)
(* one the node took gets to the balances, and once, unless a gateway      *)
(* claims one that is none; and the block in the books has a row the       *)
(* public sees, with the snapshot of the books.                            *)
THEOREM BooksHoldTheTaken == BlocksSpec => []BooksInv
<1>1. BlocksInv => BooksInv
  <2> SUFFICES ASSUME BlocksInv PROVE BooksInv
    OBVIOUS
  <2> DEFINE real == {k \in DOMAIN booked : booked[k] \notin Claims}
  <2>1. \A k \in real : booked[k] = taken
    BY DEF BlocksInv, BookedInv
  <2>2. \A k, l \in real : k = l
    BY DEF BlocksInv, BookedInv
  <2>3. Cardinality(real) <= 1
    <3>1. CASE real = {}
      BY <3>1, FS_EmptySet
    <3>2. ASSUME NEW k \in real PROVE Cardinality(real) <= 1
      <4>1. real = {k}
        BY <2>2
      <4>2. Cardinality({k}) = 1
        BY FS_Singleton
      <4> QED
        BY <4>1, <4>2
    <3> QED
      BY <3>1, <3>2
  <2> QED
    BY <2>1, <2>3 DEF BlocksInv, BooksInv, BooksOfTaken
<1> QED
  BY Invariance, <1>1, PTL

(* save and getFoundBlocks: no block has two rows, the block listed for    *)
(* the height is the one the node took, and when nothing was lost a block  *)
(* of the pool that was taken is listed with success and in the books.     *)
THEOREM TheTakenIsListed == BlocksSpec => []ListInv
<1>1. BlocksInv => ListInv
  <2> SUFFICES ASSUME BlocksInv PROVE ListInv
    OBVIOUS
  <2>1. BlocksTypeOK
    <3>1. \A r \in DOMAIN rows : rows[r] \in RowType
      BY ElementOfSeq, LenProperties DEF BlocksInv, TypeInv
    <3>2. \A r \in DOMAIN rows : RowsOf(rows[r].block) = {r}
      BY DEF BlocksInv, RowInv, RowsOf
    <3> QED
      BY <3>1, <3>2 DEF BlocksInv, TypeInv, BlocksTypeOK, RowType
  <2>2. ListedIsTaken
    BY DEF BlocksInv, RowInv, RowOK, ListedIsTaken, Listed, Public, Successful
  <2>3. TakenIsRecorded
    <3> SUFFICES ASSUME tasks = <<>>, ~trouble, taken \in PoolBlocks
                 PROVE  \E r \in RowsOf(taken) :
                           /\ rows[r].result = "success"
                           /\ rows[r].snapshot # None =>
                                 history.block \in {taken} \cup Claims
      BY DEF TakenIsRecorded
    <3>1. DOMAIN tasks = {}
      <4>1. tasks \in Seq(TaskType) /\ Len(tasks) = 0
        BY EmptySeq DEF BlocksInv, TypeInv
      <4>2. 1..0 = {}
        OBVIOUS
      <4> QED
        BY <4>1, <4>2, LenProperties
    <3>2. PICK r \in DOMAIN rows : TakenRow(r)
      BY <3>1 DEF BlocksInv, TakenInv
    <3>3. history.block # None => history.block \in {taken} \cup Claims
      BY DEF BlocksInv, BookedInv
    <3>4. /\ r \in RowsOf(taken) /\ rows[r].result = "success"
          /\ rows[r].snapshot # None => history.block # None
      BY <3>1, <3>2 DEF TakenRow, RowsOf
    <3> QED
      BY <3>3, <3>4
  <2> QED
    BY <2>1, <2>2, <2>3 DEF ListInv
<1> QED
  BY Invariance, <1>1, PTL

(* save: a row that says success goes on saying it, and a miner's name on  *)
(* it never gives way to the pool's, however stale the row a handler       *)
(* decides on.                                                             *)
THEOREM RowsGain == BlocksSpec => RowsOnlyGain
<1> DEFINE Gain == \A r \in DOMAIN rows :
              /\ Successful(rows[r].result) => Successful(rows'[r].result)
              /\ Internal(rows'[r].by) => Internal(rows[r].by)
<1>1. BlocksInv /\ [BlocksNext]_blocksVars => [Gain]_blocksVars
  <2> SUFFICES ASSUME BlocksInv, [BlocksNext]_blocksVars PROVE Gain \/ UNCHANGED blocksVars
    OBVIOUS
  <2>1. CASE UNCHANGED rows
    BY <2>1
  <2>2. ASSUME NEW i \in DOMAIN tasks, Write(i) PROVE Gain
    <3>1. CASE RowsKeep(tasks[i])
      BY <3>1 DEF RowsKeep, Successful
    <3> QED
      BY <2>2, <3>1, WriteEffect
  <2> QED
    BY <2>1, <2>2 DEF BlocksNext, blocksVars, Find, GatewayReports, GatewaySubmits,
       SubmitBlock, Look, Check, Book, Fails
<1> QED
  BY Invariance, <1>1, PTL DEF BlocksSpec, RowsOnlyGain
=============================================================================
