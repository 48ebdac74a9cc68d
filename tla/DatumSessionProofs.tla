------------------------- MODULE DatumSessionProofs -------------------------
(***************************************************************************)
(* Proofs about DatumSession, for all job ids, ids of coinbases, bounds and *)
(* modes: types, that the stream is read in step, that each accepted share *)
(* is recorded or dropped once, that the row is the session's own, that a  *)
(* verdict is about the job, and that payouts handed out are those booked. *)
(*                                                                         *)
(* A handler's step takes its task out of those that wait and puts at most *)
(* one behind them, so Moved relates the tasks before and after by their   *)
(* places, and each step is one of a few shapes: it goes on with the next  *)
(* frame or a write (Quiet), it carries a share on, or it closes.  What a  *)
(* shape says is proved once of each part of the invariant.                *)
(***************************************************************************)
EXTENDS DatumSession, SequenceTheorems, FiniteSetTheorems, TLAPS

(* Types of the variables. *)
TaskType ==
    [at : {"next", "insert", "wrote", "asking", "reply", "save", "finalize",
           "record", "touch", "delete"},
     more : BOOLEAN, carries : Nat, ready : BOOLEAN]

WireType == [hello : BOOLEAN, read : Nat, opened : Nat, garbled : BOOLEAN]

AuxType == [overlapped : BOOLEAN, racing : BOOLEAN, twice : BOOLEAN,
            issued : Seq(Nat \ {0}), refused : SUBSET Nat, mixed : SUBSET Nat]

ShareType == [n : Nat \ {0}, pays : Nat]

Typed ==
    /\ mode \in {"solo", "pplns"}
    /\ heights \in Seq(Nat) /\ Latest \in 1..MaxTemplates
    /\ wire \in WireType
    /\ socket \in {"open", "gone"} /\ closed \in {"no", "close", "event"}
    /\ rows \in Nat /\ row \in 0..rows /\ live \subseteq 1..rows
    /\ nextId \in 1..MaxIds /\ contexts \in [1..MaxIds -> 0..Latest]
    /\ caches \in Seq(CacheType) /\ jobs \in [JobIds -> Nat]
    /\ tasks \in Seq(TaskType) /\ shares \in Seq(ShareType)
    /\ recorded \subseteq DOMAIN shares /\ dropped \subseteq DOMAIN shares
    /\ aux \in AuxType

(* The stream: only one piece has frames left to handle, and as many as were *)
(* read and not decrypted, while the socket is open; at most that many then. *)
FramesOf(t) == (IF t.at = "next" THEN 1 ELSE 0) + (IF t.more THEN 1 ELSE 0)

Busy(i) == FramesOf(tasks[i]) > 0

StreamInv ==
    /\ closed # "no" => socket = "gone"
    /\ wire.opened <= wire.read
    /\ \A i \in DOMAIN tasks : tasks[i].at = "delete" => ~tasks[i].more
    /\ \A i, k \in DOMAIN tasks : Busy(i) /\ Busy(k) => i = k
    /\ \A i \in DOMAIN tasks : Busy(i) =>
          /\ wire.opened + FramesOf(tasks[i]) <= wire.read
          /\ socket = "open" => wire.opened + FramesOf(tasks[i]) = wire.read
    /\ socket = "open" /\ (\A i \in DOMAIN tasks : ~Busy(i)) => wire.opened = wire.read
    /\ wire.garbled => aux.overlapped

(* The shares: each belongs to one handler, or is recorded or dropped.       *)
HasShare(t) == t.at \in {"reply", "save", "finalize", "record"}

Carried(n) == \E i \in DOMAIN tasks : HasShare(tasks[i]) /\ tasks[i].carries = n

BooksInv ==
    /\ \A n \in DOMAIN shares : n \in recorded \/ n \in dropped \/ Carried(n)
    /\ recorded \cap dropped = {}
    /\ \A i \in DOMAIN tasks : HasShare(tasks[i]) =>
          tasks[i].carries \in DOMAIN shares \ (recorded \cup dropped)
    /\ \A i, k \in DOMAIN tasks :
          HasShare(tasks[i]) /\ HasShare(tasks[k]) /\ tasks[i].carries = tasks[k].carries => i = k
    /\ dropped # {} => closed # "no"

(* The row: as long as no two inserts ran at a time and nothing was under    *)
(* way when the session closed, what is written of it is the session's own.  *)
Deleting == \A i \in DOMAIN tasks : tasks[i].at = "delete"

RowInv ==
    /\ \A i \in DOMAIN tasks : tasks[i].at = "touch" => tasks[i].carries \in 1..rows
    /\ \A i, k \in DOMAIN tasks : tasks[i].at = "delete" /\ tasks[k].at = "delete" => i = k
    /\ ~aux.twice =>
          \A i, k \in DOMAIN tasks : tasks[i].at = "insert" /\ tasks[k].at = "insert" => i = k
    /\ ~aux.twice /\ ~aux.racing =>
          /\ live = IF row = 0 THEN {} ELSE {row}
          /\ \A i \in DOMAIN tasks :
                /\ tasks[i].at = "insert" => row = 0
                /\ tasks[i].at \in {"touch", "delete"} => tasks[i].carries = row /\ row # 0
          /\ closed = "no" => \A i \in DOMAIN tasks : tasks[i].at # "delete"
          /\ closed # "no" => Deleting /\ (row # 0 => tasks # <<>>)

(* The work: what is asked is of a cache its job id has, or had before.      *)
Kinds == {"short", "blob"}

WorkInv ==
    /\ \A j \in JobIds : jobs[j] # 0 => jobs[j] \in DOMAIN caches /\ caches[jobs[j]].job = j
    /\ \A request \in asked :
          request[1] \in Kinds /\ request[2] \in DOMAIN caches /\ request[2] <= jobs[caches[request[2]].job]
    /\ \A i \in DOMAIN tasks : tasks[i].at = "asking" => tasks[i].carries \in DOMAIN caches
    /\ VerdictIsItsOwn

(* The payouts: the contexts are those of the last ids that were given out,  *)
(* and a share pays its cache's, unless that was changed meanwhile.          *)
SlotOf(d) == IF d < nextId THEN nextId - d ELSE nextId - d + MaxIds

PaysOwn(share, snapshot) == snapshot \in {0, share.pays} \/ share.n \in aux.mixed

PayInv ==
    /\ \A d \in 1..MaxIds : d <= Len(aux.issued) =>
          contexts[SlotOf(d)] = aux.issued[Len(aux.issued) - d + 1]
    /\ \A n \in DOMAIN shares :
          /\ shares[n].n \in DOMAIN caches
          /\ mode = "pplns" => PaysOwn(shares[n], caches[shares[n].n].ctx)
    /\ \A f \in finalized :
          /\ mode = "pplns" /\ f.share \in DOMAIN shares
          /\ PaysOwn(shares[f.share], f.snapshot)
    /\ aux.refused = {}

DatumInv == Typed /\ StreamInv /\ BooksInv /\ RowInv /\ WorkInv /\ PayInv
-----------------------------------------------------------------------------
(* Sequences. *)

LEMMA RemoveAtProperties ==
    ASSUME NEW S, NEW seq \in Seq(S), NEW i \in DOMAIN seq
    PROVE  /\ RemoveAt(seq, i) \in Seq(S)
           /\ Len(RemoveAt(seq, i)) = Len(seq) - 1
           /\ \A j \in 1 .. Len(seq) - 1 :
                 RemoveAt(seq, i)[j] = IF j < i THEN seq[j] ELSE seq[j + 1]
<1>1. PICK n \in Nat : n = Len(seq) /\ DOMAIN seq = 1..n /\ i \in 1..n
  BY LenProperties
<1>2. \A j \in 1..n : seq[j] \in S
  BY <1>1, ElementOfSeq
<1>3. PICK front : front = SubSeq(seq, 1, i - 1)
  OBVIOUS
<1>4. PICK rest : rest = SubSeq(seq, i + 1, n)
  OBVIOUS
<1>5. /\ front \in Seq(S) /\ Len(front) = i - 1
      /\ \A j \in 1 .. i - 1 : front[j] = seq[j]
  <2>1. \A j \in 1 .. i - 1 : seq[j] \in S
    BY <1>1, <1>2
  <2>2. /\ front \in Seq(S)
        /\ Len(front) = IF 1 <= i - 1 THEN i - 1 - 1 + 1 ELSE 0
        /\ \A j \in 1 .. i - 1 - 1 + 1 : front[j] = seq[1 + j - 1]
    BY <1>1, <1>3, <2>1, SubSeqProperties
  <2> QED
    BY ONLY <1>1, <2>2
<1>6. /\ rest \in Seq(S) /\ Len(rest) = n - i
      /\ \A j \in 1 .. n - i : rest[j] = seq[i + j]
  <2>1. \A j \in i + 1 .. n : seq[j] \in S
    BY <1>1, <1>2
  <2>2. /\ rest \in Seq(S)
        /\ Len(rest) = IF i + 1 <= n THEN n - (i + 1) + 1 ELSE 0
        /\ \A j \in 1 .. n - (i + 1) + 1 : rest[j] = seq[i + 1 + j - 1]
    BY <1>1, <1>4, <2>1, SubSeqProperties
  <2>3. \A j \in 1 .. n - i : i + 1 + j - 1 = i + j /\ j \in 1 .. n - (i + 1) + 1
    BY <1>1
  <2>4. Len(rest) = n - i
    BY ONLY <1>1, <2>2
  <2> QED
    BY ONLY <2>2, <2>3, <2>4
<1>7. PICK r : r = front \o rest
  OBVIOUS
<1>8. /\ r \in Seq(S) /\ Len(r) = n - 1
      /\ \A j \in 1 .. n - 1 : r[j] = IF j <= i - 1 THEN front[j] ELSE rest[j - (i - 1)]
  <2>1. /\ r \in Seq(S) /\ Len(r) = Len(front) + Len(rest)
        /\ \A j \in 1 .. Len(front) + Len(rest) :
              r[j] = IF j <= Len(front) THEN front[j] ELSE rest[j - Len(front)]
    BY <1>5, <1>6, <1>7, ConcatProperties
  <2> QED
    BY ONLY <1>1, <1>5, <1>6, <2>1
<1>9. ASSUME NEW j \in 1 .. n - 1
      PROVE  r[j] = IF j < i THEN seq[j] ELSE seq[j + 1]
  <2>1. CASE j < i
    BY ONLY <1>1, <1>5, <1>8, <2>1, j \in 1 .. n - 1
  <2>2. CASE ~(j < i)
    <3>1. j - (i - 1) \in 1 .. n - i /\ i + (j - (i - 1)) = j + 1
      BY <1>1, <2>2
    <3>2. r[j] = rest[j - (i - 1)]
      BY ONLY <1>1, <1>8, <2>2, j \in 1 .. n - 1
    <3> QED
      BY ONLY <1>6, <2>2, <3>1, <3>2
  <2> QED
    BY <2>1, <2>2
<1>10. RemoveAt(seq, i) = r
  BY <1>1, <1>3, <1>4, <1>7 DEF RemoveAt
<1> QED
  BY <1>1, <1>8, <1>9, <1>10

LEMMA AfterAppend ==
    ASSUME NEW S, NEW seq \in Seq(S), NEW e \in S
    PROVE  /\ Append(seq, e) \in Seq(S)
           /\ DOMAIN seq = 1..Len(seq) /\ Len(seq) \in Nat
           /\ DOMAIN Append(seq, e) = 1 .. Len(seq) + 1
           /\ Len(Append(seq, e)) = Len(seq) + 1
           /\ \A j \in DOMAIN seq : Append(seq, e)[j] = seq[j]
           /\ Append(seq, e)[Len(seq) + 1] = e
BY AppendProperties, LenProperties

(* The sequence u is seq without its element i, if it has one, and with those *)
(* of new, of which there is one at most.                                    *)
Puts(seq, i, new, f, u) ==
    /\ \A k \in DOMAIN u : \/ f[k] = 0 /\ u[k] \in new
                           \/ f[k] \in DOMAIN seq /\ f[k] # i /\ u[k] = seq[f[k]]
    /\ \A k, l \in DOMAIN u : f[k] = f[l] => k = l
    /\ \A m \in DOMAIN seq : m # i => \E k \in DOMAIN u : f[k] = m
    /\ \A t \in new : \E k \in DOMAIN u : u[k] = t
    /\ 0 \notin DOMAIN seq

Puttable(seq, i, new, u) == \E f : Puts(seq, i, new, f, u)

LEMMA Removed ==
    ASSUME NEW S, NEW seq \in Seq(S), NEW i \in DOMAIN seq
    PROVE  RemoveAt(seq, i) \in Seq(S) /\ Puttable(seq, i, {}, RemoveAt(seq, i))
<1>1. PICK u : u = RemoveAt(seq, i)
  OBVIOUS
<1>2. PICK n \in Nat : n = Len(seq) /\ DOMAIN seq = 1..n /\ i \in 1..n
  BY LenProperties
<1>3. /\ u \in Seq(S) /\ Len(u) = n - 1
      /\ \A j \in 1 .. n - 1 : u[j] = IF j < i THEN seq[j] ELSE seq[j + 1]
  BY <1>1, <1>2, RemoveAtProperties
<1>4. DOMAIN u = 1 .. n - 1
  BY <1>3, LenProperties
<1>5. PICK f : f = [k \in 1 .. n - 1 |-> IF k < i THEN k ELSE k + 1]
  OBVIOUS
<1>6. ASSUME NEW k \in DOMAIN u
      PROVE  f[k] \in DOMAIN seq /\ f[k] # i /\ u[k] = seq[f[k]]
  BY ONLY <1>2, <1>3, <1>4, <1>5, k \in DOMAIN u
<1>7. ASSUME NEW k \in DOMAIN u, NEW l \in DOMAIN u, f[k] = f[l]
      PROVE  k = l
  BY ONLY <1>2, <1>4, <1>5, <1>7, k \in DOMAIN u, l \in DOMAIN u
<1>8. ASSUME NEW m \in DOMAIN seq, m # i
      PROVE  \E k \in DOMAIN u : f[k] = m
  <2>1. CASE m < i
    <3>1. m \in DOMAIN u /\ f[m] = m
      BY ONLY <1>2, <1>4, <1>5, <2>1, m \in DOMAIN seq
    <3> QED
      BY <3>1
  <2>2. CASE ~(m < i)
    <3>1. m - 1 \in DOMAIN u /\ f[m - 1] = m
      BY ONLY <1>2, <1>4, <1>5, <1>8, <2>2, m \in DOMAIN seq
    <3> QED
      BY <3>1
  <2> QED
    BY <2>1, <2>2
<1>9. Puts(seq, i, {}, f, u)
  BY <1>2, <1>6, <1>7, <1>8 DEF Puts
<1> QED
  BY <1>1, <1>3, <1>9 DEF Puttable

LEMMA AddedTo ==
    ASSUME NEW S, NEW seq \in Seq(S), NEW i, NEW u \in Seq(S), Puttable(seq, i, {}, u),
           NEW t \in S
    PROVE  Append(u, t) \in Seq(S) /\ Puttable(seq, i, {t}, Append(u, t))
<1>1. PICK v : v = Append(u, t)
  OBVIOUS
<1>2. PICK n \in Nat : n = Len(u) /\ DOMAIN u = 1..n
  BY LenProperties
<1>3. /\ v \in Seq(S) /\ DOMAIN v = 1 .. n + 1 /\ v[n + 1] = t
      /\ \A j \in 1..n : v[j] = u[j]
  BY <1>1, <1>2, AfterAppend
<1>4. PICK g : Puts(seq, i, {}, g, u)
  BY DEF Puttable
<1>5. PICK f : f = [k \in 1 .. n + 1 |-> IF k = n + 1 THEN 0 ELSE g[k]]
  OBVIOUS
<1>6. /\ f[n + 1] = 0 /\ n + 1 \in DOMAIN v
      /\ \A k \in DOMAIN v : k # n + 1 => k \in DOMAIN u /\ f[k] = g[k] /\ v[k] = u[k]
      /\ \A k \in DOMAIN u : k \in DOMAIN v /\ f[k] = g[k] /\ v[k] = u[k] /\ k # n + 1
  BY ONLY <1>2, <1>3, <1>5
<1>7. /\ \A k \in DOMAIN u : g[k] \in DOMAIN seq /\ g[k] # i /\ u[k] = seq[g[k]]
      /\ \A k, l \in DOMAIN u : g[k] = g[l] => k = l
      /\ \A m \in DOMAIN seq : m # i => \E k \in DOMAIN u : g[k] = m
      /\ 0 \notin DOMAIN seq
  BY <1>4 DEF Puts
<1>8. \A k \in DOMAIN v : \/ f[k] = 0 /\ v[k] \in {t}
                          \/ f[k] \in DOMAIN seq /\ f[k] # i /\ v[k] = seq[f[k]]
  BY ONLY <1>3, <1>6, <1>7
<1>9. \A k, l \in DOMAIN v : f[k] = f[l] => k = l
  BY ONLY <1>6, <1>7
<1>10. \A m \in DOMAIN seq : m # i => \E k \in DOMAIN v : f[k] = m
  BY ONLY <1>6, <1>7
<1>11. \A x \in {t} : \E k \in DOMAIN v : v[k] = x
  BY ONLY <1>3, <1>6
<1>12. Puts(seq, i, {t}, f, v)
  BY ONLY <1>7, <1>8, <1>9, <1>10, <1>11 DEF Puts
<1> QED
  BY <1>1, <1>3, <1>12 DEF Puttable

LEMMA UnputAll ==
    ASSUME NEW S, NEW seq \in Seq(S)
    PROVE  Puttable(seq, 0, {}, seq)
<1>1. DOMAIN seq = 1..Len(seq) /\ Len(seq) \in Nat
  BY LenProperties
<1>2. PICK f : f = [k \in DOMAIN seq |-> k]
  OBVIOUS
<1>3. \A k \in DOMAIN seq : f[k] = k /\ k # 0
  BY <1>1, <1>2
<1>4. Puts(seq, 0, {}, f, seq)
  BY <1>1, <1>3 DEF Puts
<1> QED
  BY <1>4 DEF Puttable

-----------------------------------------------------------------------------
(* The shapes of the handlers' steps. *)

LEMMA TaskIs ==
    ASSUME Typed, NEW i \in DOMAIN tasks
    PROVE  tasks[i] \in TaskType
BY ElementOfSeq DEF Typed

LEMMA WaitsIs ==
    ASSUME NEW at \in {"next", "insert", "wrote", "asking", "reply", "save", "finalize",
                       "record", "touch", "delete"},
           NEW more \in BOOLEAN, NEW carries \in Nat
    PROVE  /\ Waits(at, more, carries) \in TaskType
           /\ \E t \in TaskType : /\ Written(Waits(at, more, carries)) = <<t>>
                                 /\ t.at = at /\ t.more = more /\ t.carries = carries
<1>1. PICK b \in BOOLEAN : b = (socket = "gone")
  OBVIOUS
<1>2. PICK t : t = [at |-> at, more |-> more, carries |-> carries, ready |-> b]
  OBVIOUS
<1>3. t \in TaskType /\ t.at = at /\ t.more = more /\ t.carries = carries
  BY <1>2 DEF TaskType
<1>4. Written(Waits(at, more, carries)) = <<t>>
  BY <1>1, <1>2 DEF Written, Waits
<1>5. Waits(at, more, carries) \in TaskType
  BY DEF Waits, TaskType
<1> QED
  BY <1>3, <1>4, <1>5

(* Task i is gone, and those of new have come. *)
Moved(i, new) == tasks' \in Seq(TaskType) /\ Puttable(tasks, i, new, tasks')

(* The frames left in the piece of handler i after this one.                 *)
Left(i) == IF tasks[i].more THEN 1 ELSE 0

(* Handler i goes on, with all the frames left.                              *)
Going(i, new) ==
    /\ Moved(i, new) /\ UNCHANGED stream
    /\ \A t \in new : FramesOf(t) = Left(i) /\ t.at # "delete"
    /\ Left(i) > 0 => new # {}

Quiet(i) == \E new : Going(i, new) /\ \A t \in new : t.at \in {"next", "wrote"}

Asking(i, n) == \E new : Going(i, new) /\ \A t \in new : t.at = "asking" /\ t.carries = n

Inserting(i) == \E new : Going(i, new) /\ \A t \in new : t.at = "insert"

Carrying(i, n) ==
    \E t : Going(i, {t}) /\ HasShare(t) /\ t.carries = n

Touching(i) ==
    \E new : Going(i, new) /\ \A t \in new : t.at = "touch" /\ t.carries = row

(* Handler i, or none, ends, and the session is closed, by its handler or    *)
(* by the event; what was under way then is noted.                           *)
Shutting(i, new) ==
    /\ Moved(i, new) /\ socket' = "gone" /\ closed' \in {"close", "event"}
    /\ \A t \in new : t.at = "delete" /\ ~t.more /\ t.carries = row /\ row # 0
    /\ new # {} => \A k \in DOMAIN tasks : k # i => tasks[k].at # "delete"
    /\ row # 0 => new # {} \/ \E k \in DOMAIN tasks : k # i /\ tasks[k].at = "delete"
    /\ \E b \in BOOLEAN :
          /\ aux' = [aux EXCEPT !.racing = b]
          /\ ~b => ~aux.racing /\ \A k \in DOMAIN tasks : k # i => tasks[k].at = "delete"

Shut(i) == \E new : Shutting(i, new)

LEMMA GoesNone ==
    ASSUME Typed, NEW i \in DOMAIN tasks, Goes(i, << >>)
    PROVE  Moved(i, {}) /\ UNCHANGED stream
<1>1. PICK u : u = RemoveAt(tasks, i)
  OBVIOUS
<1>2. u \in Seq(TaskType) /\ Puttable(tasks, i, {}, u)
  BY <1>1, Removed DEF Typed
<1>3. u \o << >> = u
  BY <1>2
<1>4. tasks' = u /\ UNCHANGED stream
  BY <1>1, <1>3 DEF Goes, Without
<1> QED
  BY <1>2, <1>4 DEF Moved

LEMMA GoesOne ==
    ASSUME Typed, NEW i \in DOMAIN tasks, NEW t \in TaskType, Goes(i, <<t>>)
    PROVE  Moved(i, {t}) /\ UNCHANGED stream
<1>1. PICK u : u = RemoveAt(tasks, i)
  OBVIOUS
<1>2. u \in Seq(TaskType) /\ Puttable(tasks, i, {}, u)
  BY <1>1, Removed DEF Typed
<1>3. Append(u, t) \in Seq(TaskType) /\ Puttable(tasks, i, {t}, Append(u, t))
  BY <1>2, AddedTo DEF Typed
<1>4. u \o <<t>> = Append(u, t)
  BY <1>2
<1>5. tasks' = Append(u, t) /\ UNCHANGED stream
  BY <1>1, <1>4 DEF Goes, Without
<1> QED
  BY <1>3, <1>5 DEF Moved

LEMMA GoesRest ==
    ASSUME Typed, NEW i \in DOMAIN tasks,
           Goes(i, Rest(tasks[i].more)) \/ Goes(i, Replied(tasks[i].more))
    PROVE  Quiet(i)
<1>1. CASE ~tasks[i].more
  <2>1. Goes(i, << >>)
    BY <1>1 DEF Rest, Replied
  <2>2. Moved(i, {}) /\ UNCHANGED stream /\ Left(i) = 0
    BY <1>1, <2>1, GoesNone DEF Left
  <2>3. Going(i, {})
    BY <2>2 DEF Going
  <2> QED
    BY <2>3 DEF Quiet
<1>2. CASE tasks[i].more
  <2>1. PICK t \in TaskType : Goes(i, <<t>>) /\ FramesOf(t) = 1 /\ t.at \in {"next", "wrote"}
    <3>1. CASE Goes(i, Rest(tasks[i].more))
      <4>1. Waits("next", FALSE, 0) \in TaskType
        BY WaitsIs
      <4>2. FramesOf(Waits("next", FALSE, 0)) = 1 /\ Waits("next", FALSE, 0).at = "next"
        BY DEF Waits, FramesOf
      <4> QED
        BY <1>2, <3>1, <4>1, <4>2 DEF Rest
    <3>2. CASE Goes(i, Replied(tasks[i].more))
      <4>1. PICK t \in TaskType : /\ Written(Waits("wrote", TRUE, 0)) = <<t>>
                                  /\ t.at = "wrote" /\ t.more = TRUE
        <5>1. PICK at \in {"wrote"}, more \in BOOLEAN, n \in Nat : more = TRUE /\ n = 0
          OBVIOUS
        <5>2. PICK t \in TaskType : /\ Written(Waits(at, more, n)) = <<t>>
                                    /\ t.at = at /\ t.more = more
          BY WaitsIs
        <5> QED
          BY <5>1, <5>2
      <4>2. FramesOf(t) = 1
        BY <4>1 DEF FramesOf
      <4> QED
        BY <1>2, <3>2, <4>1, <4>2 DEF Replied
    <3> QED
      BY <3>1, <3>2
  <2>2. Moved(i, {t}) /\ UNCHANGED stream
    BY <2>1, GoesOne
  <2>3. Going(i, {t})
    BY <1>2, <2>1, <2>2 DEF Going, Left
  <2> QED
    BY <2>1, <2>3 DEF Quiet
<1> QED
  BY <1>1, <1>2

(* A task of the same piece that is not its next frame.                      *)
LEMMA GoesOn ==
    ASSUME Typed, NEW i \in DOMAIN tasks, NEW t \in TaskType, Goes(i, <<t>>),
           t.at \notin {"next", "delete"}, t.more = tasks[i].more
    PROVE  Going(i, {t})
<1>1. Moved(i, {t}) /\ UNCHANGED stream
  BY GoesOne
<1>2. FramesOf(t) = Left(i)
  BY DEF FramesOf, Left
<1> QED
  BY <1>1, <1>2 DEF Going

Awaited == {"asking", "reply", "insert", "touch"}

(* Handler i goes on to wait so. *)
GoesTo(i, at, carries) ==
    \/ Goes(i, Written(Waits(at, tasks[i].more, carries)))
    \/ Goes(i, <<Waits(at, tasks[i].more, carries)>>)

WentTo(i, at, carries) == \E t : Going(i, {t}) /\ t.at = at /\ t.carries = carries

LEMMA GoesWaiting ==
    ASSUME Typed, NEW i \in DOMAIN tasks, NEW at \in Awaited, NEW carries \in Nat,
           GoesTo(i, at, carries)
    PROVE  WentTo(i, at, carries)
<1>1. tasks[i].more \in BOOLEAN
  BY TaskIs DEF TaskType
<1>2. PICK more \in BOOLEAN : more = tasks[i].more
  BY <1>1
<1>3. PICK t \in TaskType : /\ Goes(i, <<t>>)
                            /\ t.at = at /\ t.more = more /\ t.carries = carries
  <2>1. CASE Goes(i, Written(Waits(at, tasks[i].more, carries)))
    <3>1. PICK t \in TaskType : /\ Written(Waits(at, more, carries)) = <<t>>
                                /\ t.at = at /\ t.more = more /\ t.carries = carries
      BY WaitsIs DEF Awaited
    <3> QED
      BY <1>2, <2>1, <3>1
  <2>2. CASE Goes(i, <<Waits(at, tasks[i].more, carries)>>)
    <3>1. Waits(at, more, carries) \in TaskType
      BY WaitsIs DEF Awaited
    <3>2. /\ Waits(at, more, carries).at = at /\ Waits(at, more, carries).more = more
          /\ Waits(at, more, carries).carries = carries
      BY DEF Waits
    <3> QED
      BY <1>2, <2>2, <3>1, <3>2
  <2> QED
    BY <2>1, <2>2 DEF GoesTo
<1>4. t.at \notin {"next", "delete"}
  BY <1>3 DEF Awaited
<1>5. Going(i, {t})
  BY <1>2, <1>3, <1>4, GoesOn
<1> QED
  BY <1>3, <1>5 DEF WentTo

LEMMA GoesCarrying ==
    ASSUME Typed, NEW i \in DOMAIN tasks, HasShare(tasks[i]),
           NEW at \in {"save", "finalize", "record"}, Goes(i, <<[Of(i) EXCEPT !.at = at]>>)
    PROVE  Carrying(i, tasks[i].carries)
<1>1. PICK s \in TaskType : s = tasks[i]
  BY TaskIs
<1>2. PICK t : t = [s EXCEPT !.at = at]
  OBVIOUS
<1>3. t \in TaskType /\ t.at = at /\ t.more = s.more /\ t.carries = s.carries
  BY ONLY s \in TaskType, <1>2, at \in {"save", "finalize", "record"} DEF TaskType
<1>4. Goes(i, <<t>>) /\ t.at \notin {"next", "delete"} /\ t.more = tasks[i].more
  BY <1>1, <1>2, <1>3 DEF Of
<1>5. Going(i, {t})
  BY <1>3, <1>4, GoesOn
<1> QED
  BY <1>1, <1>3, <1>5 DEF Carrying, HasShare

(* The session is closed: what is left of the tasks is there, and a delete.  *)
LEMMA ShutsBy ==
    ASSUME Typed, NEW i, NEW left \in Seq(TaskType), Puttable(tasks, i, {}, left),
           tasks' = Deletes(left), socket' = "gone", closed' \in {"close", "event"},
           NEW b \in BOOLEAN, aux' = [aux EXCEPT !.racing = b],
           ~b => ~aux.racing /\ \A k \in DOMAIN tasks : k # i => tasks[k].at = "delete"
    PROVE  Shut(i)
<1>1. row \in Nat
  BY DEF Typed
<1>2. PICK f : Puts(tasks, i, {}, f, left)
  BY DEF Puttable
<1>3. CASE row # 0 /\ \A k \in DOMAIN left : left[k].at # "delete"
  <2>1. PICK t : t = Waits("delete", FALSE, row)
    OBVIOUS
  <2>2. t \in TaskType
    BY <1>1, <2>1, WaitsIs
  <2>3. tasks' = Append(left, t)
    BY <1>3, <2>1 DEF Deletes
  <2>4. Moved(i, {t})
    BY <2>2, <2>3, AddedTo DEF Moved, Typed
  <2>5. t.at = "delete" /\ ~t.more /\ t.carries = row
    BY <2>1 DEF Waits
  <2>6. \A k \in DOMAIN tasks : k # i => tasks[k].at # "delete"
    BY <1>2, <1>3 DEF Puts
  <2>7. Shutting(i, {t})
    BY <1>3, <2>4, <2>5, <2>6 DEF Shutting
  <2> QED
    BY <2>7 DEF Shut
<1>4. CASE ~(row # 0 /\ \A k \in DOMAIN left : left[k].at # "delete")
  <2>1. tasks' = left
    BY <1>4 DEF Deletes
  <2>2. Moved(i, {})
    BY <2>1 DEF Moved
  <2>3. row # 0 => \E k \in DOMAIN tasks : k # i /\ tasks[k].at = "delete"
    BY <1>2, <1>4 DEF Puts
  <2>4. Shutting(i, {})
    BY <2>2, <2>3 DEF Shutting
  <2> QED
    BY <2>4 DEF Shut
<1> QED
  BY <1>3, <1>4

LEMMA ThrowsShuts ==
    ASSUME Typed, NEW i \in DOMAIN tasks, Throws(i)
    PROVE  Shut(i)
<1>1. PICK left : left = RemoveAt(tasks, i)
  OBVIOUS
<1>2. left \in Seq(TaskType) /\ Puttable(tasks, i, {}, left)
  BY <1>1, Removed DEF Typed
<1>3. Closes(left)
  BY <1>1 DEF Throws, Without
<1>4. PICK b \in BOOLEAN : b = (aux.racing \/ \E k \in DOMAIN left : left[k].at # "delete")
  OBVIOUS
<1>5. aux' = [aux EXCEPT !.racing = b]
  BY <1>3, <1>4 DEF Closes
<1>6. /\ tasks' = Deletes(left) /\ socket' = "gone" /\ closed' \in {"close", "event"}
  BY <1>3 DEF Closes, Typed
<1>7. ~b => ~aux.racing /\ \A k \in DOMAIN tasks : k # i => tasks[k].at = "delete"
  <2>1. PICK f : Puts(tasks, i, {}, f, left)
    BY <1>2 DEF Puttable
  <2>2. ASSUME \A k \in DOMAIN left : left[k].at = "delete", NEW k \in DOMAIN tasks, k # i
        PROVE  tasks[k].at = "delete"
    BY <2>1, <2>2 DEF Puts
  <2> QED
    BY <1>4, <2>2
<1> QED
  BY <1>2, <1>5, <1>6, <1>7, ShutsBy

LEMMA CloseShuts ==
    ASSUME Typed, OnClose
    PROVE  Shut(0)
<1>1. tasks \in Seq(TaskType) /\ Puttable(tasks, 0, {}, tasks)
  BY UnputAll DEF Typed
<1>2. PICK b \in BOOLEAN : b = (aux.racing \/ tasks # << >>)
  OBVIOUS
<1>3. aux' = [aux EXCEPT !.racing = b]
  BY <1>2 DEF OnClose
<1>4. /\ tasks' = Deletes(tasks) /\ socket' = "gone" /\ closed' \in {"close", "event"}
  BY DEF OnClose
<1>5. ~b => ~aux.racing /\ \A k \in DOMAIN tasks : k # 0 => tasks[k].at = "delete"
  <2>1. tasks = << >> => DOMAIN tasks = {}
    OBVIOUS
  <2> QED
    BY <1>2, <2>1
<1> QED
  BY <1>1, <1>3, <1>4, <1>5, ShutsBy

-----------------------------------------------------------------------------
(* What a handler changes besides its task. *)

(* The caches d are the caches c, the same of them asked about and judged,   *)
(* and maybe more.                                                           *)
SameWork(c, d) ==
    /\ d \in Seq(CacheType) /\ DOMAIN d = DOMAIN c
    /\ \A k \in DOMAIN c : d[k].job = c[k].job /\ d[k].verdict = c[k].verdict

AuxSame(a, b) ==
    /\ b \in AuxType /\ b.overlapped = a.overlapped /\ b.racing = a.racing
    /\ b.twice = a.twice /\ b.issued = a.issued

LEMMA CachePut ==
    ASSUME NEW all \in Seq(CacheType), NEW n \in DOMAIN all, NEW c \in CacheType
    PROVE  LET d == [all EXCEPT ![n] = c]
           IN  /\ d \in Seq(CacheType) /\ DOMAIN d = DOMAIN all /\ Len(d) = Len(all)
               /\ d[n] = c /\ \A k \in DOMAIN all : k # n => d[k] = all[k]
<1>1. n \in 1..Len(all) /\ DOMAIN all = 1..Len(all)
  BY LenProperties
<1>2. PICK d : d = [all EXCEPT ![n] = c]
  OBVIOUS
<1>3. /\ d \in Seq(CacheType) /\ Len(d) = Len(all)
      /\ \A k \in 1..Len(all) : d[k] = IF k = n THEN c ELSE all[k]
  BY <1>1, <1>2, ExceptSeq
<1>4. DOMAIN d = DOMAIN all
  BY <1>1, <1>3, LenProperties
<1> QED
  BY <1>1, <1>2, <1>3, <1>4

States == {"none", "short", "blob", "validated", "failed"}

(* Cache n gets a context, a state, or a state and a verdict.                *)
WithCtx(all, n, ctx) == [all EXCEPT ![n].ctx = ctx]

LEMMA WithContext ==
    ASSUME NEW all \in Seq(CacheType), NEW n \in DOMAIN all, NEW ctx \in 0..MaxTemplates,
           NEW d, d = WithCtx(all, n, ctx)
    PROVE  /\ SameWork(all, d) /\ d[n].ctx = ctx
           /\ \A k \in DOMAIN all : k # n => d[k] = all[k]
<1>1. PICK c \in CacheType : c = all[n]
  BY ElementOfSeq
<1>2. PICK e : e = [c EXCEPT !.ctx = ctx]
  OBVIOUS
<1>4. e \in CacheType /\ e.job = c.job /\ e.verdict = c.verdict /\ e.ctx = ctx
  BY ONLY c \in CacheType, ctx \in 0..MaxTemplates, <1>2 DEF CacheType
<1>5. d = [all EXCEPT ![n] = e]
  BY <1>1, <1>2 DEF WithCtx
<1>6. /\ d \in Seq(CacheType) /\ DOMAIN d = DOMAIN all
      /\ d[n] = e /\ \A k \in DOMAIN all : k # n => d[k] = all[k]
  BY ONLY all \in Seq(CacheType), n \in DOMAIN all, <1>4, <1>5, CachePut
<1> QED
  BY ONLY <1>1, <1>4, <1>6 DEF SameWork

Marked(all, n, state) == [all EXCEPT ![n].state = state]

LEMMA WithState ==
    ASSUME NEW all \in Seq(CacheType), NEW n \in DOMAIN all,
           NEW state \in States,
           NEW d, d = Marked(all, n, state)
    PROVE  /\ SameWork(all, d) /\ d[n].ctx = all[n].ctx /\ d[n].base = all[n].base
           /\ \A k \in DOMAIN all : k # n => d[k] = all[k]
<1>1. PICK c \in CacheType : c = all[n]
  BY ElementOfSeq
<1>2. PICK e : e = [c EXCEPT !.state = state]
  OBVIOUS
<1>4. e \in CacheType /\ e.job = c.job /\ e.verdict = c.verdict /\ e.ctx = c.ctx /\ e.base = c.base
  BY ONLY c \in CacheType, state \in States,
          <1>2 DEF CacheType, States
<1>5. d = [all EXCEPT ![n] = e]
  BY <1>1, <1>2 DEF Marked
<1>6. /\ d \in Seq(CacheType) /\ DOMAIN d = DOMAIN all
      /\ d[n] = e /\ \A k \in DOMAIN all : k # n => d[k] = all[k]
  BY ONLY all \in Seq(CacheType), n \in DOMAIN all, <1>4, <1>5, CachePut
<1> QED
  BY ONLY <1>1, <1>4, <1>6 DEF SameWork

WithAnswer(all, n, state, m) == [all EXCEPT ![n].state = state, ![n].verdict = m]

LEMMA WithVerdict ==
    ASSUME NEW all \in Seq(CacheType), NEW n \in DOMAIN all, NEW m \in Nat,
           NEW state \in States
    PROVE  \E d : /\ d = WithAnswer(all, n, state, m)
                  /\ d \in Seq(CacheType) /\ DOMAIN d = DOMAIN all
                  /\ d[n].job = all[n].job /\ d[n].ctx = all[n].ctx /\ d[n].verdict = m
                  /\ \A k \in DOMAIN all : k # n => d[k] = all[k]
<1>0. PICK d : d = WithAnswer(all, n, state, m)
  OBVIOUS
<1>1. PICK c \in CacheType : c = all[n]
  BY ElementOfSeq
<1>2. PICK e : e = [c EXCEPT !.state = state, !.verdict = m]
  OBVIOUS
<1>4. e \in CacheType /\ e.job = c.job /\ e.verdict = m /\ e.ctx = c.ctx
  BY ONLY c \in CacheType, state \in States,
          m \in Nat, <1>2 DEF CacheType, States
<1>5. d = [all EXCEPT ![n] = e]
  BY <1>0, <1>1, <1>2 DEF WithAnswer
<1>6. /\ d \in Seq(CacheType) /\ DOMAIN d = DOMAIN all
      /\ d[n] = e /\ \A k \in DOMAIN all : k # n => d[k] = all[k]
  BY ONLY all \in Seq(CacheType), n \in DOMAIN all, <1>4, <1>5, CachePut
<1> QED
  BY ONLY <1>0, <1>1, <1>4, <1>6

-----------------------------------------------------------------------------
(* The stream. *)

(* Where the tasks of the step's end come from.                              *)
LEMMA Origin ==
    ASSUME Typed, NEW i, NEW new, Moved(i, new)
    PROVE  \E f : /\ \A k \in DOMAIN tasks' :
                        \/ f[k] = 0 /\ tasks'[k] \in new
                        \/ f[k] \in DOMAIN tasks /\ f[k] # i /\ tasks'[k] = tasks[f[k]]
                  /\ \A k, l \in DOMAIN tasks' : f[k] = f[l] => k = l
                  /\ \A m \in DOMAIN tasks : m # i => \E k \in DOMAIN tasks' : f[k] = m
                  /\ \A t \in new : \E k \in DOMAIN tasks' : tasks'[k] = t
                  /\ 0 \notin DOMAIN tasks
<1>1. PICK u : u = tasks'
  OBVIOUS
<1>2. PICK f : Puts(tasks, i, new, f, u)
  BY <1>1 DEF Moved, Puttable
<1> QED
  BY <1>1, <1>2 DEF Puts

LEMMA FramesNow ==
    ASSUME NEW i
    PROVE  FramesOf(tasks[i]) = (IF tasks[i].at = "next" THEN 1 ELSE 0) + Left(i)
BY DEF FramesOf, Left

(* A handler opens a frame if it has just come to it.                        *)
Opens(i) == wire' = [wire EXCEPT !.opened = IF tasks[i].at = "next" THEN @ + 1 ELSE @]

LEMMA StreamGoing ==
    ASSUME Typed, StreamInv, NEW i \in DOMAIN tasks, NEW new, Going(i, new), Opens(i),
           aux'.overlapped = aux.overlapped
    PROVE  StreamInv' /\ wire' \in WireType
<1>1. PICK f : /\ \A k \in DOMAIN tasks' :
                     \/ f[k] = 0 /\ tasks'[k] \in new
                     \/ f[k] \in DOMAIN tasks /\ f[k] # i /\ tasks'[k] = tasks[f[k]]
               /\ \A k, l \in DOMAIN tasks' : f[k] = f[l] => k = l
               /\ \A m \in DOMAIN tasks : m # i => \E k \in DOMAIN tasks' : f[k] = m
               /\ \A t \in new : \E k \in DOMAIN tasks' : tasks'[k] = t
               /\ 0 \notin DOMAIN tasks
  BY Origin DEF Going
<1>2. PICK r \in Nat, o \in Nat, o2 \in Nat, s \in {0, 1} :
         /\ r = wire.read /\ o = wire.opened /\ o2 = o + s
         /\ s = IF tasks[i].at = "next" THEN 1 ELSE 0
         /\ wire' = [wire EXCEPT !.opened = o2]
  <2>1. PICK s \in {0, 1} : s = IF tasks[i].at = "next" THEN 1 ELSE 0
    OBVIOUS
  <2>2. PICK r \in Nat, o \in Nat : r = wire.read /\ o = wire.opened
    BY DEF Typed, WireType
  <2>3. PICK o2 \in Nat : o2 = o + s
    BY <2>1, <2>2
  <2>4. wire' = [wire EXCEPT !.opened = o2]
    BY <2>1, <2>2, <2>3 DEF Opens
  <2> QED
    BY ONLY <2>1, <2>2, <2>3, <2>4
<1>3. /\ wire' \in WireType /\ wire'.read = r /\ wire'.opened = o2
      /\ wire'.garbled = wire.garbled
  BY <1>2 DEF Typed, WireType
<1>4. PICK fr : fr = [k \in DOMAIN tasks |-> FramesOf(tasks[k])]
  OBVIOUS
<1>5. PICK g : g = [k \in DOMAIN tasks' |-> FramesOf(tasks'[k])]
  OBVIOUS
<1>6. PICK left \in {0, 1} : left = Left(i)
  BY DEF Left
<1>7. fr[i] = s + left
  BY <1>2, <1>4, <1>6, FramesNow
<1>8. \A k \in DOMAIN tasks' : \/ f[k] = 0 /\ g[k] = left
                               \/ f[k] \in DOMAIN tasks /\ f[k] # i /\ g[k] = fr[f[k]]
  BY <1>1, <1>4, <1>5, <1>6 DEF Going
<1>9. left > 0 => \E k \in DOMAIN tasks' : g[k] = left
  BY <1>1, <1>5, <1>6 DEF Going
<1>10. /\ o <= r /\ \A k \in DOMAIN tasks : fr[k] \in Nat
       /\ \A k, l \in DOMAIN tasks : fr[k] > 0 /\ fr[l] > 0 => k = l
       /\ \A k \in DOMAIN tasks : fr[k] > 0 =>
            o + fr[k] <= r /\ (socket = "open" => o + fr[k] = r)
       /\ socket = "open" /\ (\A k \in DOMAIN tasks : ~(fr[k] > 0)) => o = r
  <2>1. \A k \in DOMAIN tasks : fr[k] \in Nat
    BY <1>4 DEF FramesOf
  <2> QED
    BY <1>2, <1>4, <2>1 DEF StreamInv, Busy
<1>11. socket' = socket /\ closed' = closed
  BY DEF Going, stream
<1>12. o2 <= r
  BY ONLY <1>2, <1>6, <1>7, <1>10, i \in DOMAIN tasks
<1>13. \A k, l \in DOMAIN tasks' : g[k] > 0 /\ g[l] > 0 => k = l
  BY ONLY <1>1, <1>2, <1>6, <1>7, <1>8, <1>10, i \in DOMAIN tasks
<1>14. \A k \in DOMAIN tasks' : g[k] > 0 =>
          o2 + g[k] <= r /\ (socket = "open" => o2 + g[k] = r)
  <2>1. ASSUME NEW k \in DOMAIN tasks', g[k] > 0
        PROVE  o2 + g[k] <= r /\ (socket = "open" => o2 + g[k] = r)
    <3>1. CASE f[k] = 0 /\ g[k] = left
      BY ONLY <1>2, <1>6, <1>7, <1>10, <2>1, <3>1, i \in DOMAIN tasks
    <3>2. CASE f[k] \in DOMAIN tasks /\ f[k] # i /\ g[k] = fr[f[k]]
      <4>1. s = 0
        BY ONLY <1>2, <1>6, <1>7, <1>10, <2>1, <3>2, i \in DOMAIN tasks
      <4> QED
        BY ONLY <1>2, <1>10, <2>1, <3>2, <4>1
    <3> QED
      BY <1>8, <2>1, <3>1, <3>2
  <2> QED
    BY <2>1
<1>15. socket = "open" /\ (\A k \in DOMAIN tasks' : ~(g[k] > 0)) => o2 = r
  <2>1. ASSUME socket = "open", \A k \in DOMAIN tasks' : ~(g[k] > 0)
        PROVE  o2 = r
    <3>1. left = 0
      BY ONLY <1>6, <1>9, <2>1
    <3>2. \A m \in DOMAIN tasks : m # i => ~(fr[m] > 0)
      BY ONLY <1>1, <1>8, <2>1
    <3> QED
      BY ONLY <1>2, <1>7, <1>10, <2>1, <3>1, <3>2, i \in DOMAIN tasks
  <2> QED
    BY <2>1
<1>16. \A k \in DOMAIN tasks' : tasks'[k].at = "delete" => ~tasks'[k].more
  BY <1>1 DEF Going, StreamInv
<1>17. wire'.garbled => aux'.overlapped
  BY <1>3 DEF StreamInv
<1> QED
  BY <1>2, <1>3, <1>5, <1>11, <1>12, <1>13, <1>14, <1>15, <1>16, <1>17
     DEF StreamInv, Busy

(* Nothing is read after the session is closed; the frame whose handler     *)
(* closed it was one that was left.                                         *)
LEMMA StreamShut ==
    ASSUME Typed, StreamInv, NEW i, Shut(i), NEW s \in {0, 1},
           s = 1 => i \in DOMAIN tasks /\ tasks[i].at = "next",
           wire' = [wire EXCEPT !.opened = @ + s]
    PROVE  StreamInv' /\ wire' \in WireType
<1>1. PICK new : Shutting(i, new)
  BY DEF Shut
<1>2. PICK f : /\ \A k \in DOMAIN tasks' :
                     \/ f[k] = 0 /\ tasks'[k] \in new
                     \/ f[k] \in DOMAIN tasks /\ f[k] # i /\ tasks'[k] = tasks[f[k]]
               /\ \A k, l \in DOMAIN tasks' : f[k] = f[l] => k = l
  BY <1>1, Origin DEF Shutting
<1>3. PICK r \in Nat, o \in Nat, o2 \in Nat :
         r = wire.read /\ o = wire.opened /\ o2 = o + s /\ o2 = wire.opened + s
  BY DEF Typed, WireType
<1>4. /\ wire' \in WireType /\ wire'.read = r /\ wire'.opened = o2
      /\ wire'.garbled = wire.garbled
  BY <1>3 DEF Typed, WireType
<1>5. PICK fr : fr = [k \in DOMAIN tasks |-> FramesOf(tasks[k])]
  OBVIOUS
<1>6. PICK g : g = [k \in DOMAIN tasks' |-> FramesOf(tasks'[k])]
  OBVIOUS
<1>7. \A k \in DOMAIN tasks' :
         \/ g[k] = 0
         \/ f[k] \in DOMAIN tasks /\ f[k] # i /\ g[k] = fr[f[k]]
  BY <1>1, <1>2, <1>5, <1>6 DEF Shutting, FramesOf
<1>8. /\ o <= r /\ \A k \in DOMAIN tasks : fr[k] \in Nat
      /\ \A k, l \in DOMAIN tasks : fr[k] > 0 /\ fr[l] > 0 => k = l
      /\ \A k \in DOMAIN tasks : fr[k] > 0 => o + fr[k] <= r
  <2>1. \A k \in DOMAIN tasks : fr[k] \in Nat
    BY <1>5 DEF FramesOf
  <2> QED
    BY <1>3, <1>5, <2>1 DEF StreamInv, Busy
<1>9. s = 1 => i \in DOMAIN tasks /\ fr[i] > 0
  <2>1. tasks[i].at = "next" => FramesOf(tasks[i]) > 0
    BY DEF FramesOf
  <2> QED
    BY <1>5, <2>1
<1>10. o2 <= r
  BY ONLY <1>3, <1>8, <1>9, s \in {0, 1}
<1>11. \A k, l \in DOMAIN tasks' : g[k] > 0 /\ g[l] > 0 => k = l
  BY ONLY <1>2, <1>7, <1>8
<1>12. \A k \in DOMAIN tasks' : g[k] > 0 => o2 + g[k] <= r
  <2>1. ASSUME NEW k \in DOMAIN tasks', g[k] > 0
        PROVE  o2 + g[k] <= r
    <3>1. f[k] \in DOMAIN tasks /\ f[k] # i /\ g[k] = fr[f[k]]
      BY ONLY <1>7, <2>1
    <3>2. s = 0
      BY ONLY <1>8, <1>9, <2>1, <3>1, s \in {0, 1}
    <3> QED
      BY ONLY <1>3, <1>8, <2>1, <3>1, <3>2
  <2> QED
    BY <2>1
<1>13. \A k \in DOMAIN tasks' : tasks'[k].at = "delete" => ~tasks'[k].more
  BY <1>1, <1>2 DEF Shutting, StreamInv
<1>14. wire'.garbled => aux'.overlapped
  <2>1. aux'.overlapped = aux.overlapped
    BY <1>1 DEF Shutting, Typed, AuxType
  <2> QED
    BY <1>4, <2>1 DEF StreamInv
<1>15. socket' = "gone"
  BY <1>1 DEF Shutting
<1> QED
  BY <1>3, <1>4, <1>6, <1>10, <1>11, <1>12, <1>13, <1>14, <1>15 DEF StreamInv, Busy

-----------------------------------------------------------------------------
(* The shares. *)

Entered == UNCHANGED <<shares, recorded, dropped>>

(* A step that carries no share on and takes none up. *)
LEMMA BooksQuiet ==
    ASSUME Typed, BooksInv, NEW i, i \in DOMAIN tasks => ~HasShare(tasks[i]),
           NEW new, Moved(i, new), \A t \in new : ~HasShare(t), Entered,
           closed # "no" => closed' # "no"
    PROVE  BooksInv'
<1>1. PICK f : /\ \A k \in DOMAIN tasks' :
                     \/ f[k] = 0 /\ tasks'[k] \in new
                     \/ f[k] \in DOMAIN tasks /\ f[k] # i /\ tasks'[k] = tasks[f[k]]
               /\ \A k, l \in DOMAIN tasks' : f[k] = f[l] => k = l
               /\ \A m \in DOMAIN tasks : m # i => \E k \in DOMAIN tasks' : f[k] = m
  BY Origin
<1>2. \A k \in DOMAIN tasks' : HasShare(tasks'[k]) =>
         f[k] \in DOMAIN tasks /\ tasks'[k] = tasks[f[k]]
  BY <1>1
<1>3. ASSUME NEW n, Carried(n)
      PROVE  Carried(n)'
  <2>1. PICK m \in DOMAIN tasks : HasShare(tasks[m]) /\ tasks[m].carries = n
    BY <1>3 DEF Carried
  <2>2. PICK k \in DOMAIN tasks' : f[k] = m
    BY <1>1, <2>1
  <2>3. 0 \notin DOMAIN tasks
    BY LenProperties DEF Typed
  <2>4. tasks'[k] = tasks[m]
    BY <1>1, <2>1, <2>2, <2>3
  <2> QED
    BY <2>1, <2>2, <2>4 DEF Carried, HasShare
<1>4. \A k \in DOMAIN tasks' : HasShare(tasks'[k]) =>
         tasks'[k].carries \in DOMAIN shares \ (recorded \cup dropped)
  BY <1>2 DEF BooksInv
<1>5. \A k, l \in DOMAIN tasks' : HasShare(tasks'[k]) /\ HasShare(tasks'[l])
         /\ tasks'[k].carries = tasks'[l].carries => k = l
  BY <1>1, <1>2 DEF BooksInv
<1>6. shares' = shares /\ recorded' = recorded /\ dropped' = dropped
  BY DEF Entered
<1> QED
  BY <1>3, <1>4, <1>5, <1>6 DEF BooksInv, HasShare

(* The handler of a share goes on with it. *)
LEMMA BooksCarry ==
    ASSUME Typed, BooksInv, NEW i \in DOMAIN tasks, HasShare(tasks[i]),
           Carrying(i, tasks[i].carries), Entered
    PROVE  BooksInv'
<1>1. PICK t : Moved(i, {t}) /\ HasShare(t) /\ t.carries = tasks[i].carries /\ closed' = closed
  BY DEF Carrying, Going, stream
<1>2. PICK f : /\ \A k \in DOMAIN tasks' :
                     \/ f[k] = 0 /\ tasks'[k] \in {t}
                     \/ f[k] \in DOMAIN tasks /\ f[k] # i /\ tasks'[k] = tasks[f[k]]
               /\ \A k, l \in DOMAIN tasks' : f[k] = f[l] => k = l
               /\ \A m \in DOMAIN tasks : m # i => \E k \in DOMAIN tasks' : f[k] = m
               /\ \A x \in {t} : \E k \in DOMAIN tasks' : tasks'[k] = x
  BY <1>1, Origin
<1>3. PICK h : h = [k \in DOMAIN tasks' |-> IF f[k] = 0 THEN i ELSE f[k]]
  OBVIOUS
<1>4. 0 \notin DOMAIN tasks
  BY LenProperties DEF Typed
<1>5. \A k \in DOMAIN tasks' : /\ h[k] \in DOMAIN tasks
                               /\ tasks'[k].carries = tasks[h[k]].carries
                               /\ HasShare(tasks'[k]) => HasShare(tasks[h[k]])
  BY <1>1, <1>2, <1>3, <1>4
<1>6. \A k, l \in DOMAIN tasks' : h[k] = h[l] => k = l
  BY ONLY <1>2, <1>3, <1>4
<1>7. ASSUME NEW n, Carried(n)
      PROVE  Carried(n)'
  <2>1. PICK m \in DOMAIN tasks : HasShare(tasks[m]) /\ tasks[m].carries = n
    BY <1>7 DEF Carried
  <2>2. CASE m = i
    BY <1>1, <1>2, <2>1, <2>2 DEF Carried, HasShare
  <2>3. CASE m # i
    <3>1. PICK k \in DOMAIN tasks' : f[k] = m
      BY <1>2, <2>1, <2>3
    <3>2. tasks'[k] = tasks[m]
      BY <1>2, <1>4, <2>1, <3>1
    <3> QED
      BY <2>1, <3>1, <3>2 DEF Carried, HasShare
  <2> QED
    BY <2>2, <2>3
<1>8. shares' = shares /\ recorded' = recorded /\ dropped' = dropped
  BY DEF Entered
<1>9. \A k \in DOMAIN tasks' : HasShare(tasks'[k]) =>
         tasks'[k].carries \in DOMAIN shares \ (recorded \cup dropped)
  BY <1>5 DEF BooksInv
<1>10. \A k, l \in DOMAIN tasks' : HasShare(tasks'[k]) /\ HasShare(tasks'[l])
         /\ tasks'[k].carries = tasks'[l].carries => k = l
  BY <1>5, <1>6 DEF BooksInv
<1> QED
  BY <1>1, <1>7, <1>8, <1>9, <1>10 DEF BooksInv, HasShare

(* A share is accepted, and its handler carries it. *)
LEMMA BooksAccept ==
    ASSUME Typed, BooksInv, NEW i \in DOMAIN tasks, ~HasShare(tasks[i]),
           NEW share \in ShareType, shares' = Append(shares, share),
           Carrying(i, Len(shares) + 1), UNCHANGED <<recorded, dropped>>
    PROVE  BooksInv' /\ shares' \in Seq(ShareType) /\ DOMAIN shares \subseteq DOMAIN shares'
<1>1. PICK t : /\ Moved(i, {t}) /\ HasShare(t) /\ t.carries = Len(shares) + 1
               /\ closed' = closed
  BY DEF Carrying, Going, stream
<1>2. PICK f : /\ \A k \in DOMAIN tasks' :
                     \/ f[k] = 0 /\ tasks'[k] \in {t}
                     \/ f[k] \in DOMAIN tasks /\ f[k] # i /\ tasks'[k] = tasks[f[k]]
               /\ \A k, l \in DOMAIN tasks' : f[k] = f[l] => k = l
               /\ \A m \in DOMAIN tasks : m # i => \E k \in DOMAIN tasks' : f[k] = m
               /\ \A x \in {t} : \E k \in DOMAIN tasks' : tasks'[k] = x
  BY ONLY Typed, <1>1, Origin
<1>3. PICK n \in Nat : n = Len(shares)
  BY LenProperties DEF Typed
<1>4. /\ shares' \in Seq(ShareType) /\ DOMAIN shares = 1..n /\ DOMAIN shares' = 1 .. n + 1
  BY <1>3, AfterAppend DEF Typed
<1>5. recorded' = recorded /\ dropped' = dropped
  OBVIOUS
<1>6. \A k \in DOMAIN tasks' : HasShare(tasks'[k]) =>
         \/ f[k] = 0 /\ tasks'[k].carries = n + 1
         \/ /\ f[k] \in DOMAIN tasks /\ tasks'[k] = tasks[f[k]]
            /\ tasks'[k].carries \in 1..n /\ tasks'[k].carries \notin recorded \cup dropped
  BY <1>1, <1>2, <1>3, <1>4 DEF BooksInv
<1>7. recorded \subseteq 1..n /\ dropped \subseteq 1..n
  BY <1>4 DEF Typed
<1>8. \A k \in DOMAIN tasks' : HasShare(tasks'[k]) =>
         tasks'[k].carries \in DOMAIN shares' \ (recorded \cup dropped)
  BY ONLY <1>3, <1>4, <1>6, <1>7
<1>9. ASSUME NEW k \in DOMAIN tasks', NEW l \in DOMAIN tasks', HasShare(tasks'[k]),
             HasShare(tasks'[l]), tasks'[k].carries = tasks'[l].carries
      PROVE  k = l
  <2>1. CASE f[k] = 0 /\ tasks'[k].carries = n + 1
    <3>1. PICK c : c = tasks'[l].carries
      OBVIOUS
    <3>2. c = n + 1 /\ ~(n + 1 \in 1..n)
      <4>1. c = n + 1
        BY <1>9, <2>1, <3>1
      <4> QED
        BY <1>3, <4>1
    <3>3. f[l] = 0
      BY <1>6, <1>9, <3>1, <3>2
    <3> QED
      BY <1>2, <2>1, <3>3
  <2>2. CASE f[k] \in DOMAIN tasks /\ tasks'[k] = tasks[f[k]] /\ tasks'[k].carries \in 1..n
    <3>1. f[l] \in DOMAIN tasks /\ tasks'[l] = tasks[f[l]]
      BY <1>3, <1>6, <1>9, <2>2
    <3>2. f[k] = f[l]
      BY <1>9, <2>2, <3>1 DEF BooksInv
    <3> QED
      BY <1>2, <3>2
  <2> QED
    BY <1>6, <1>9, <2>1, <2>2
<1>10. ASSUME NEW x, Carried(x)
       PROVE  Carried(x)'
  <2>1. PICK m \in DOMAIN tasks : HasShare(tasks[m]) /\ tasks[m].carries = x
    BY <1>10 DEF Carried
  <2>2. PICK k \in DOMAIN tasks' : f[k] = m
    BY <1>2, <2>1
  <2>3. 0 \notin DOMAIN tasks
    BY LenProperties DEF Typed
  <2>4. tasks'[k] = tasks[m]
    BY <1>2, <2>1, <2>2, <2>3
  <2> QED
    BY <2>1, <2>2, <2>4 DEF Carried, HasShare
<1>11. Carried(n + 1)'
  BY <1>1, <1>2, <1>3 DEF Carried, HasShare
<1>12. \A x \in DOMAIN shares' : x \in recorded \/ x \in dropped \/ Carried(x)'
  <2>1. ASSUME NEW x \in DOMAIN shares'
        PROVE  x \in recorded \/ x \in dropped \/ Carried(x)'
    <3>1. x \in DOMAIN shares \/ x = n + 1
      BY <1>4
    <3> QED
      BY <1>10, <1>11, <3>1 DEF BooksInv
  <2> QED
    BY <2>1
<1>13. dropped # {} => closed # "no"
  BY DEF BooksInv
<1>14. recorded \cap dropped = {}
  BY DEF BooksInv
<1>15. BooksInv'
  BY <1>1, <1>5, <1>8, <1>9, <1>12, <1>13, <1>14 DEF BooksInv, HasShare
<1>16. DOMAIN shares \subseteq DOMAIN shares'
  BY <1>3, <1>4
<1> QED
  BY <1>4, <1>15, <1>16

(* The handler of a share is done with it: it is recorded, or the session    *)
(* has closed.                                                               *)
LEMMA BooksDone ==
    ASSUME Typed, BooksInv, NEW i \in DOMAIN tasks, HasShare(tasks[i]),
           NEW new, Moved(i, new), \A t \in new : ~HasShare(t), UNCHANGED shares,
           \/ recorded' = recorded \cup {tasks[i].carries} /\ UNCHANGED <<dropped, closed>>
           \/ dropped' = dropped \cup {tasks[i].carries} /\ UNCHANGED recorded /\ closed' # "no"
    PROVE  BooksInv' /\ recorded' \subseteq DOMAIN shares' /\ dropped' \subseteq DOMAIN shares'
<1>1. PICK f : /\ \A k \in DOMAIN tasks' :
                     \/ f[k] = 0 /\ tasks'[k] \in new
                     \/ f[k] \in DOMAIN tasks /\ f[k] # i /\ tasks'[k] = tasks[f[k]]
               /\ \A k, l \in DOMAIN tasks' : f[k] = f[l] => k = l
               /\ \A m \in DOMAIN tasks : m # i => \E k \in DOMAIN tasks' : f[k] = m
  BY Origin
<1>2. \A k \in DOMAIN tasks' : HasShare(tasks'[k]) =>
         f[k] \in DOMAIN tasks /\ f[k] # i /\ tasks'[k] = tasks[f[k]]
  BY <1>1
<1>3. PICK c : c = tasks[i].carries
  OBVIOUS
<1>4. c \in DOMAIN shares /\ c \notin recorded /\ c \notin dropped
  BY <1>3 DEF BooksInv
<1>5. recorded' \cup dropped' = (recorded \cup dropped) \cup {c} /\ recorded' \cap dropped' = {}
  <2>1. recorded \cap dropped = {}
    BY DEF BooksInv
  <2> QED
    BY ONLY <1>3, <1>4, <2>1,
       \/ recorded' = recorded \cup {tasks[i].carries} /\ UNCHANGED <<dropped, closed>>
       \/ dropped' = dropped \cup {tasks[i].carries} /\ UNCHANGED recorded /\ closed' # "no"
<1>6. ASSUME NEW x, Carried(x), x # c
      PROVE  Carried(x)'
  <2>1. PICK m \in DOMAIN tasks : HasShare(tasks[m]) /\ tasks[m].carries = x
    BY <1>6 DEF Carried
  <2>2. m # i
    BY <1>3, <1>6, <2>1
  <2>3. PICK k \in DOMAIN tasks' : f[k] = m
    BY <1>1, <2>1, <2>2
  <2>4. 0 \notin DOMAIN tasks
    BY LenProperties DEF Typed
  <2>5. tasks'[k] = tasks[m]
    BY <1>1, <2>1, <2>3, <2>4
  <2> QED
    BY <2>1, <2>3, <2>5 DEF Carried, HasShare
<1>7. \A x \in DOMAIN shares : x \in recorded' \/ x \in dropped' \/ Carried(x)'
  BY <1>5, <1>6 DEF BooksInv
<1>8. \A k \in DOMAIN tasks' : HasShare(tasks'[k]) =>
         tasks'[k].carries \in DOMAIN shares \ (recorded' \cup dropped')
  <2>1. ASSUME NEW k \in DOMAIN tasks', HasShare(tasks'[k])
        PROVE  tasks'[k].carries \in DOMAIN shares \ (recorded' \cup dropped')
    <3>1. f[k] \in DOMAIN tasks /\ f[k] # i /\ tasks'[k] = tasks[f[k]]
      BY <1>2, <2>1
    <3>2. /\ tasks[f[k]].carries \in DOMAIN shares \ (recorded \cup dropped)
          /\ tasks[f[k]].carries # c
      BY <1>3, <2>1, <3>1 DEF BooksInv
    <3> QED
      BY ONLY <1>5, <3>1, <3>2
  <2> QED
    BY <2>1
<1>9. \A k, l \in DOMAIN tasks' : HasShare(tasks'[k]) /\ HasShare(tasks'[l])
         /\ tasks'[k].carries = tasks'[l].carries => k = l
  BY <1>1, <1>2 DEF BooksInv
<1>10. dropped' # {} => closed' # "no"
  BY DEF BooksInv
<1>11. recorded' \subseteq DOMAIN shares /\ dropped' \subseteq DOMAIN shares
  BY ONLY <1>4, <1>5, recorded \subseteq DOMAIN shares, dropped \subseteq DOMAIN shares, Typed
     DEF Typed
<1>12. shares' = shares
  OBVIOUS
<1> QED
  BY <1>5, <1>7, <1>8, <1>9, <1>10, <1>11, <1>12 DEF BooksInv, HasShare

-----------------------------------------------------------------------------
(* The row. *)

Row(t) == t.at \in {"insert", "touch", "delete"}

(* The row and what the history says of it. *)
Rowed == UNCHANGED client /\ aux'.twice = aux.twice /\ aux'.racing = aux.racing

(* What is written of the row by the tasks that are there.                   *)
LEMMA RowMoved ==
    ASSUME Typed, RowInv, NEW i, NEW new, Moved(i, new), \A t \in new : ~Row(t),
           closed' = closed, closed = "no" \/ (i \in DOMAIN tasks /\ tasks[i].at # "delete"),
           Rowed
    PROVE  RowInv'
<1>1. PICK f : /\ \A k \in DOMAIN tasks' :
                     \/ f[k] = 0 /\ tasks'[k] \in new
                     \/ f[k] \in DOMAIN tasks /\ f[k] # i /\ tasks'[k] = tasks[f[k]]
               /\ \A k, l \in DOMAIN tasks' : f[k] = f[l] => k = l
  BY ONLY Typed, Moved(i, new), Origin
<1>2. \A k \in DOMAIN tasks' : Row(tasks'[k]) =>
         f[k] \in DOMAIN tasks /\ tasks'[k] = tasks[f[k]]
  BY <1>1
<1>3. /\ row' = row /\ live' = live /\ rows' = rows
      /\ aux'.twice = aux.twice /\ aux'.racing = aux.racing
  BY DEF Rowed, client
<1>4. ASSUME NEW k \in DOMAIN tasks', tasks'[k].at = "touch"
      PROVE  tasks'[k].carries \in 1..rows
  BY <1>2, <1>4 DEF RowInv, Row
<1>5. ASSUME NEW k \in DOMAIN tasks', NEW l \in DOMAIN tasks',
             tasks'[k].at = "delete" /\ tasks'[l].at = "delete"
      PROVE  k = l
  BY <1>1, <1>2, <1>5 DEF RowInv, Row
<1>6. ASSUME ~aux.twice, NEW k \in DOMAIN tasks', NEW l \in DOMAIN tasks',
             tasks'[k].at = "insert" /\ tasks'[l].at = "insert"
      PROVE  k = l
  BY <1>1, <1>2, <1>6 DEF RowInv, Row
<1>7. ASSUME ~aux.twice, ~aux.racing
      PROVE  closed = "no" /\ \A k \in DOMAIN tasks' : tasks'[k].at # "delete"
  <2>1. closed = "no"
    BY <1>7 DEF RowInv, Deleting
  <2> QED
    BY <1>2, <1>7, <2>1 DEF RowInv, Row
<1>8. ASSUME ~aux.twice, ~aux.racing, NEW k \in DOMAIN tasks'
      PROVE  /\ tasks'[k].at = "insert" => row = 0
             /\ tasks'[k].at \in {"touch", "delete"} => tasks'[k].carries = row /\ row # 0
  BY <1>2, <1>8 DEF RowInv, Row
<1>9. ~aux.twice /\ ~aux.racing => live = IF row = 0 THEN {} ELSE {row}
  BY DEF RowInv
<1> QED
  BY <1>3, <1>4, <1>5, <1>6, <1>7, <1>8, <1>9 DEF RowInv

(* A submission finds no row, and goes to insert one.                        *)
LEMMA RowInserting ==
    ASSUME Typed, RowInv, NEW i \in DOMAIN tasks, tasks[i].at = "next", row = 0, Inserting(i),
           aux'.twice = (aux.twice \/ \E k \in DOMAIN tasks : tasks[k].at = "insert"),
           aux'.racing = aux.racing, UNCHANGED client
    PROVE  RowInv'
<1>1. PICK new : Moved(i, new) /\ (\A t \in new : t.at = "insert") /\ closed' = closed
  BY DEF Inserting, Going, stream
<1>2. PICK f : /\ \A k \in DOMAIN tasks' :
                     \/ f[k] = 0 /\ tasks'[k] \in new
                     \/ f[k] \in DOMAIN tasks /\ f[k] # i /\ tasks'[k] = tasks[f[k]]
               /\ \A k, l \in DOMAIN tasks' : f[k] = f[l] => k = l
  BY ONLY Typed, <1>1, Origin
<1>3. \A k \in DOMAIN tasks' : \/ f[k] = 0 /\ tasks'[k].at = "insert"
                               \/ f[k] \in DOMAIN tasks /\ tasks'[k] = tasks[f[k]]
  BY <1>1, <1>2
<1>4. row' = row /\ live' = live /\ rows' = rows
  BY DEF client
<1>5. ASSUME NEW k \in DOMAIN tasks', tasks'[k].at = "touch"
      PROVE  tasks'[k].carries \in 1..rows
  BY <1>3, <1>5 DEF RowInv
<1>6. ASSUME NEW k \in DOMAIN tasks', NEW l \in DOMAIN tasks',
             tasks'[k].at = "delete" /\ tasks'[l].at = "delete"
      PROVE  k = l
  BY <1>2, <1>3, <1>6 DEF RowInv
<1>7. ASSUME ~aux'.twice
      PROVE  ~aux.twice /\ \A k \in DOMAIN tasks : tasks[k].at # "insert"
  BY <1>7
<1>8. ASSUME ~aux'.twice, NEW k \in DOMAIN tasks', NEW l \in DOMAIN tasks',
             tasks'[k].at = "insert" /\ tasks'[l].at = "insert"
      PROVE  k = l
  BY <1>2, <1>3, <1>7, <1>8
<1>9. ASSUME ~aux'.twice, ~aux.racing
      PROVE  closed = "no" /\ \A k \in DOMAIN tasks' : tasks'[k].at # "delete"
  <2>1. closed = "no"
    BY <1>7, <1>9 DEF RowInv, Deleting
  <2> QED
    BY <1>3, <1>7, <1>9, <2>1 DEF RowInv
<1>10. ASSUME ~aux'.twice, ~aux.racing, NEW k \in DOMAIN tasks'
       PROVE  tasks'[k].at # "touch"
  BY <1>3, <1>7, <1>10 DEF RowInv
<1>11. ~aux'.twice /\ ~aux.racing => live = IF row = 0 THEN {} ELSE {row}
  BY <1>7 DEF RowInv
<1> QED
  BY <1>1, <1>4, <1>5, <1>6, <1>8, <1>9, <1>10, <1>11 DEF RowInv

(* A recorded share's handler goes to write the row it finds.                *)
LEMMA RowTouching ==
    ASSUME Typed, RowInv, NEW i \in DOMAIN tasks, tasks[i].at # "delete", row # 0,
           Touching(i), Rowed
    PROVE  RowInv'
<1>1. PICK new : /\ Moved(i, new) /\ (\A t \in new : t.at = "touch" /\ t.carries = row)
                 /\ closed' = closed
  BY DEF Touching, Going, stream
<1>2. PICK f : /\ \A k \in DOMAIN tasks' :
                     \/ f[k] = 0 /\ tasks'[k] \in new
                     \/ f[k] \in DOMAIN tasks /\ f[k] # i /\ tasks'[k] = tasks[f[k]]
               /\ \A k, l \in DOMAIN tasks' : f[k] = f[l] => k = l
  BY ONLY Typed, <1>1, Origin
<1>3. \A k \in DOMAIN tasks' : \/ tasks'[k].at = "touch" /\ tasks'[k].carries = row
                               \/ f[k] \in DOMAIN tasks /\ tasks'[k] = tasks[f[k]]
  BY <1>1, <1>2
<1>4. /\ row' = row /\ live' = live /\ rows' = rows
      /\ aux'.twice = aux.twice /\ aux'.racing = aux.racing
  BY DEF Rowed, client
<1>5. ASSUME NEW k \in DOMAIN tasks', tasks'[k].at = "touch"
      PROVE  tasks'[k].carries \in 1..rows
  <2>1. row \in 1..rows
    BY DEF Typed
  <2> QED
    BY <1>3, <1>5, <2>1 DEF RowInv
<1>6. ASSUME NEW k \in DOMAIN tasks', NEW l \in DOMAIN tasks',
             tasks'[k].at = "delete" /\ tasks'[l].at = "delete"
      PROVE  k = l
  BY <1>2, <1>3, <1>6 DEF RowInv
<1>7. ASSUME ~aux.twice, NEW k \in DOMAIN tasks', NEW l \in DOMAIN tasks',
             tasks'[k].at = "insert" /\ tasks'[l].at = "insert"
      PROVE  k = l
  BY <1>2, <1>3, <1>7 DEF RowInv
<1>8. ASSUME ~aux.twice, ~aux.racing
      PROVE  closed = "no" /\ \A k \in DOMAIN tasks' : tasks'[k].at # "delete"
  <2>1. closed = "no"
    BY <1>8 DEF RowInv, Deleting
  <2> QED
    BY <1>3, <1>8, <2>1 DEF RowInv
<1>9. ASSUME ~aux.twice, ~aux.racing, NEW k \in DOMAIN tasks'
      PROVE  /\ tasks'[k].at # "insert"
             /\ tasks'[k].at = "touch" => tasks'[k].carries = row
  BY <1>3, <1>9 DEF RowInv
<1>10. ~aux.twice /\ ~aux.racing => live = IF row = 0 THEN {} ELSE {row}
  BY DEF RowInv
<1> QED
  BY <1>1, <1>4, <1>5, <1>6, <1>7, <1>8, <1>9, <1>10 DEF RowInv

(* The row is inserted; there was none, unless two were on their way.        *)
LEMMA RowInserted ==
    ASSUME Typed, RowInv, NEW i \in DOMAIN tasks, tasks[i].at = "insert",
           NEW new, Moved(i, new), \A t \in new : ~Row(t), closed' = closed,
           rows' = rows + 1, row' = rows + 1, live' = live \cup {rows + 1},
           aux'.twice = aux.twice, aux'.racing = aux.racing
    PROVE  RowInv' /\ rows' \in Nat /\ row' \in 0..rows' /\ live' \subseteq 1..rows'
<1>1. PICK f : /\ \A k \in DOMAIN tasks' :
                     \/ f[k] = 0 /\ tasks'[k] \in new
                     \/ f[k] \in DOMAIN tasks /\ f[k] # i /\ tasks'[k] = tasks[f[k]]
               /\ \A k, l \in DOMAIN tasks' : f[k] = f[l] => k = l
  BY ONLY Typed, Moved(i, new), Origin
<1>2. \A k \in DOMAIN tasks' : Row(tasks'[k]) =>
         f[k] \in DOMAIN tasks /\ f[k] # i /\ tasks'[k] = tasks[f[k]]
  BY <1>1
<1>3. PICK n \in Nat : n = rows /\ row \in 0..n /\ live \subseteq 1..n
  BY DEF Typed
<1>4. rows' = n + 1 /\ row' = n + 1 /\ live' = live \cup {n + 1}
  BY <1>3
<1>5. ASSUME NEW k \in DOMAIN tasks', tasks'[k].at = "touch"
      PROVE  tasks'[k].carries \in 1..n + 1
  <2>1. tasks'[k].carries \in 1..n
    BY <1>2, <1>3, <1>5 DEF RowInv, Row
  <2> QED
    BY <1>3, <2>1
<1>6. ASSUME NEW k \in DOMAIN tasks', NEW l \in DOMAIN tasks',
             tasks'[k].at = "delete" /\ tasks'[l].at = "delete"
      PROVE  k = l
  BY <1>1, <1>2, <1>6 DEF RowInv, Row
<1>7. ASSUME ~aux.twice, NEW k \in DOMAIN tasks', tasks'[k].at = "insert"
      PROVE  FALSE
  BY <1>2, <1>7 DEF RowInv, Row
<1>8. ASSUME ~aux.twice, ~aux.racing
      PROVE  /\ closed = "no" /\ row = 0 /\ live = {}
             /\ \A k \in DOMAIN tasks' : ~Row(tasks'[k])
  <2>1. row = 0
    BY <1>8 DEF RowInv
  <2>2. closed = "no"
    BY <1>8 DEF RowInv, Deleting
  <2>3. live = {}
    BY <1>8, <2>1 DEF RowInv
  <2>4. ASSUME NEW k \in DOMAIN tasks', Row(tasks'[k])
        PROVE  FALSE
    <3>1. f[k] \in DOMAIN tasks /\ tasks[f[k]].at \in {"touch", "delete"}
      BY <1>2, <1>7, <1>8, <2>4 DEF Row
    <3> QED
      BY <1>8, <2>1, <3>1 DEF RowInv
  <2> QED
    BY <2>1, <2>2, <2>3, <2>4
<1>9. n + 1 # 0 /\ n + 1 \in 0..n + 1 /\ live \cup {n + 1} \subseteq 1..n + 1
  BY <1>3
<1> QED
  BY <1>4, <1>5, <1>6, <1>7, <1>8, <1>9 DEF RowInv, Row

(* The row a share's handler found is written; it is the session's own.      *)
LEMMA RowTouched ==
    ASSUME Typed, RowInv, NEW i \in DOMAIN tasks, tasks[i].at = "touch",
           NEW new, Moved(i, new), \A t \in new : ~Row(t), closed' = closed,
           live' = live \cup {tasks[i].carries}, UNCHANGED <<row, rows>>,
           aux'.twice = aux.twice, aux'.racing = aux.racing
    PROVE  RowInv' /\ live' \subseteq 1..rows'
<1>1. PICK f : /\ \A k \in DOMAIN tasks' :
                     \/ f[k] = 0 /\ tasks'[k] \in new
                     \/ f[k] \in DOMAIN tasks /\ f[k] # i /\ tasks'[k] = tasks[f[k]]
               /\ \A k, l \in DOMAIN tasks' : f[k] = f[l] => k = l
  BY ONLY Typed, Moved(i, new), Origin
<1>2. \A k \in DOMAIN tasks' : Row(tasks'[k]) =>
         f[k] \in DOMAIN tasks /\ tasks'[k] = tasks[f[k]]
  BY <1>1
<1>3. ASSUME NEW k \in DOMAIN tasks', tasks'[k].at = "touch"
      PROVE  tasks'[k].carries \in 1..rows
  BY <1>2, <1>3 DEF RowInv, Row
<1>4. ASSUME NEW k \in DOMAIN tasks', NEW l \in DOMAIN tasks',
             tasks'[k].at = "delete" /\ tasks'[l].at = "delete"
      PROVE  k = l
  BY <1>1, <1>2, <1>4 DEF RowInv, Row
<1>5. ASSUME ~aux.twice, NEW k \in DOMAIN tasks', NEW l \in DOMAIN tasks',
             tasks'[k].at = "insert" /\ tasks'[l].at = "insert"
      PROVE  k = l
  BY <1>1, <1>2, <1>5 DEF RowInv, Row
<1>6. ASSUME ~aux.twice, ~aux.racing
      PROVE  /\ closed = "no" /\ live' = live /\ \A k \in DOMAIN tasks' : tasks'[k].at # "delete"
  <2>1. closed = "no"
    BY <1>6 DEF RowInv, Deleting
  <2>2. tasks[i].carries = row /\ row # 0
    BY <1>6 DEF RowInv
  <2>3. live' = live
    BY <1>6, <2>2 DEF RowInv
  <2>4. \A k \in DOMAIN tasks' : tasks'[k].at # "delete"
    BY <1>2, <1>6, <2>1 DEF RowInv, Row
  <2> QED
    BY <2>1, <2>3, <2>4
<1>7. ASSUME ~aux.twice, ~aux.racing, NEW k \in DOMAIN tasks'
      PROVE  /\ tasks'[k].at = "insert" => row = 0
             /\ tasks'[k].at \in {"touch", "delete"} => tasks'[k].carries = row /\ row # 0
  BY <1>2, <1>7 DEF RowInv, Row
<1>8. ~aux.twice /\ ~aux.racing => live = IF row = 0 THEN {} ELSE {row}
  BY DEF RowInv
<1>9. live' \subseteq 1..rows
  BY DEF RowInv, Typed
<1> QED
  BY <1>3, <1>4, <1>5, <1>6, <1>7, <1>8, <1>9 DEF RowInv

(* The row is deleted, and there is none. *)
LEMMA RowDeleted ==
    ASSUME Typed, RowInv, NEW i \in DOMAIN tasks, tasks[i].at = "delete",
           Moved(i, {}), closed' = closed,
           live' = live \ {tasks[i].carries}, row' = 0, UNCHANGED rows,
           aux'.twice = aux.twice, aux'.racing = aux.racing
    PROVE  RowInv' /\ live' \subseteq 1..rows' /\ row' \in 0..rows'
<1>1. PICK f : /\ \A k \in DOMAIN tasks' :
                     f[k] \in DOMAIN tasks /\ f[k] # i /\ tasks'[k] = tasks[f[k]]
               /\ \A k, l \in DOMAIN tasks' : f[k] = f[l] => k = l
  BY ONLY Typed, Moved(i, {}), Origin
<1>2. ASSUME NEW k \in DOMAIN tasks'
      PROVE  /\ tasks'[k].at = "touch" => tasks'[k].carries \in 1..rows
             /\ tasks'[k].at # "delete"
  BY <1>1 DEF RowInv
<1>3. ASSUME ~aux.twice, NEW k \in DOMAIN tasks', NEW l \in DOMAIN tasks',
             tasks'[k].at = "insert" /\ tasks'[l].at = "insert"
      PROVE  k = l
  BY <1>1, <1>3 DEF RowInv
<1>4. ASSUME ~aux.twice, ~aux.racing
      PROVE  closed # "no" /\ live' = {} /\ \A k \in DOMAIN tasks' : ~(k \in DOMAIN tasks')
  <2>1. closed # "no"
    BY <1>4 DEF RowInv
  <2>2. tasks[i].carries = row /\ row # 0
    BY <1>4 DEF RowInv
  <2>3. live' = {}
    BY <1>4, <2>2 DEF RowInv
  <2>4. \A k \in DOMAIN tasks' : tasks'[k].at = "delete"
    BY <1>1, <1>4, <2>1 DEF RowInv, Deleting
  <2> QED
    BY <1>2, <2>1, <2>3, <2>4
<1>5. live' \subseteq 1..rows /\ 0 \in 0..rows
  <2>1. rows \in Nat /\ live \subseteq 1..rows
    BY DEF Typed
  <2>2. live' \subseteq live
    OBVIOUS
  <2>3. 0 \in 0..rows
    BY <2>1
  <2> QED
    BY ONLY <2>1, <2>2, <2>3
<1> QED
  BY <1>2, <1>3, <1>4, <1>5 DEF RowInv, Deleting

(* The session closes: its row is there to be deleted, unless something was  *)
(* under way.                                                                *)
LEMMA RowShut ==
    ASSUME Typed, RowInv, NEW i, Shut(i), UNCHANGED client
    PROVE  RowInv'
<1>1. PICK new : Shutting(i, new)
  BY DEF Shut
<1>2. PICK f : /\ \A k \in DOMAIN tasks' :
                     \/ f[k] = 0 /\ tasks'[k] \in new
                     \/ f[k] \in DOMAIN tasks /\ f[k] # i /\ tasks'[k] = tasks[f[k]]
               /\ \A k, l \in DOMAIN tasks' : f[k] = f[l] => k = l
               /\ \A m \in DOMAIN tasks : m # i => \E k \in DOMAIN tasks' : f[k] = m
               /\ \A t \in new : \E k \in DOMAIN tasks' : tasks'[k] = t
  BY <1>1, Origin DEF Shutting
<1>3. PICK b \in BOOLEAN :
         /\ aux' = [aux EXCEPT !.racing = b]
         /\ ~b => ~aux.racing /\ \A k \in DOMAIN tasks : k # i => tasks[k].at = "delete"
  BY <1>1 DEF Shutting
<1>4. aux'.twice = aux.twice /\ aux'.racing = b
  BY <1>3 DEF Typed, AuxType
<1>5. row' = row /\ live' = live /\ rows' = rows
  BY DEF client
<1>6. \A t \in new : t.at = "delete" /\ t.carries = row /\ row # 0
  BY <1>1 DEF Shutting
<1>7. ASSUME NEW k \in DOMAIN tasks', tasks'[k].at = "touch"
      PROVE  tasks'[k].carries \in 1..rows
  BY <1>2, <1>6, <1>7 DEF RowInv
<1>8. ASSUME NEW k \in DOMAIN tasks', NEW l \in DOMAIN tasks',
             tasks'[k].at = "delete" /\ tasks'[l].at = "delete"
      PROVE  k = l
  <2>1. CASE new = {}
    BY <1>2, <1>8, <2>1 DEF RowInv
  <2>2. CASE new # {}
    <3>1. f[k] = 0 /\ f[l] = 0
      BY <1>1, <1>2, <1>8, <2>2 DEF Shutting
    <3> QED
      BY <1>2, <3>1
  <2> QED
    BY <2>1, <2>2
<1>9. ASSUME ~aux.twice, NEW k \in DOMAIN tasks', NEW l \in DOMAIN tasks',
             tasks'[k].at = "insert" /\ tasks'[l].at = "insert"
      PROVE  k = l
  BY <1>2, <1>6, <1>9 DEF RowInv
<1>10. ASSUME ~b, NEW k \in DOMAIN tasks'
       PROVE  tasks'[k].at = "delete"
  BY <1>2, <1>3, <1>6, <1>10
<1>11. ASSUME ~aux.twice, ~b, NEW k \in DOMAIN tasks'
       PROVE  tasks'[k].carries = row /\ row # 0
  BY <1>2, <1>3, <1>6, <1>10, <1>11 DEF RowInv
<1>12. ASSUME row # 0
       PROVE  tasks' # << >>
  <2>1. \E k \in DOMAIN tasks' : TRUE
    BY <1>1, <1>2, <1>12 DEF Shutting
  <2>2. DOMAIN << >> = {}
    OBVIOUS
  <2> QED
    BY <2>1, <2>2
<1>13. ~aux.twice /\ ~b => live = IF row = 0 THEN {} ELSE {row}
  BY <1>3 DEF RowInv
<1>14. closed' # "no"
  BY <1>1 DEF Shutting
<1> QED
  BY <1>4, <1>5, <1>7, <1>8, <1>9, <1>10, <1>11, <1>12, <1>13, <1>14 DEF RowInv, Deleting

-----------------------------------------------------------------------------
(* The work. *)

(* The caches d are the caches c and maybe more, the same of them asked      *)
(* about and judged, and no verdict on a new one.                            *)
MoreWork(c, d) ==
    /\ d \in Seq(CacheType) /\ DOMAIN c \subseteq DOMAIN d
    /\ \A k \in DOMAIN c : d[k].job = c[k].job /\ d[k].verdict = c[k].verdict
    /\ \A k \in DOMAIN d : k \notin DOMAIN c => d[k].verdict = 0

LEMMA CacheIs ==
    ASSUME NEW cs \in Seq(CacheType), NEW k \in DOMAIN cs
    PROVE  /\ cs[k] \in CacheType /\ cs[k].job \in JobIds /\ cs[k].verdict \in Nat
           /\ cs[k].ctx \in 0..MaxTemplates
           /\ k \in Nat /\ k # 0 /\ \A v \in Nat : v # 0 /\ v < k => v \in DOMAIN cs
<1>1. PICK c \in CacheType : c = cs[k]
  BY ElementOfSeq
<1>2. /\ c.job \in JobIds /\ c.verdict \in Nat /\ c.ctx \in 0..MaxTemplates
  BY ONLY c \in CacheType DEF CacheType
<1>3. PICK n \in Nat : n = Len(cs) /\ DOMAIN cs = 1..n
  BY LenProperties
<1>4. k \in Nat /\ k # 0 /\ \A v \in Nat : v # 0 /\ v < k => v \in 1..n
  BY <1>3
<1> QED
  BY ONLY <1>1, <1>2, <1>3, <1>4

(* No verdict is given, and a job id's cache is only replaced by a later one. *)
LEMMA WorkMore ==
    ASSUME Typed, WorkInv, MoreWork(caches, caches'),
           jobs' \in [JobIds -> Nat], \A j \in JobIds : jobs[j] <= jobs'[j],
           \A j \in JobIds : jobs'[j] # jobs[j] =>
              jobs'[j] \in DOMAIN caches' /\ caches'[jobs'[j]].job = j,
           \A request \in asked' : request \in asked \/
              (request[1] \in Kinds /\ request[2] \in DOMAIN caches' /\ request[2] = jobs'[caches'[request[2]].job]),
           NEW i, NEW new, Moved(i, new),
           \A t \in new : t.at = "asking" => t.carries \in DOMAIN caches'
    PROVE  WorkInv'
<1>1. ASSUME NEW j \in JobIds, jobs'[j] # 0
      PROVE  jobs'[j] \in DOMAIN caches' /\ caches'[jobs'[j]].job = j
  BY <1>1 DEF WorkInv, MoreWork
<1>2. ASSUME NEW request \in asked'
      PROVE  /\ request[1] \in Kinds /\ request[2] \in DOMAIN caches'
             /\ request[2] <= jobs'[caches'[request[2]].job]
  <2>1. CASE request \in asked
    <3>1. PICK m \in DOMAIN caches, j \in JobIds :
             m = request[2] /\ j = caches[m].job /\ m <= jobs[j]
      <4>1. request[2] \in DOMAIN caches /\ request[2] <= jobs[caches[request[2]].job]
        BY <2>1 DEF WorkInv
      <4>2. caches[request[2]].job \in JobIds
        BY <4>1, CacheIs DEF Typed
      <4> QED
        BY <4>1, <4>2
    <3>2. m \in DOMAIN caches' /\ caches'[m].job = j
      BY <3>1 DEF MoreWork
    <3>3. m \in Nat /\ jobs[j] \in Nat /\ jobs'[j] \in Nat /\ jobs[j] <= jobs'[j]
      BY LenProperties DEF Typed
    <3>4. m <= jobs'[j]
      BY ONLY <3>1, <3>3
    <3>5. request[1] \in Kinds
      BY <2>1 DEF WorkInv
    <3> QED
      BY <3>1, <3>2, <3>4, <3>5
  <2>2. CASE request[1] \in Kinds /\ request[2] \in DOMAIN caches' /\ request[2] = jobs'[caches'[request[2]].job]
    <3>1. request[2] \in Nat
      BY <2>2, LenProperties DEF MoreWork
    <3> QED
      BY <2>2, <3>1
  <2> QED
    BY <2>1, <2>2
<1>3. ASSUME NEW k \in DOMAIN tasks', tasks'[k].at = "asking"
      PROVE  tasks'[k].carries \in DOMAIN caches'
  <2>1. PICK f : \A m \in DOMAIN tasks' :
                     \/ f[m] = 0 /\ tasks'[m] \in new
                     \/ f[m] \in DOMAIN tasks /\ f[m] # i /\ tasks'[m] = tasks[f[m]]
    BY ONLY Typed, Moved(i, new), Origin
  <2> QED
    BY <1>3, <2>1 DEF WorkInv, MoreWork
<1>4. ASSUME NEW k \in DOMAIN caches', caches'[k].verdict \notin {0, k}
      PROVE  /\ caches'[caches'[k].verdict].job = caches'[k].job
             /\ caches'[k].verdict < k
  <2>1. k \in DOMAIN caches /\ caches'[k].verdict = caches[k].verdict
    BY <1>4 DEF MoreWork
  <2>2. PICK v \in Nat : v = caches[k].verdict
    BY <2>1, CacheIs DEF Typed
  <2>3. v # 0 /\ v < k /\ caches[v].job = caches[k].job
    BY <1>4, <2>1, <2>2 DEF WorkInv, VerdictIsItsOwn
  <2>4. v \in DOMAIN caches
    BY <2>1, <2>2, <2>3, CacheIs DEF Typed
  <2> QED
    BY <2>1, <2>2, <2>3, <2>4 DEF MoreWork
<1> QED
  BY <1>1, <1>2, <1>3, <1>4 DEF WorkInv, VerdictIsItsOwn

(* A step of no work. *)
LEMMA WorkSame ==
    ASSUME Typed, WorkInv, UNCHANGED work, NEW i, NEW new, Moved(i, new),
           \A t \in new : t.at # "asking"
    PROVE  WorkInv'
<1>1. caches' = caches /\ jobs' = jobs /\ asked' = asked
  BY DEF work
<1>2. MoreWork(caches, caches')
  BY <1>1 DEF MoreWork, Typed
<1>3. jobs' \in [JobIds -> Nat] /\ \A j \in JobIds : jobs[j] <= jobs'[j]
  BY <1>1 DEF Typed
<1> QED
  BY ONLY Typed, WorkInv, <1>1, <1>2, <1>3, WorkMore, Moved(i, new),
          \A t \in new : t.at # "asking"

(* The gateway's answer about job m of the session is applied to the cache   *)
(* its job id has now.                                                       *)
LEMMA AnsweredIs ==
    ASSUME Typed, WorkInv, NEW request \in asked
    PROVE  \E m \in DOMAIN caches, n \in DOMAIN caches :
              /\ m = request[2] /\ n = Answered(caches[m].job) /\ m <= n
              /\ caches[n].job = caches[m].job /\ m # 0 /\ n # 0
<1>1. PICK m \in DOMAIN caches : m = request[2] /\ m <= jobs[caches[m].job]
  BY DEF WorkInv
<1>2. PICK j \in JobIds : j = caches[m].job
  BY CacheIs DEF Typed
<1>3. m \in Nat /\ m # 0
  BY LenProperties DEF Typed
<1>4. PICK n \in Nat : n = jobs[j]
  BY DEF Typed
<1>5. n # 0 /\ m <= n
  BY <1>1, <1>2, <1>3, <1>4
<1>6. n \in DOMAIN caches /\ caches[n].job = j
  BY <1>4, <1>5 DEF WorkInv
<1> QED
  BY <1>1, <1>2, <1>3, <1>4, <1>5, <1>6 DEF Answered

LEMMA WorkAnswered ==
    ASSUME Typed, WorkInv, NEW m \in DOMAIN caches, NEW n \in DOMAIN caches, m <= n,
           caches[n].job = caches[m].job,
           NEW state \in States,
           \/ caches' = WithAnswer(caches, n, state, m)
           \/ caches' = Marked(caches, n, state),
           UNCHANGED jobs, n = jobs[caches[m].job],
           \A request \in asked' : request \in asked \/ (request[1] \in Kinds /\ request[2] = n),
           NEW i, NEW new, Moved(i, new), \A t \in new : t.at # "asking"
    PROVE  /\ WorkInv' /\ caches' \in Seq(CacheType) /\ DOMAIN caches' = DOMAIN caches
           /\ \A k \in DOMAIN caches : caches'[k].ctx = caches[k].ctx
<1>1. PICK d : d = caches'
  OBVIOUS
<1>2. /\ m \in Nat /\ m # 0 /\ n \in Nat /\ n # 0 /\ caches \in Seq(CacheType)
      /\ \A k \in DOMAIN caches : caches[k] \in CacheType /\ k \in Nat
  BY LenProperties, ElementOfSeq DEF Typed
<1>3. /\ d \in Seq(CacheType) /\ DOMAIN d = DOMAIN caches
      /\ d[n].job = caches[n].job /\ d[n].ctx = caches[n].ctx
      /\ d[n].verdict \in {m, caches[n].verdict}
      /\ \A k \in DOMAIN caches : k # n => d[k] = caches[k]
  <2>1. CASE d = WithAnswer(caches, n, state, m)
    <3>1. PICK e : /\ e = WithAnswer(caches, n, state, m)
                   /\ e \in Seq(CacheType) /\ DOMAIN e = DOMAIN caches
                   /\ e[n].job = caches[n].job /\ e[n].ctx = caches[n].ctx /\ e[n].verdict = m
                   /\ \A k \in DOMAIN caches : k # n => e[k] = caches[k]
      <4>1. PICK cs \in Seq(CacheType), v \in Nat : cs = caches /\ v = m
        BY <1>2
      <4>2. n \in DOMAIN cs
        BY <4>1
      <4>3. PICK e : /\ e = WithAnswer(cs, n, state, v)
                     /\ e \in Seq(CacheType) /\ DOMAIN e = DOMAIN cs
                     /\ e[n].job = cs[n].job /\ e[n].ctx = cs[n].ctx /\ e[n].verdict = v
                     /\ \A k \in DOMAIN cs : k # n => e[k] = cs[k]
        BY ONLY cs \in Seq(CacheType), v \in Nat, <4>2,
              state \in States, WithVerdict
      <4> QED
        BY ONLY <4>1, <4>3
    <3> QED
      BY ONLY <2>1, <3>1
  <2>2. CASE d = Marked(caches, n, state)
    BY <1>2, <2>2, WithState DEF SameWork
  <2> QED
    BY <1>1, <2>1, <2>2
<1>4. \A k \in DOMAIN caches : d[k].job = caches[k].job /\ d[k].ctx = caches[k].ctx
  BY <1>3
<1>5. ASSUME NEW j \in JobIds, jobs[j] # 0
      PROVE  jobs[j] \in DOMAIN d /\ d[jobs[j]].job = j
  BY <1>3, <1>4, <1>5 DEF WorkInv
<1>6. ASSUME NEW request \in asked'
      PROVE  request[1] \in Kinds /\ request[2] \in DOMAIN d /\ request[2] <= jobs[d[request[2]].job]
  <2>1. CASE request \in asked
    BY <1>3, <1>4, <2>1 DEF WorkInv
  <2>2. CASE request[1] \in Kinds /\ request[2] = n
    BY <1>2, <1>3, <1>4, <2>2
  <2> QED
    BY <2>1, <2>2
<1>7. ASSUME NEW k \in DOMAIN tasks', tasks'[k].at = "asking"
      PROVE  tasks'[k].carries \in DOMAIN d
  <2>1. PICK f : \A l \in DOMAIN tasks' :
                     \/ f[l] = 0 /\ tasks'[l] \in new
                     \/ f[l] \in DOMAIN tasks /\ f[l] # i /\ tasks'[l] = tasks[f[l]]
    BY ONLY Typed, Moved(i, new), Origin
  <2> QED
    BY <1>3, <1>7, <2>1 DEF WorkInv
<1>8. ASSUME NEW k \in DOMAIN d, d[k].verdict \notin {0, k}
      PROVE  d[d[k].verdict].job = d[k].job /\ d[k].verdict < k
  <2>1. CASE k = n /\ d[n].verdict = m
    BY <1>2, <1>3, <1>4, <1>8, <2>1
  <2>2. CASE d[k].verdict = caches[k].verdict
    <3>1. PICK v \in Nat : v = caches[k].verdict
      BY <1>2, <1>3 DEF CacheType
    <3>2. v # 0 /\ v < k /\ caches[v].job = caches[k].job
      BY <1>3, <1>8, <2>2, <3>1 DEF WorkInv, VerdictIsItsOwn
    <3>3. v \in DOMAIN caches
      BY <1>3, <3>1, <3>2, CacheIs DEF Typed
    <3> QED
      BY <1>3, <1>4, <2>2, <3>1, <3>2, <3>3
  <2> QED
    BY <1>3, <2>1, <2>2
<1> QED
  BY <1>1, <1>3, <1>4, <1>5, <1>6, <1>7, <1>8 DEF WorkInv, VerdictIsItsOwn

-----------------------------------------------------------------------------
(* The payouts. *)

(* The caches keep their contexts, or are noted not to. *)
Kept(c, d) ==
    /\ DOMAIN c \subseteq DOMAIN d /\ aux.mixed \subseteq aux'.mixed
    /\ \A k \in DOMAIN c : d[k].ctx = c[k].ctx \/ k \in aux'.mixed

LEMMA SharesPay ==
    ASSUME Typed, PayInv, Kept(caches, caches'), UNCHANGED mode, NEW n \in DOMAIN shares
    PROVE  /\ shares[n].n \in DOMAIN caches'
           /\ mode' = "pplns" =>
                \/ caches'[shares[n].n].ctx \in {0, shares[n].pays}
                \/ shares[n].n \in aux'.mixed
<1>1. PICK s : s = shares[n]
  OBVIOUS
<1>2. /\ s.n \in DOMAIN caches
      /\ mode = "pplns" => caches[s.n].ctx \in {0, s.pays} \/ s.n \in aux.mixed
  BY <1>1 DEF PayInv, PaysOwn
<1>3. \/ caches'[s.n].ctx = caches[s.n].ctx
      \/ s.n \in aux'.mixed
  BY <1>2 DEF Kept
<1> QED
  BY <1>1, <1>2, <1>3 DEF Kept

LEMMA BlocksPay ==
    ASSUME Typed, PayInv, aux.mixed \subseteq aux'.mixed, UNCHANGED mode, NEW f \in finalized,
           NEW s \in Seq(ShareType), DOMAIN shares \subseteq DOMAIN s,
           \A n \in DOMAIN shares : s[n] = shares[n]
    PROVE  /\ mode' = "pplns" /\ f.share \in DOMAIN s
           /\ \/ f.snapshot \in {0, s[f.share].pays}
              \/ s[f.share].n \in aux'.mixed
<1>1. /\ mode = "pplns" /\ f.share \in DOMAIN shares
      /\ \/ f.snapshot \in {0, shares[f.share].pays}
         \/ shares[f.share].n \in aux.mixed
  BY DEF PayInv, PaysOwn
<1> QED
  BY <1>1

(* A step that hands no outputs out, accepts no share and finalizes nothing. *)
LEMMA PayKept ==
    ASSUME Typed, PayInv, Kept(caches, caches'),
           UNCHANGED <<mode, contexts, nextId, shares, finalized>>,
           aux'.issued = aux.issued, aux'.refused = aux.refused
    PROVE  PayInv'
<1>1. \A d : SlotOf(d)' = SlotOf(d)
  BY DEF SlotOf
<1>2. contexts' = contexts /\ shares' = shares /\ finalized' = finalized
  OBVIOUS
<1>3. \A d \in 1..MaxIds : d <= Len(aux'.issued) =>
         contexts'[SlotOf(d)'] = aux'.issued[Len(aux'.issued) - d + 1]
  BY <1>1, <1>2 DEF PayInv
<1>4. ASSUME NEW n \in DOMAIN shares
      PROVE  /\ shares[n].n \in DOMAIN caches'
             /\ mode' = "pplns" =>
                  \/ caches'[shares[n].n].ctx \in {0, shares[n].pays}
                  \/ shares[n].n \in aux'.mixed
  BY SharesPay
<1>5. ASSUME NEW f \in finalized
      PROVE  /\ mode' = "pplns" /\ f.share \in DOMAIN shares
             /\ \/ f.snapshot \in {0, shares[f.share].pays}
                \/ shares[f.share].n \in aux'.mixed
  <2>1. shares \in Seq(ShareType) /\ aux.mixed \subseteq aux'.mixed
    BY DEF Typed, Kept
  <2> QED
    BY <2>1, BlocksPay
<1>6. aux'.refused = {}
  BY DEF PayInv
<1> QED
  BY <1>2, <1>3, <1>4, <1>5, <1>6 DEF PayInv, PaysOwn

(* A share is accepted whose coinbase pays what its cache is given.          *)
LEMMA PayAccepted ==
    ASSUME Typed, PayInv, Kept(caches, caches'),
           UNCHANGED <<mode, contexts, nextId, finalized>>,
           aux'.issued = aux.issued, aux'.refused = aux.refused,
           NEW share \in ShareType, shares' = Append(shares, share),
           share.n \in DOMAIN caches',
           mode = "pplns" => caches'[share.n].ctx \in {0, share.pays}
    PROVE  PayInv'
<1>1. \A d : SlotOf(d)' = SlotOf(d)
  BY DEF SlotOf
<1>2. contexts' = contexts /\ finalized' = finalized
  OBVIOUS
<1>3. \A d \in 1..MaxIds : d <= Len(aux'.issued) =>
         contexts'[SlotOf(d)'] = aux'.issued[Len(aux'.issued) - d + 1]
  BY <1>1, <1>2 DEF PayInv
<1>4. /\ shares' \in Seq(ShareType) /\ DOMAIN shares \subseteq DOMAIN shares'
      /\ \A n \in DOMAIN shares : shares'[n] = shares[n]
      /\ \A n \in DOMAIN shares' : n \in DOMAIN shares \/ shares'[n] = share
  <2>1. PICK n \in Nat : n = Len(shares)
    BY LenProperties DEF Typed
  <2>2. /\ shares' \in Seq(ShareType) /\ DOMAIN shares = 1..n /\ DOMAIN shares' = 1 .. n + 1
        /\ \A k \in DOMAIN shares : shares'[k] = shares[k]
        /\ shares'[n + 1] = share
    BY <2>1, AfterAppend DEF Typed
  <2>3. 1..n \subseteq 1 .. n + 1 /\ \A k \in 1 .. n + 1 : k \in 1..n \/ k = n + 1
    BY <2>1
  <2> QED
    BY ONLY <2>2, <2>3
<1>5. ASSUME NEW n \in DOMAIN shares'
      PROVE  /\ shares'[n].n \in DOMAIN caches'
             /\ mode' = "pplns" =>
                  \/ caches'[shares'[n].n].ctx \in {0, shares'[n].pays}
                  \/ shares'[n].n \in aux'.mixed
  <2>1. CASE n \in DOMAIN shares
    BY <1>4, <2>1, SharesPay
  <2>2. CASE shares'[n] = share
    BY <2>2
  <2> QED
    BY <1>4, <2>1, <2>2
<1>6. ASSUME NEW f \in finalized
      PROVE  /\ mode' = "pplns" /\ f.share \in DOMAIN shares'
             /\ \/ f.snapshot \in {0, shares'[f.share].pays}
                \/ shares'[f.share].n \in aux'.mixed
  <2>1. PICK s \in Seq(ShareType) : s = shares'
    BY <1>4
  <2>2. aux.mixed \subseteq aux'.mixed
    BY DEF Kept
  <2> QED
    BY <1>4, <2>1, <2>2, BlocksPay
<1>7. aux'.refused = {}
  BY DEF PayInv
<1> QED
  BY <1>2, <1>3, <1>5, <1>6, <1>7 DEF PayInv, PaysOwn

(* The block of a share is saved, and the snapshot of its cache finalized.   *)
LEMMA PaySaved ==
    ASSUME Typed, PayInv, UNCHANGED <<mode, contexts, nextId, shares, caches>>, aux' = aux,
           mode = "pplns", NEW n \in DOMAIN shares,
           finalized' = finalized \cup {[share |-> n, snapshot |-> caches[shares[n].n].ctx]}
    PROVE  PayInv'
<1>1. \A d : SlotOf(d)' = SlotOf(d)
  BY DEF SlotOf
<1>2. contexts' = contexts /\ shares' = shares /\ caches' = caches
  OBVIOUS
<1>3. \A d \in 1..MaxIds : d <= Len(aux'.issued) =>
         contexts'[SlotOf(d)'] = aux'.issued[Len(aux'.issued) - d + 1]
  BY <1>1, <1>2 DEF PayInv
<1>4. ASSUME NEW f \in finalized'
      PROVE  /\ mode' = "pplns" /\ f.share \in DOMAIN shares
             /\ \/ f.snapshot \in {0, shares[f.share].pays}
                \/ shares[f.share].n \in aux.mixed
  <2>1. CASE f \in finalized
    BY <2>1 DEF PayInv, PaysOwn
  <2>2. CASE f = [share |-> n, snapshot |-> caches[shares[n].n].ctx]
    <3>1. f.share = n /\ f.snapshot = caches[shares[n].n].ctx
      BY <2>2
    <3> QED
      BY <3>1 DEF PayInv, PaysOwn
  <2> QED
    BY <2>1, <2>2
<1>5. ASSUME NEW k \in DOMAIN shares
      PROVE  /\ shares[k].n \in DOMAIN caches
             /\ mode' = "pplns" =>
                  \/ caches[shares[k].n].ctx \in {0, shares[k].pays}
                  \/ shares[k].n \in aux.mixed
  BY DEF PayInv, PaysOwn
<1> QED
  BY <1>2, <1>3, <1>4, <1>5 DEF PayInv, PaysOwn

(* Outputs are handed out, and stay in their id's place until all the others *)
(* have been given out again.                                                *)
LEMMA SlotIs ==
    ASSUME Typed, NEW d \in 1..MaxIds
    PROVE  /\ SlotOf(d) \in 1..MaxIds /\ (d < MaxIds => SlotOf(d) # nextId)
           /\ nextId' = NextId(nextId) =>
                SlotOf(1)' = nextId /\ (d # 1 => d - 1 \in 1..MaxIds /\ SlotOf(d)' = SlotOf(d - 1))
<1>1. MaxIds \in Nat /\ nextId \in 1..MaxIds
  BY DatumSessionAssumption DEF Typed
<1> QED
  BY <1>1 DEF SlotOf, NextId

LEMMA PayFetched ==
    ASSUME Typed, PayInv, UNCHANGED <<mode, shares, finalized, caches>>,
           contexts' = [contexts EXCEPT ![nextId] = Latest], nextId' = NextId(nextId),
           aux' = [aux EXCEPT !.issued = Append(@, Latest)]
    PROVE  PayInv' /\ aux' \in AuxType
<1>1. PICK l \in Nat \ {0} : l = Latest
  BY DEF Typed
<1>2. PICK q \in Seq(Nat \ {0}) : q = aux.issued
  BY DEF Typed, AuxType
<1>3. PICK r : r = Append(q, l)
  OBVIOUS
<1>4. PICK n \in Nat : /\ n = Len(q) /\ Len(r) = n + 1 /\ DOMAIN q = 1..n
                       /\ r[n + 1] = l /\ (\A k \in 1..n : r[k] = q[k])
                       /\ r \in Seq(Nat \ {0})
  BY <1>3, AfterAppend
<1>5. aux' = [aux EXCEPT !.issued = r]
  BY <1>1, <1>2, <1>3
<1>6. /\ aux' \in AuxType /\ aux'.issued = r /\ aux'.refused = aux.refused
      /\ aux'.mixed = aux.mixed
  BY <1>4, <1>5 DEF Typed, AuxType
<1>7. /\ nextId \in 1..MaxIds /\ MaxIds \in Nat /\ 1 \in 1..MaxIds
      /\ contexts' = [contexts EXCEPT ![nextId] = l] /\ DOMAIN contexts = 1..MaxIds
  BY <1>1, DatumSessionAssumption DEF Typed
<1>8. ASSUME NEW d \in 1..MaxIds, d <= n + 1
      PROVE  contexts'[SlotOf(d)'] = r[n + 1 - d + 1]
  <2>1. CASE d = 1
    <3>1. SlotOf(d)' = nextId
      BY <1>7, <2>1, SlotIs
    <3>2. n + 1 - d + 1 = n + 1
      BY <2>1
    <3> QED
      BY <1>4, <1>7, <3>1, <3>2
  <2>2. CASE d # 1
    <3>0. d - 1 \in 1..MaxIds /\ d - 1 < MaxIds /\ d - 1 <= n
      BY ONLY n \in Nat, d \in 1..MaxIds, <1>7, <1>8, <2>2
    <3>1. PICK e \in 1..MaxIds : e = d - 1 /\ e < MaxIds /\ e <= n
      BY ONLY <3>0
    <3>2. PICK slot \in 1..MaxIds : /\ slot = SlotOf(d)' /\ slot = SlotOf(e) /\ slot # nextId
      BY <1>7, <2>2, <3>1, SlotIs
    <3>3. contexts'[slot] = contexts[slot]
      BY <1>7, <3>2
    <3>4. contexts[slot] = q[n - e + 1]
      BY <1>2, <1>4, <3>1, <3>2 DEF PayInv
    <3>5. n - e + 1 \in 1..n /\ n + 1 - d + 1 = n - e + 1
      BY ONLY n \in Nat, d \in 1..MaxIds, e \in 1..MaxIds, <1>7, <3>1
    <3>6. r[n + 1 - d + 1] = q[n - e + 1]
      BY ONLY <1>4, <3>5
    <3> QED
      BY <3>2, <3>3, <3>4, <3>6
  <2> QED
    BY <2>1, <2>2
<1>9. \A d \in 1..MaxIds : d <= Len(aux'.issued) =>
         contexts'[SlotOf(d)'] = aux'.issued[Len(aux'.issued) - d + 1]
  <2>1. Len(aux'.issued) = n + 1
    BY ONLY <1>4, <1>6
  <2> QED
    BY ONLY <1>6, <1>8, <2>1
<1>10. aux'.refused = {}
  BY <1>6 DEF PayInv
<1>11. shares' = shares /\ finalized' = finalized /\ caches' = caches /\ mode' = mode
  OBVIOUS
<1>12. (\A n_1 \in DOMAIN shares :
          /\ shares[n_1].n \in DOMAIN caches
          /\ mode = "pplns" => \/ caches[shares[n_1].n].ctx \in {0, shares[n_1].pays}
                               \/ shares[n_1].n \in aux.mixed)
       /\ \A f \in finalized :
          /\ mode = "pplns" /\ f.share \in DOMAIN shares
          /\ f.snapshot \in {0, shares[f.share].pays} \/ shares[f.share].n \in aux.mixed
  BY DEF PayInv, PaysOwn
<1> QED
  BY <1>6, <1>9, <1>10, <1>11, <1>12 DEF PayInv, PaysOwn

(* What was handed out lately is a context that can be paid. *)
LEMMA IssuedIsPaid ==
    ASSUME Typed, PayInv, NEW cache, NEW pays \in Issued(heights[cache.base])
    PROVE  pays \in PaidContext(cache, pays)
<1>1. PICK q \in Seq(Nat \ {0}) : q = aux.issued
  BY DEF Typed, AuxType
<1>2. PICK n \in Nat : n = Len(q) /\ DOMAIN q = 1..n
  BY LenProperties
<1>3. PICK k \in 1..n : /\ pays = q[k] /\ k > n - MaxIds
                        /\ heights[q[k]] = heights[cache.base]
  BY <1>1, <1>2 DEF Issued
<1>4. MaxIds \in Nat
  BY DatumSessionAssumption
<1>5. PICK d \in 1..MaxIds : d = n - k + 1 /\ d <= n /\ n - d + 1 = k
  <2>1. n - k + 1 \in 1..MaxIds /\ n - k + 1 <= n /\ n - (n - k + 1) + 1 = k
    BY ONLY n \in Nat, k \in 1..n, <1>3, <1>4
  <2> QED
    BY <2>1
<1>6. contexts[SlotOf(d)] = q[k]
  BY <1>1, <1>2, <1>5 DEF PayInv
<1>7. SlotOf(d) \in DOMAIN contexts
  BY <1>5, SlotIs DEF Typed
<1>8. pays \in Range(contexts) \ {0}
  <2>1. q[k] \in Nat \ {0}
    BY <1>2, <1>3, ElementOfSeq
  <2> QED
    BY <1>3, <1>6, <1>7, <2>1 DEF Range
<1> QED
  BY <1>3, <1>8 DEF PaidContext, PaysAs

-----------------------------------------------------------------------------
(* Submissions. *)

AuxKept == AuxSame(aux, aux') /\ aux'.refused = aux.refused

Rejects(i) == Quiet(i) /\ UNCHANGED books

Accepts(i, n) ==
    \E share \in ShareType :
        /\ share.n = n /\ shares' = Append(shares, share) /\ Carrying(i, Len(shares) + 1)
        /\ UNCHANGED <<recorded, dropped, finalized>>
        /\ n \in DOMAIN caches'
        /\ mode = "pplns" => caches'[n].ctx \in {0, share.pays}

(* The contexts that a coinbase's outputs are those of. *)
CtxsOf(c, pays) == IF PaysAs(pays, Expected(c)) THEN {c.ctx} ELSE PaidContext(c, pays)

LEMMA CtxsAre ==
    ASSUME Typed, NEW c \in CacheType, NEW pays \in 0..Latest, NEW ctx \in CtxsOf(c, pays)
    PROVE  ctx \in 0..MaxTemplates /\ (mode = "pplns" => ctx \in {0, pays})
<1>1. c.ctx \in 0..MaxTemplates
  BY ONLY c \in CacheType DEF CacheType
<1>2. \A t \in Range(contexts) : t \in 0..MaxTemplates
  <2>1. ASSUME NEW t \in 0..Latest
        PROVE  t \in 0..MaxTemplates
    <3>1. Latest \in 1..MaxTemplates
      BY DEF Typed
    <3>2. PICK l : l = Latest
      OBVIOUS
    <3> QED
      BY ONLY <3>1, <3>2, t \in 0..Latest, DatumSessionAssumption DEF DatumSessionAssumption
  <2> QED
    BY <2>1 DEF Range, Typed
<1>3. CASE PaysAs(pays, Expected(c))
  <2>1. ctx = c.ctx
    BY <1>3 DEF CtxsOf
  <2>2. mode = "pplns" => ctx \in {0, pays}
    BY <1>3, <2>1 DEF PaysAs, Expected
  <2> QED
    BY <1>1, <2>1, <2>2
<1>4. CASE ~PaysAs(pays, Expected(c))
  <2>1. ctx \in PaidContext(c, pays)
    BY <1>4 DEF CtxsOf
  <2> QED
    BY <1>2, <2>1 DEF PaidContext, PaysAs
<1> QED
  BY <1>3, <1>4

LEMMA JudgeIs ==
    ASSUME NEW i, NEW more, NEW all, NEW n, Judge(i, more, all, n)
    PROVE  \/ caches' = all /\ Reject(i, more) /\ UNCHANGED aux
           \/ /\ \E pays \in {p \in 0..Latest : CtxsOf(all[n], p) = {}} :
                    aux' = [aux EXCEPT !.refused = @ \cup
                               ({pays} \cap Issued(heights[all[n].base]))]
              /\ caches' = all /\ Reject(i, more)
           \/ \E pays \in 0..Latest : \E ctx \in CtxsOf(all[n], pays) :
                 /\ caches' = [all EXCEPT ![n].ctx = ctx]
                 /\ aux' = [aux EXCEPT !.mixed = IF ctx = all[n].ctx THEN @ ELSE @ \cup {n}]
                 /\ \/ Reject(i, more)
                    \/ Accept(i, more, [n |-> n, pays |-> pays])
BY Zenon DEF Judge, CtxsOf

LEMMA AuxStill ==
    ASSUME Typed, UNCHANGED aux
    PROVE  AuxKept /\ aux.mixed \subseteq aux'.mixed
BY DEF AuxKept, AuxSame, Typed

LEMMA AcceptIs ==
    ASSUME Typed, NEW i \in DOMAIN tasks, NEW n \in Nat \ {0}, NEW pays \in Nat,
           n \in DOMAIN caches', mode = "pplns" => caches'[n].ctx \in {0, pays},
           Accept(i, tasks[i].more, [n |-> n, pays |-> pays])
    PROVE  Accepts(i, n)
<1>1. PICK share : share = [n |-> n, pays |-> pays]
  OBVIOUS
<1>2. share \in ShareType /\ share.n = n /\ share.pays = pays
  BY <1>1 DEF ShareType
<1>3. PICK m \in Nat : m = Len(shares) + 1
  BY LenProperties DEF Typed
<1>4. PICK at \in Awaited : at = "reply"
  BY DEF Awaited
<1>5. PICK t : Going(i, {t}) /\ t.at = "reply" /\ t.carries = m
  <2>1. GoesTo(i, at, m)
    BY <1>3, <1>4 DEF Accept, GoesTo
  <2>2. WentTo(i, at, m)
    BY ONLY Typed, i \in DOMAIN tasks, at \in Awaited, m \in Nat, <2>1, GoesWaiting
  <2> QED
    BY <1>4, <2>2 DEF WentTo
<1>6. Carrying(i, Len(shares) + 1)
  BY <1>3, <1>5 DEF Carrying, HasShare
<1> QED
  BY <1>1, <1>2, <1>6 DEF Accepts, Accept

LEMMA Judged ==
    ASSUME Typed, PayInv, NEW i \in DOMAIN tasks, NEW all \in Seq(CacheType),
           NEW n \in DOMAIN all, Judge(i, tasks[i].more, all, n)
    PROVE  /\ SameWork(all, caches') /\ Kept(all, caches') /\ AuxKept
           /\ Rejects(i) \/ Accepts(i, n)
<1>1. all[n] \in CacheType /\ n \in Nat \ {0}
  BY CacheIs
<1>2. SameWork(all, all) /\ (aux.mixed \subseteq aux'.mixed => Kept(all, all))
  BY DEF SameWork, Kept
<1>3. ASSUME Reject(i, tasks[i].more)
      PROVE  Rejects(i)
  BY <1>3, GoesRest DEF Reject, Rejects
<1>4. CASE caches' = all /\ Reject(i, tasks[i].more) /\ UNCHANGED aux
  BY <1>2, <1>3, <1>4, AuxStill
<1>5. CASE /\ \E pays \in {p \in 0..Latest : CtxsOf(all[n], p) = {}} :
                 aux' = [aux EXCEPT !.refused = @ \cup
                            ({pays} \cap Issued(heights[all[n].base]))]
           /\ caches' = all /\ Reject(i, tasks[i].more)
  <2>1. PICK pays \in 0..Latest :
           /\ CtxsOf(all[n], pays) = {}
           /\ aux' = [aux EXCEPT !.refused = @ \cup
                         ({pays} \cap Issued(heights[all[n].base]))]
    BY <1>5
  <2>2. pays \notin Issued(heights[all[n].base])
    <3>1. PaidContext(all[n], pays) = {}
      BY <2>1 DEF CtxsOf
    <3> QED
      BY <3>1, IssuedIsPaid
  <2>3. PICK r : r = aux.refused \cup ({pays} \cap Issued(heights[all[n].base]))
    OBVIOUS
  <2>4. r = aux.refused
    BY <2>2, <2>3
  <2>5. aux' = [aux EXCEPT !.refused = r]
    BY <2>1, <2>3
  <2>6. AuxKept /\ aux.mixed \subseteq aux'.mixed
    BY <2>4, <2>5 DEF AuxKept, AuxSame, Typed, AuxType
  <2> QED
    BY <1>2, <1>3, <1>5, <2>6
<1>6. CASE \E pays \in 0..Latest : \E ctx \in CtxsOf(all[n], pays) :
             /\ caches' = [all EXCEPT ![n].ctx = ctx]
             /\ aux' = [aux EXCEPT !.mixed = IF ctx = all[n].ctx THEN @ ELSE @ \cup {n}]
             /\ \/ Reject(i, tasks[i].more)
                \/ Accept(i, tasks[i].more, [n |-> n, pays |-> pays])
  <2>0. PICK pays \in 0..Latest : \E ctx \in CtxsOf(all[n], pays) :
           /\ caches' = [all EXCEPT ![n].ctx = ctx]
           /\ aux' = [aux EXCEPT !.mixed = IF ctx = all[n].ctx THEN @ ELSE @ \cup {n}]
           /\ \/ Reject(i, tasks[i].more)
              \/ Accept(i, tasks[i].more, [n |-> n, pays |-> pays])
    BY <1>6
  <2>1. PICK ctx \in CtxsOf(all[n], pays) :
           /\ caches' = [all EXCEPT ![n].ctx = ctx]
           /\ aux' = [aux EXCEPT !.mixed = IF ctx = all[n].ctx THEN @ ELSE @ \cup {n}]
           /\ \/ Reject(i, tasks[i].more)
              \/ Accept(i, tasks[i].more, [n |-> n, pays |-> pays])
    BY <2>0
  <2>2. ctx \in 0..MaxTemplates /\ (mode = "pplns" => ctx \in {0, pays})
    BY <1>1, <2>1, CtxsAre
  <2>3. PICK d : d = caches'
    OBVIOUS
  <2>4. /\ SameWork(all, d) /\ d[n].ctx = ctx
        /\ \A k \in DOMAIN all : k # n => d[k] = all[k]
    <3>1. d = WithCtx(all, n, ctx)
      BY <2>1, <2>3 DEF WithCtx
    <3>2. ctx \in 0..MaxTemplates
      BY <2>2
    <3> QED
      BY ONLY all \in Seq(CacheType), n \in DOMAIN all, <3>1, <3>2, WithContext
  <2>5. PICK m : m = IF ctx = all[n].ctx THEN aux.mixed ELSE aux.mixed \cup {n}
    OBVIOUS
  <2>6. aux' = [aux EXCEPT !.mixed = m]
    BY <2>1, <2>5
  <2>7. m \in SUBSET Nat /\ aux.mixed \subseteq m /\ (ctx # all[n].ctx => n \in m)
    BY <1>1, <2>5 DEF Typed, AuxType
  <2>8. AuxKept /\ aux'.mixed = m
    BY <2>6, <2>7 DEF AuxKept, AuxSame, Typed, AuxType
  <2>9. Kept(all, d)
    BY <2>4, <2>7, <2>8 DEF Kept, SameWork
  <2>10. n \in DOMAIN d
    BY <2>4 DEF SameWork
  <2>11. Accept(i, tasks[i].more, [n |-> n, pays |-> pays]) => Accepts(i, n)
    <3>1. pays \in Nat
      BY LenProperties DEF Typed
    <3> QED
      BY <1>1, <2>2, <2>3, <2>4, <2>10, <3>1, AcceptIs
  <2> QED
    BY <1>3, <2>1, <2>3, <2>4, <2>8, <2>9, <2>11
<1> QED
  BY <1>4, <1>5, <1>6, JudgeIs

(* The caches once a submission has come with its context, or has not.       *)
LEMMA UpdatedIs ==
    ASSUME Typed, WorkInv, NEW pow \in Pows
    PROVE  \E all, n : /\ all = Updated(pow) /\ n = CacheFor(pow)
                       /\ all \in Seq(CacheType) /\ n \in DOMAIN all /\ n \in Nat
                       /\ DOMAIN caches \subseteq DOMAIN all
                       /\ \A k \in DOMAIN caches : all[k] = caches[k]
                       /\ \A k \in DOMAIN all : k \notin DOMAIN caches => all[k].verdict = 0
                       /\ all[n].job = pow.job /\ pow.job \in JobIds
                       /\ jobs[pow.job] <= n
<1>1. PICK j \in JobIds : j = pow.job /\ pow.context \in {<< >>} \cup {<<c>> : c \in Contexts}
  BY DEF Pows
<1>2. PICK l \in Nat : l = Len(caches) /\ DOMAIN caches = 1..l
  BY LenProperties DEF Typed
<1>3. PICK o \in Nat : o = jobs[j]
  BY DEF Typed
<1>4. o # 0 => o \in 1..l /\ caches[o].job = j
  BY <1>2, <1>3 DEF WorkInv
<1>5. CASE pow.context = << >> /\ o # 0
  <2>1. CacheFor(pow) = o
    BY <1>1, <1>3, <1>5 DEF CacheFor
  <2>2. Updated(pow) = caches
    BY <1>2, <1>4, <1>5, <2>1 DEF Updated
  <2>3. caches \in Seq(CacheType) /\ o <= o
    BY DEF Typed
  <2> QED
    BY ONLY <1>1, <1>2, <1>3, <1>4, <1>5, <2>1, <2>2, <2>3
<1>6. CASE ~(pow.context = << >> /\ o # 0)
  <2>1. CacheFor(pow) = l + 1
    BY <1>1, <1>2, <1>3, <1>6 DEF CacheFor
  <2>2. PICK c \in CacheType : Updated(pow) = Append(caches, c) /\ c.job = j /\ c.verdict = 0
    <3>1. ~(l + 1 \in DOMAIN caches)
      BY <1>2
    <3>2. CASE pow.context = << >>
      <4>1. PICK c : c = NoCache(j)
        OBVIOUS
      <4>2. 0 \in 0..MaxTemplates
        BY DatumSessionAssumption
      <4>3. c \in CacheType /\ c.job = j /\ c.verdict = 0
        BY ONLY j \in JobIds, <4>1, <4>2 DEF NoCache, CacheType
      <4>4. Updated(pow) = Append(caches, c)
        BY ONLY <1>1, <2>1, <3>1, <3>2, <4>1 DEF Updated
      <4> QED
        BY <4>3, <4>4
    <3>3. CASE pow.context # << >>
      <4>1. PICK x \in Contexts : pow.context = <<x>>
        BY <1>1, <3>3
      <4>2. x.base \in 1..Latest /\ x.id \in 1..MaxIds /\ x.txs \in {0, 1}
        BY ONLY x \in Contexts DEF Contexts
      <4>3. Latest \in 1..MaxTemplates /\ contexts \in [1..MaxIds -> 0..Latest]
        BY DEF Typed
      <4>4. x.base \in 0..MaxTemplates /\ contexts[x.id] \in 0..MaxTemplates
        <5>1. PICK y \in 0..Latest : y = contexts[x.id]
          BY ONLY <4>2, <4>3
        <5>2. PICK t : t = Latest
          OBVIOUS
        <5> QED
          BY ONLY DatumSessionAssumption, <4>2, <4>3, <5>1, <5>2, y \in 0..Latest
             DEF DatumSessionAssumption
      <4>5. PICK c : c = [NoCache(j) EXCEPT !.base = x.base, !.ctx = contexts[x.id],
                                            !.txs = x.txs]
        OBVIOUS
      <4>6. c \in CacheType /\ c.job = j /\ c.verdict = 0
        BY ONLY j \in JobIds, <4>2, <4>4, <4>5 DEF CacheType, NoCache
      <4>7. Updated(pow) = Append(caches, c)
        BY ONLY <1>1, <2>1, <3>1, <3>3, <4>1, <4>5 DEF Updated, ContextOf
      <4> QED
        BY <4>6, <4>7
    <3> QED
      BY <3>2, <3>3
  <2>3. PICK all : all = Append(caches, c)
    OBVIOUS
  <2>4. /\ all \in Seq(CacheType) /\ DOMAIN all = 1 .. l + 1 /\ all[l + 1] = c
        /\ \A k \in DOMAIN caches : all[k] = caches[k]
    BY <1>2, <2>3, AfterAppend DEF Typed
  <2>5. /\ 1..l \subseteq 1 .. l + 1 /\ l + 1 \in 1 .. l + 1 /\ l + 1 \in Nat /\ o <= l + 1
        /\ \A k \in 1 .. l + 1 : k \notin 1..l => k = l + 1
    BY <1>2, <1>4
  <2> QED
    BY ONLY j \in JobIds, <1>1, <1>2, <1>3, <2>1, <2>2, <2>3, <2>4, <2>5
<1> QED
  BY <1>5, <1>6

(* A submission whose row is there is rejected, accepted, or has its job's   *)
(* transactions asked for first.                                             *)
Continued(i) ==
    /\ \/ Rejects(i) \/ (\E n : Accepts(i, n))
       \/ (\E n \in DOMAIN caches' : Asking(i, n)) /\ UNCHANGED books
    /\ MoreWork(caches, caches') /\ Kept(caches, caches') /\ AuxKept /\ UNCHANGED coinbaser
    /\ jobs' \in [JobIds -> Nat] /\ \A j \in JobIds : jobs[j] <= jobs'[j]
    /\ \A j \in JobIds : jobs'[j] # jobs[j] =>
          jobs'[j] \in DOMAIN caches' /\ caches'[jobs'[j]].job = j
    /\ \A request \in asked' : request \in asked \/
          (request[1] \in Kinds /\ request[2] \in DOMAIN caches' /\ request[2] = jobs'[caches'[request[2]].job])

LEMMA Continues ==
    ASSUME Typed, WorkInv, PayInv, NEW i \in DOMAIN tasks, NEW pow \in Pows,
           Continue(i, tasks[i].more, pow)
    PROVE  Continued(i)
<1>1. PICK all, n : /\ all = Updated(pow) /\ n = CacheFor(pow)
                    /\ all \in Seq(CacheType) /\ n \in DOMAIN all /\ n \in Nat
                    /\ DOMAIN caches \subseteq DOMAIN all
                    /\ \A k \in DOMAIN caches : all[k] = caches[k]
                    /\ \A k \in DOMAIN all : k \notin DOMAIN caches => all[k].verdict = 0
                    /\ all[n].job = pow.job /\ pow.job \in JobIds
                    /\ jobs[pow.job] <= n
  BY UpdatedIs
<1>2. /\ jobs' = [jobs EXCEPT ![pow.job] = n] /\ UNCHANGED coinbaser
      /\ \/ /\ caches' = [all EXCEPT ![n].state = "short"]
            /\ asked' = asked \cup {<<"short", n>>}
            /\ Goes(i, Written(Waits("asking", tasks[i].more, n)))
            /\ UNCHANGED <<books, aux>>
         \/ /\ UNCHANGED asked
            /\ \/ Judge(i, tasks[i].more, [all EXCEPT ![n].state = "validated"], n)
               \/ Judge(i, tasks[i].more, all, n)
  BY <1>1 DEF Continue
<1>3. \E b \in Seq(CacheType) :
         /\ SameWork(all, b) /\ \A k \in DOMAIN all : b[k].ctx = all[k].ctx
         /\ SameWork(b, caches') /\ Kept(b, caches') /\ AuxKept
         /\ \/ Rejects(i) /\ UNCHANGED asked
            \/ Accepts(i, n) /\ UNCHANGED asked
            \/ Asking(i, n) /\ UNCHANGED books /\ asked' = asked \cup {<<"short", n>>}
  <2>1. SameWork(all, all)
    BY <1>1 DEF SameWork
  <2>2. CASE /\ caches' = [all EXCEPT ![n].state = "short"]
             /\ asked' = asked \cup {<<"short", n>>}
             /\ Goes(i, Written(Waits("asking", tasks[i].more, n)))
             /\ UNCHANGED <<books, aux>>
    <3>1. PICK state \in States : state = "short"
      BY DEF States
    <3>2. PICK b : b = Marked(all, n, state)
      OBVIOUS
    <3>3. /\ SameWork(all, b) /\ b[n].ctx = all[n].ctx
          /\ \A k \in DOMAIN all : k # n => b[k] = all[k]
      BY ONLY <1>1, state \in States, <3>2, WithState
    <3>4. b = caches' /\ b \in Seq(CacheType) /\ SameWork(b, b)
      BY <2>2, <3>1, <3>2, <3>3 DEF SameWork, Marked
    <3>5. AuxKept /\ aux.mixed \subseteq aux'.mixed
      BY <2>2, AuxStill
    <3>6. Kept(b, b)
      BY <3>5 DEF Kept
    <3>7. PICK at \in Awaited : at = "asking"
      BY DEF Awaited
    <3>8. GoesTo(i, at, n)
      BY <2>2, <3>7 DEF GoesTo
    <3>9. PICK t : Going(i, {t}) /\ t.at = at /\ t.carries = n
      <4>1. PICK m \in Nat : m = n
        BY <1>1
      <4>2. GoesTo(i, at, m)
        BY <3>8, <4>1
      <4>3. WentTo(i, at, m)
        BY ONLY Typed, i \in DOMAIN tasks, at \in Awaited, m \in Nat, <4>2, GoesWaiting
      <4> QED
        BY <4>1, <4>3 DEF WentTo
    <3>10. Asking(i, n)
      BY <3>7, <3>9 DEF Asking
    <3> QED
      BY <2>2, <3>3, <3>4, <3>5, <3>6, <3>10
  <2>3. CASE UNCHANGED asked /\ Judge(i, tasks[i].more, [all EXCEPT ![n].state = "validated"], n)
    <3>1. PICK state \in States : state = "validated"
      BY DEF States
    <3>2. PICK b : b = Marked(all, n, state)
      OBVIOUS
    <3>3. /\ SameWork(all, b) /\ b[n].ctx = all[n].ctx
          /\ \A k \in DOMAIN all : k # n => b[k] = all[k]
      BY ONLY <1>1, state \in States, <3>2, WithState
    <3>4. b \in Seq(CacheType) /\ n \in DOMAIN b /\ Judge(i, tasks[i].more, b, n)
      BY <1>1, <2>3, <3>1, <3>2, <3>3 DEF SameWork, Marked
    <3>5. /\ SameWork(b, caches') /\ Kept(b, caches') /\ AuxKept
          /\ Rejects(i) \/ Accepts(i, n)
      BY ONLY Typed, PayInv, i \in DOMAIN tasks, <3>4, Judged
    <3> QED
      BY <2>3, <3>3, <3>4, <3>5
  <2>4. CASE UNCHANGED asked /\ Judge(i, tasks[i].more, all, n)
    <3>1. /\ SameWork(all, caches') /\ Kept(all, caches') /\ AuxKept
          /\ Rejects(i) \/ Accepts(i, n)
      BY ONLY Typed, PayInv, i \in DOMAIN tasks, <1>1, <2>4, Judged
    <3> QED
      BY <1>1, <2>1, <2>4, <3>1
  <2> QED
    BY <1>2, <2>2, <2>3, <2>4
<1>4. PICK b \in Seq(CacheType) :
         /\ SameWork(all, b) /\ \A k \in DOMAIN all : b[k].ctx = all[k].ctx
         /\ SameWork(b, caches') /\ Kept(b, caches') /\ AuxKept
         /\ \/ Rejects(i) /\ UNCHANGED asked
            \/ Accepts(i, n) /\ UNCHANGED asked
            \/ Asking(i, n) /\ UNCHANGED books /\ asked' = asked \cup {<<"short", n>>}
  BY <1>3
<1>5. /\ DOMAIN caches' = DOMAIN all /\ caches' \in Seq(CacheType)
      /\ \A k \in DOMAIN all : caches'[k].job = all[k].job /\ caches'[k].verdict = all[k].verdict
  BY <1>4 DEF SameWork
<1>6. MoreWork(caches, caches')
  BY ONLY <1>1, <1>5 DEF MoreWork
<1>7. Kept(caches, caches')
  <2>1. DOMAIN b = DOMAIN all
    BY <1>4 DEF SameWork
  <2> QED
    BY ONLY <1>1, <1>4, <2>1 DEF Kept
<1>8. jobs \in [JobIds -> Nat]
  BY DEF Typed
<1>9. jobs' \in [JobIds -> Nat] /\ \A j \in JobIds : jobs[j] <= jobs'[j]
  <2>1. \A j \in JobIds : jobs[j] \in Nat /\ jobs[j] <= jobs[j]
    BY <1>8
  <2> QED
    BY ONLY <1>1, <1>2, <1>8, <2>1
<1>10. jobs'[pow.job] = n /\ \A j \in JobIds : jobs'[j] # jobs[j] => j = pow.job
  BY ONLY <1>1, <1>2, <1>8
<1>11. n \in DOMAIN caches' /\ caches'[n].job = pow.job
  BY ONLY <1>1, <1>5
<1>12. \A request \in asked' : request \in asked \/ (request[1] \in Kinds /\ request[2] = n)
  BY <1>4 DEF Kinds
<1> QED
  BY <1>2, <1>4, <1>6, <1>7, <1>9, <1>10, <1>11, <1>12 DEF Continued

-----------------------------------------------------------------------------
(* The steps. *)

RowTyped == rows \in Nat /\ row \in 0..rows /\ live \subseteq 1..rows

RestTyped ==
    /\ mode \in {"solo", "pplns"}
    /\ heights \in Seq(Nat) /\ Latest \in 1..MaxTemplates
    /\ wire \in WireType
    /\ socket \in {"open", "gone"} /\ closed \in {"no", "close", "event"}
    /\ nextId \in 1..MaxIds /\ contexts \in [1..MaxIds -> 0..Latest]
    /\ caches \in Seq(CacheType) /\ jobs \in [JobIds -> Nat]
    /\ tasks \in Seq(TaskType) /\ shares \in Seq(ShareType)
    /\ recorded \subseteq DOMAIN shares /\ dropped \subseteq DOMAIN shares
    /\ aux \in AuxType

LEMMA TypedIs ==
    /\ Typed <=> RestTyped /\ RowTyped
    /\ Typed' <=> RestTyped' /\ RowTyped'
BY DEF Typed, RestTyped, RowTyped

LEMMA RowStays ==
    ASSUME Typed, UNCHANGED client
    PROVE  RowTyped'
BY DEF Typed, RowTyped, client

LEMMA LatestStays ==
    ASSUME Typed, UNCHANGED heights
    PROVE  heights' \in Seq(Nat) /\ Latest' \in 1..MaxTemplates /\ Latest' = Latest
BY DEF Typed, Latest

LEMMA OpensNone ==
    ASSUME Typed, NEW i, tasks[i].at # "next", UNCHANGED wire
    PROVE  Opens(i)
BY DEF Opens, Typed, WireType

(* Handler i goes on with its piece, and not about the row. *)
MovesOn(i) ==
    \E new : /\ Going(i, new) /\ \A t \in new : ~Row(t)
             /\ \A t \in new : t.at = "asking" => t.carries \in DOMAIN caches'

LEMMA MovingOn ==
    ASSUME Typed, NEW i \in DOMAIN tasks,
           \/ Quiet(i) \/ (\E n : Carrying(i, n)) \/ (\E n \in DOMAIN caches' : Asking(i, n))
    PROVE  MovesOn(i)
<1>1. CASE Quiet(i)
  <2>1. PICK new : Going(i, new) /\ \A t \in new : t.at \in {"next", "wrote"}
    BY <1>1 DEF Quiet
  <2> QED
    BY <2>1 DEF MovesOn, Row
<1>2. CASE \E n : Carrying(i, n)
  <2>1. PICK t : Going(i, {t}) /\ HasShare(t)
    BY <1>2 DEF Carrying
  <2>2. \A x \in {t} : ~Row(x) /\ x.at # "asking"
    BY <2>1 DEF HasShare, Row
  <2> QED
    BY <2>1, <2>2 DEF MovesOn
<1>3. CASE \E n \in DOMAIN caches' : Asking(i, n)
  <2>1. PICK n \in DOMAIN caches' : Asking(i, n)
    BY <1>3
  <2>2. PICK new : Going(i, new) /\ \A t \in new : t.at = "asking" /\ t.carries = n
    BY <2>1 DEF Asking
  <2> QED
    BY <2>1, <2>2 DEF MovesOn, Row
<1> QED
  BY <1>1, <1>2, <1>3

(* A handler that carries no share goes on: with the session's work only, or *)
(* with the books of a share it accepted; the row is another matter.         *)
LEMMA ContinuedStep ==
    ASSUME DatumInv, NEW i \in DOMAIN tasks, ~HasShare(tasks[i]), Opens(i), Continued(i),
           UNCHANGED <<mode, heights>>
    PROVE  /\ StreamInv' /\ BooksInv' /\ WorkInv' /\ PayInv' /\ RestTyped'
           /\ MovesOn(i) /\ closed' = closed
           /\ aux'.twice = aux.twice /\ aux'.racing = aux.racing
<1>1. Typed /\ StreamInv /\ BooksInv /\ WorkInv /\ PayInv
  BY DEF DatumInv
<1>2. /\ \/ Rejects(i) \/ (\E n : Accepts(i, n))
         \/ (\E n \in DOMAIN caches' : Asking(i, n)) /\ UNCHANGED books
      /\ MoreWork(caches, caches') /\ Kept(caches, caches') /\ AuxKept /\ UNCHANGED coinbaser
      /\ jobs' \in [JobIds -> Nat] /\ \A j \in JobIds : jobs[j] <= jobs'[j]
      /\ \A j \in JobIds : jobs'[j] # jobs[j] =>
            jobs'[j] \in DOMAIN caches' /\ caches'[jobs'[j]].job = j
      /\ \A request \in asked' : request \in asked \/
            (request[1] \in Kinds /\ request[2] \in DOMAIN caches' /\ request[2] = jobs'[caches'[request[2]].job])
  BY DEF Continued
<1>3. /\ aux' \in AuxType /\ aux'.overlapped = aux.overlapped /\ aux'.racing = aux.racing
      /\ aux'.twice = aux.twice /\ aux'.issued = aux.issued /\ aux'.refused = aux.refused
  BY <1>2 DEF AuxKept, AuxSame
<1>4. MovesOn(i)
  <2>1. \/ Quiet(i) \/ (\E n : Carrying(i, n)) \/ (\E n \in DOMAIN caches' : Asking(i, n))
    BY <1>2 DEF Rejects, Accepts
  <2> QED
    BY <1>1, <2>1, MovingOn
<1>5. PICK new : /\ Going(i, new) /\ \A t \in new : ~Row(t)
                 /\ \A t \in new : t.at = "asking" => t.carries \in DOMAIN caches'
  BY <1>4 DEF MovesOn
<1>6. Moved(i, new) /\ UNCHANGED stream /\ tasks' \in Seq(TaskType)
  BY <1>5 DEF Going, Moved
<1>7. StreamInv' /\ wire' \in WireType
  BY ONLY <1>1, <1>3, <1>5, i \in DOMAIN tasks, Opens(i), StreamGoing
<1>8. WorkInv'
  BY ONLY <1>1, <1>2, <1>5, <1>6, WorkMore
<1>9. contexts' = contexts /\ nextId' = nextId
  BY <1>2 DEF coinbaser
<1>10. /\ BooksInv' /\ PayInv' /\ shares' \in Seq(ShareType)
       /\ recorded' \subseteq DOMAIN shares' /\ dropped' \subseteq DOMAIN shares'
  <2>1. CASE UNCHANGED books /\ (Quiet(i) \/ \E n : Asking(i, n))
    <3>1. PICK more : Going(i, more) /\ \A t \in more : ~HasShare(t)
      <4>1. CASE Quiet(i)
        BY <4>1 DEF Quiet, HasShare
      <4>2. CASE \E n : Asking(i, n)
        BY <4>2 DEF Asking, HasShare
      <4> QED
        BY <2>1, <4>1, <4>2
    <3>2. Moved(i, more)
      BY <3>1 DEF Going
    <3>3. shares' = shares /\ recorded' = recorded /\ dropped' = dropped /\ finalized' = finalized
      BY <2>1 DEF books
    <3>4. Entered /\ (closed # "no" => closed' # "no") /\ (i \in DOMAIN tasks => ~HasShare(tasks[i]))
      BY <1>6, <3>3 DEF Entered, stream
    <3>5. BooksInv'
      BY ONLY <1>1, <3>1, <3>2, <3>4, BooksQuiet
    <3>6. PayInv'
      BY ONLY <1>1, <1>2, <1>3, <1>9, <3>3, UNCHANGED <<mode, heights>>, PayKept
    <3> QED
      BY <1>1, <3>3, <3>5, <3>6 DEF Typed
  <2>2. CASE \E n : Accepts(i, n)
    <3>1. PICK n : Accepts(i, n)
      BY <2>2
    <3>2. PICK share \in ShareType :
             /\ share.n = n /\ shares' = Append(shares, share) /\ Carrying(i, Len(shares) + 1)
             /\ UNCHANGED <<recorded, dropped, finalized>>
             /\ n \in DOMAIN caches'
             /\ mode = "pplns" => caches'[n].ctx \in {0, share.pays}
      BY <3>1 DEF Accepts
    <3>3. BooksInv' /\ shares' \in Seq(ShareType) /\ DOMAIN shares \subseteq DOMAIN shares'
      BY ONLY <1>1, i \in DOMAIN tasks, ~HasShare(tasks[i]), share \in ShareType, <3>2, BooksAccept
    <3>4. PayInv'
      BY ONLY <1>1, <1>2, <1>3, <1>9, <3>2, share \in ShareType, UNCHANGED <<mode, heights>>,
              PayAccepted
    <3>5. recorded' \subseteq DOMAIN shares' /\ dropped' \subseteq DOMAIN shares'
      BY <1>1, <3>2, <3>3 DEF Typed
    <3> QED
      BY <3>3, <3>4, <3>5
  <2> QED
    BY <1>2, <2>1, <2>2 DEF Rejects
<1>11. Latest' \in 1..MaxTemplates /\ heights' \in Seq(Nat) /\ Latest' = Latest
  BY <1>1, LatestStays
<1>12. RestTyped'
  BY <1>1, <1>2, <1>3, <1>6, <1>7, <1>9, <1>10, <1>11 DEF RestTyped, Typed, MoreWork, stream
<1>13. closed' = closed
  BY <1>6 DEF stream
<1> QED
  BY <1>3, <1>4, <1>7, <1>8, <1>10, <1>12, <1>13

(* A handler ends, or the close event comes, and the session is closed.      *)
LEMMA ShutStep ==
    ASSUME DatumInv, NEW i, Shut(i), NEW s \in {0, 1},
           s = 1 => i \in DOMAIN tasks /\ tasks[i].at = "next",
           wire' = [wire EXCEPT !.opened = @ + s],
           UNCHANGED <<mode, heights, client, coinbaser, work, shares, recorded, finalized>>,
           \/ dropped' = dropped /\ (i \in DOMAIN tasks => ~HasShare(tasks[i]))
           \/ /\ i \in DOMAIN tasks /\ HasShare(tasks[i])
              /\ dropped' = dropped \cup {tasks[i].carries}
    PROVE  DatumInv'
<1>1. Typed /\ StreamInv /\ BooksInv /\ RowInv /\ WorkInv /\ PayInv
  BY DEF DatumInv
<1>2. PICK new : Shutting(i, new)
  BY DEF Shut
<1>3. PICK b \in BOOLEAN : aux' = [aux EXCEPT !.racing = b]
  BY <1>2 DEF Shutting
<1>4. /\ aux' \in AuxType /\ aux'.issued = aux.issued /\ aux'.refused = aux.refused
      /\ aux'.mixed = aux.mixed
  BY <1>1, <1>3 DEF Typed, AuxType
<1>5. /\ Moved(i, new) /\ socket' = "gone" /\ closed' \in {"close", "event"}
      /\ tasks' \in Seq(TaskType) /\ \A t \in new : ~HasShare(t) /\ t.at # "asking"
  BY <1>2 DEF Shutting, Moved, HasShare
<1>6. StreamInv' /\ wire' \in WireType
  BY <1>1, StreamShut
<1>7. RowInv'
  BY <1>1, RowShut
<1>8. WorkInv'
  BY ONLY <1>1, <1>5, WorkSame,
          UNCHANGED <<mode, heights, client, coinbaser, work, shares, recorded, finalized>>
<1>9. Kept(caches, caches')
  BY <1>4 DEF Kept, work
<1>10. UNCHANGED <<mode, contexts, nextId, shares, finalized>>
  BY DEF coinbaser
<1>11. PayInv'
  BY ONLY <1>1, <1>4, <1>9, <1>10, PayKept
<1>12. BooksInv' /\ recorded' \subseteq DOMAIN shares' /\ dropped' \subseteq DOMAIN shares'
  <2>1. closed' # "no"
    BY <1>5
  <2>2. CASE dropped' = dropped /\ (i \in DOMAIN tasks => ~HasShare(tasks[i]))
    <3>1. Entered
      BY <2>2 DEF Entered
    <3>2. BooksInv'
      BY ONLY <1>1, <1>5, <2>1, <2>2, <3>1, BooksQuiet
    <3> QED
      BY <1>1, <2>2, <3>2 DEF Typed
  <2>3. CASE /\ i \in DOMAIN tasks /\ HasShare(tasks[i])
             /\ dropped' = dropped \cup {tasks[i].carries}
    <3>1. UNCHANGED shares /\ UNCHANGED recorded
      OBVIOUS
    <3> QED
      BY ONLY <1>1, <1>5, <2>1, <2>3, <3>1, BooksDone
  <2> QED
    BY <2>2, <2>3
<1>13. Latest' \in 1..MaxTemplates /\ heights' \in Seq(Nat) /\ Latest' = Latest
  BY <1>1, LatestStays
<1>14. RestTyped'
  BY <1>1, <1>4, <1>5, <1>6, <1>10, <1>12, <1>13 DEF RestTyped, Typed, work
<1>15. RowTyped'
  BY <1>1, RowStays
<1> QED
  BY <1>6, <1>7, <1>8, <1>11, <1>12, <1>14, <1>15, TypedIs DEF DatumInv

(* The handler of a share goes on with it: its block may be saved.           *)
LEMMA CarryStep ==
    ASSUME DatumInv, NEW i \in DOMAIN tasks, HasShare(tasks[i]),
           Carrying(i, tasks[i].carries), UNCHANGED wire,
           UNCHANGED <<mode, heights, client, coinbaser, work, shares, recorded, dropped, aux>>,
           \/ UNCHANGED finalized
           \/ /\ mode = "pplns"
              /\ finalized' = finalized \cup {[share |-> tasks[i].carries,
                                 snapshot |-> caches[shares[tasks[i].carries].n].ctx]}
    PROVE  DatumInv'
<1>1. Typed /\ StreamInv /\ BooksInv /\ RowInv /\ WorkInv /\ PayInv
  BY DEF DatumInv
<1>2. tasks[i].at \notin {"next", "delete"}
  BY DEF HasShare
<1>3. PICK t : Going(i, {t}) /\ HasShare(t) /\ t.carries = tasks[i].carries
  BY DEF Carrying
<1>4. /\ Moved(i, {t}) /\ UNCHANGED stream /\ tasks' \in Seq(TaskType)
      /\ \A x \in {t} : ~Row(x) /\ x.at # "asking"
  BY <1>3 DEF Going, Moved, HasShare, Row
<1>5. Opens(i) /\ aux'.overlapped = aux.overlapped
  BY <1>1, <1>2, OpensNone
<1>6. StreamInv' /\ wire' \in WireType
  BY ONLY <1>1, <1>3, <1>5, i \in DOMAIN tasks, StreamGoing
<1>7. Entered
  BY DEF Entered
<1>8. BooksInv'
  BY <1>1, <1>7, BooksCarry
<1>9. closed' = closed /\ Rowed
  BY <1>4 DEF Rowed, stream
<1>10. RowInv'
  BY ONLY <1>1, <1>2, <1>4, <1>9, i \in DOMAIN tasks, RowMoved
<1>11. WorkInv'
  BY ONLY <1>1, <1>4, WorkSame,
     UNCHANGED <<mode, heights, client, coinbaser, work, shares, recorded, dropped, aux>>
<1>12. PayInv'
  <2>1. UNCHANGED <<mode, contexts, nextId, shares, caches>> /\ aux' = aux
    BY DEF coinbaser, work
  <2>2. CASE UNCHANGED finalized
    <3>1. Kept(caches, caches')
      BY <2>1 DEF Kept
    <3> QED
      BY <1>1, <2>1, <2>2, <3>1, PayKept
  <2>3. CASE /\ mode = "pplns"
             /\ finalized' = finalized \cup {[share |-> tasks[i].carries,
                                snapshot |-> caches[shares[tasks[i].carries].n].ctx]}
    <3>1. tasks[i].carries \in DOMAIN shares
      BY <1>1 DEF BooksInv
    <3> QED
      BY ONLY <1>1, <2>1, <2>3, <3>1, PaySaved
  <2> QED
    BY <2>2, <2>3
<1>13. Latest' \in 1..MaxTemplates /\ heights' \in Seq(Nat) /\ Latest' = Latest
  BY <1>1, LatestStays
<1>14. RestTyped'
  BY <1>1, <1>4, <1>6, <1>13 DEF RestTyped, Typed, work, coinbaser, stream
<1>15. RowTyped'
  BY <1>1, RowStays
<1> QED
  BY <1>6, <1>8, <1>10, <1>11, <1>12, <1>14, <1>15, TypedIs DEF DatumInv

(* A handler throws. *)
LEMMA ThrowStep ==
    ASSUME DatumInv, NEW i \in DOMAIN tasks, Throws(i), NEW s \in {0, 1},
           s = 1 => tasks[i].at = "next",
           wire' = [wire EXCEPT !.opened = @ + s],
           UNCHANGED <<mode, heights, client, coinbaser, work, shares, recorded, finalized>>,
           \/ dropped' = dropped /\ ~HasShare(tasks[i])
           \/ HasShare(tasks[i]) /\ dropped' = dropped \cup {tasks[i].carries}
    PROVE  DatumInv'
<1>1. Shut(i)
  BY ThrowsShuts DEF DatumInv
<1> QED
  BY <1>1, ShutStep

LEMMA WireIs ==
    ASSUME Typed
    PROVE  UNCHANGED wire => wire' = [wire EXCEPT !.opened = @ + 0]
<1>1. PICK o \in Nat : o = wire.opened /\ o = o + 0
  BY DEF Typed, WireType
<1>2. wire = [wire EXCEPT !.opened = o]
  BY <1>1 DEF Typed, WireType
<1>3. wire = [wire EXCEPT !.opened = @ + 0]
  BY <1>1, <1>2
<1> QED
  BY <1>3

(* A handler that has a share ends without it. *)
LEMMA DropStep ==
    ASSUME DatumInv, NEW i \in DOMAIN tasks, HasShare(tasks[i]), Throws(i),
           dropped' = dropped \cup {tasks[i].carries}, UNCHANGED wire,
           UNCHANGED <<mode, heights, client, coinbaser, work, shares, recorded, finalized>>
    PROVE  DatumInv'
<1>1. PICK s \in {0, 1} : s = 0
  OBVIOUS
<1>2. wire' = [wire EXCEPT !.opened = @ + s]
  BY <1>1, WireIs DEF DatumInv
<1>3. s = 1 => tasks[i].at = "next"
  BY <1>1
<1>4. UNCHANGED <<mode, heights, client, coinbaser, work, shares, recorded, finalized>>
  OBVIOUS
<1>5. \/ dropped' = dropped /\ ~HasShare(tasks[i])
      \/ HasShare(tasks[i]) /\ dropped' = dropped \cup {tasks[i].carries}
  OBVIOUS
<1> QED
  BY ONLY DatumInv, i \in DOMAIN tasks, Throws(i), s \in {0, 1}, <1>2, <1>3, <1>4, <1>5, ThrowStep

(* A frame's submission. *)
LEMMA NothingMore ==
    ASSUME Typed, UNCHANGED <<coinbaser, work, aux>>
    PROVE  /\ MoreWork(caches, caches') /\ Kept(caches, caches') /\ AuxKept
           /\ jobs' \in [JobIds -> Nat] /\ \A j \in JobIds : jobs[j] <= jobs'[j]
<1>1. caches' = caches /\ jobs' = jobs /\ aux.mixed \subseteq aux'.mixed
  BY DEF work
<1>2. MoreWork(caches, caches') /\ Kept(caches, caches')
  BY <1>1 DEF MoreWork, Kept, Typed
<1>3. jobs' \in [JobIds -> Nat] /\ \A j \in JobIds : jobs[j] <= jobs'[j]
  BY <1>1 DEF Typed
<1> QED
  BY <1>2, <1>3, AuxStill

(* A handler that goes on, and changes nothing but the row. *)
LEMMA QuietIs ==
    ASSUME Typed, NEW i \in DOMAIN tasks, Quiet(i), UNCHANGED <<coinbaser, work, books, aux>>
    PROVE  Continued(i)
<1>1. jobs' = jobs /\ asked' = asked
  BY DEF work
<1> QED
  BY <1>1, NothingMore DEF Continued, Rejects

LEMMA RowFollows ==
    ASSUME DatumInv, NEW i \in DOMAIN tasks, tasks[i].at # "delete", MovesOn(i),
           closed' = closed, Rowed
    PROVE  RowInv'
<1>1. PICK new : Moved(i, new) /\ \A t \in new : ~Row(t)
  BY DEF MovesOn, Going
<1> QED
  BY <1>1, RowMoved DEF DatumInv

(* As ContinuedStep, with the row left alone. *)
LEMMA ContinuedInv ==
    ASSUME DatumInv, NEW i \in DOMAIN tasks, ~HasShare(tasks[i]), tasks[i].at # "delete",
           Opens(i), Continued(i), UNCHANGED <<mode, heights, client>>
    PROVE  DatumInv'
<1>1. /\ StreamInv' /\ BooksInv' /\ WorkInv' /\ PayInv' /\ RestTyped'
      /\ MovesOn(i) /\ closed' = closed
      /\ aux'.twice = aux.twice /\ aux'.racing = aux.racing
  BY ContinuedStep
<1>2. RowInv'
  BY <1>1, RowFollows DEF Rowed
<1>3. RowTyped'
  BY RowStays DEF DatumInv
<1> QED
  BY <1>1, <1>2, <1>3, TypedIs DEF DatumInv

LEMMA InsertingStep ==
    ASSUME DatumInv, NEW i \in DOMAIN tasks, tasks[i].at = "next", row = 0, Opens(i),
           Goes(i, <<Waits("insert", tasks[i].more, 0)>>),
           aux' = [aux EXCEPT !.twice = @ \/ \E k \in DOMAIN tasks : tasks[k].at = "insert"],
           UNCHANGED <<mode, heights, client, coinbaser, work, books>>
    PROVE  DatumInv'
<1>1. Typed /\ StreamInv /\ BooksInv /\ RowInv /\ WorkInv /\ PayInv
  BY DEF DatumInv
<1>2. PICK at \in Awaited, n \in Nat : at = "insert" /\ n = 0
  BY DEF Awaited
<1>3. GoesTo(i, at, n)
  BY <1>2 DEF GoesTo
<1>4. PICK t : Going(i, {t}) /\ t.at = at /\ t.carries = n
  <2>1. Typed
    BY <1>1
  <2>2. WentTo(i, at, n)
    BY ONLY <2>1, i \in DOMAIN tasks, at \in Awaited, n \in Nat, <1>3, GoesWaiting
  <2> QED
    BY <2>2 DEF WentTo
<1>5. /\ Inserting(i) /\ Moved(i, {t}) /\ tasks' \in Seq(TaskType) /\ UNCHANGED stream
      /\ \A x \in {t} : x.at # "asking" /\ ~HasShare(x)
  BY <1>2, <1>4 DEF Inserting, Going, Moved, HasShare
<1>6. PICK b \in BOOLEAN : b = (aux.twice \/ \E k \in DOMAIN tasks : tasks[k].at = "insert")
  OBVIOUS
<1>7. aux' = [aux EXCEPT !.twice = b]
  BY <1>6
<1>8. /\ aux' \in AuxType /\ aux'.twice = b /\ aux'.racing = aux.racing
      /\ aux'.overlapped = aux.overlapped
      /\ aux'.issued = aux.issued /\ aux'.refused = aux.refused /\ aux'.mixed = aux.mixed
  BY <1>1, <1>7 DEF Typed, AuxType
<1>9. StreamInv' /\ wire' \in WireType
  BY ONLY <1>1, <1>4, <1>8, i \in DOMAIN tasks, Opens(i), StreamGoing
<1>10. RowInv'
  BY <1>1, <1>5, <1>6, <1>8, RowInserting
<1>11. WorkInv'
  BY ONLY <1>1, <1>5, WorkSame, UNCHANGED <<mode, heights, client, coinbaser, work, books>>
<1>12. Entered /\ closed' = closed /\ ~HasShare(tasks[i])
  BY <1>5 DEF Entered, books, stream, HasShare
<1>13. BooksInv'
  BY ONLY <1>1, <1>5, <1>12, BooksQuiet
<1>14. Kept(caches, caches') /\ UNCHANGED <<mode, contexts, nextId, shares, finalized>>
  BY <1>8 DEF Kept, work, coinbaser, books
<1>15. PayInv'
  BY ONLY <1>1, <1>8, <1>14, PayKept
<1>16. Latest' \in 1..MaxTemplates /\ heights' \in Seq(Nat) /\ Latest' = Latest
  BY <1>1, LatestStays
<1>17. RestTyped'
  BY <1>1, <1>5, <1>8, <1>9, <1>12, <1>14, <1>16 DEF RestTyped, Typed, work, stream, Entered
<1>18. RowTyped'
  BY <1>1, RowStays
<1> QED
  BY <1>9, <1>10, <1>11, <1>13, <1>15, <1>17, <1>18, TypedIs DEF DatumInv

LEMMA SubmitStep ==
    ASSUME DatumInv, NEW i \in DOMAIN tasks, tasks[i].at = "next", Opens(i),
           SubmitPow(i, tasks[i].more), UNCHANGED <<mode, heights>>
    PROVE  DatumInv'
<1>1. Typed /\ StreamInv /\ BooksInv /\ RowInv /\ WorkInv /\ PayInv
  BY DEF DatumInv
<1>2. ~HasShare(tasks[i]) /\ tasks[i].at # "delete"
  BY DEF HasShare
<1>3. CASE (\E pow \in Pows : Continue(i, tasks[i].more, pow)) /\ UNCHANGED client
  <2>1. Continued(i)
    BY <1>1, <1>3, Continues
  <2> QED
    BY <1>2, <1>3, <2>1, ContinuedInv
<1>4. CASE /\ row = 0
           /\ Goes(i, <<Waits("insert", tasks[i].more, 0)>>)
           /\ aux' = [aux EXCEPT !.twice = @ \/ \E k \in DOMAIN tasks : tasks[k].at = "insert"]
           /\ UNCHANGED <<client, coinbaser, work, books>>
  BY <1>4, InsertingStep
<1>5. CASE Reject(i, tasks[i].more) /\ UNCHANGED <<client, coinbaser, work, aux>>
  <2>1. Quiet(i) /\ UNCHANGED books
    BY <1>1, <1>5, GoesRest DEF Reject
  <2>2. Continued(i)
    BY <1>1, <1>5, <2>1, QuietIs
  <2> QED
    BY <1>2, <1>5, <2>2, ContinuedInv
<1> QED
  BY <1>3, <1>4, <1>5 DEF SubmitPow

(* A frame that fetches outputs, or answers about a job. *)
LEMMA FetchStep ==
    ASSUME DatumInv, NEW i \in DOMAIN tasks, tasks[i].at = "next", Opens(i),
           FetchCoinbaser(i, tasks[i].more), UNCHANGED <<mode, heights>>
    PROVE  DatumInv'
<1>1. Typed /\ StreamInv /\ BooksInv /\ RowInv /\ WorkInv /\ PayInv
  BY DEF DatumInv
<1>2. /\ contexts' = [contexts EXCEPT ![nextId] = Latest]
      /\ nextId' = NextId(nextId)
      /\ aux' = [aux EXCEPT !.issued = Append(@, Latest)]
      /\ Goes(i, Replied(tasks[i].more))
      /\ UNCHANGED <<client, work, books>>
  BY DEF FetchCoinbaser
<1>3. PICK new : Going(i, new) /\ \A t \in new : t.at \in {"next", "wrote"}
  BY <1>1, <1>2, GoesRest DEF Quiet
<1>4. /\ Moved(i, new) /\ tasks' \in Seq(TaskType) /\ UNCHANGED stream
      /\ \A t \in new : t.at # "asking" /\ ~HasShare(t) /\ ~Row(t)
  BY <1>3 DEF Going, Moved, HasShare, Row
<1>5. UNCHANGED <<mode, shares, finalized, caches>> /\ UNCHANGED work
  BY <1>2 DEF books, work
<1>6. PayInv' /\ aux' \in AuxType
  BY ONLY <1>1, <1>2, <1>5, PayFetched
<1>7. PICK q : aux' = [aux EXCEPT !.issued = q]
  BY <1>2
<1>8. aux'.twice = aux.twice /\ aux'.racing = aux.racing /\ aux'.overlapped = aux.overlapped
  BY ONLY <1>1, <1>7 DEF Typed, AuxType
<1>9. StreamInv' /\ wire' \in WireType
  BY ONLY <1>1, <1>3, <1>8, i \in DOMAIN tasks, Opens(i), StreamGoing
<1>10. WorkInv'
  BY ONLY <1>1, <1>4, <1>5, WorkSame
<1>11. Entered /\ closed' = closed /\ ~HasShare(tasks[i]) /\ Rowed /\ tasks[i].at # "delete"
  BY <1>2, <1>4, <1>8 DEF Entered, books, stream, HasShare, Rowed
<1>12. BooksInv'
  BY ONLY <1>1, <1>4, <1>11, BooksQuiet
<1>13. RowInv'
  BY ONLY <1>1, <1>4, <1>11, i \in DOMAIN tasks, RowMoved
<1>14. Latest' \in 1..MaxTemplates /\ heights' \in Seq(Nat) /\ Latest' = Latest
  BY <1>1, LatestStays
<1>15. contexts' \in [1..MaxIds -> 0..Latest] /\ nextId' \in 1..MaxIds
  <2>1. /\ Latest \in 0..Latest /\ nextId \in 1..MaxIds /\ MaxIds \in Nat
        /\ contexts \in [1..MaxIds -> 0..Latest]
    BY <1>1, LenProperties, DatumSessionAssumption DEF Typed
  <2> QED
    BY ONLY <1>2, <2>1 DEF NextId
<1>16. RestTyped'
  BY <1>1, <1>4, <1>5, <1>6, <1>9, <1>11, <1>14, <1>15 DEF RestTyped, Typed, work, stream, Entered
<1>17. RowTyped'
  BY <1>1, <1>2, RowStays
<1> QED
  BY <1>6, <1>9, <1>10, <1>12, <1>13, <1>16, <1>17, TypedIs DEF DatumInv

(* The response to a request is applied. *)
Answering(i, request) ==
    LET m == request[2]
        n == Answered(caches[m].job)
    IN  /\ \/ /\ caches' = [caches EXCEPT ![n].state = "failed", ![n].verdict = m]
              /\ asked' = asked \ {request}
           \/ /\ caches' = [caches EXCEPT ![n].state = "blob"]
              /\ asked' = (asked \ {request}) \cup {<<"blob", n>>}
           \/ /\ caches' = [caches EXCEPT ![n].state = "validated", ![n].verdict = m]
              /\ asked' = asked \ {request}
        /\ Goes(i, Rest(tasks[i].more)) \/ Goes(i, Replied(tasks[i].more))
        /\ UNCHANGED <<jobs, client, coinbaser, books, aux>>

LEMMA AnsweringIs ==
    ASSUME WorkInv, NEW i, AnswerValidation(i, tasks[i].more)
    PROVE  \E request \in asked : Answering(i, request)
<1>1. PICK request \in asked, ok \in BOOLEAN :
         LET m == request[2]
             n == Answered(caches[m].job)
             right == n = m \/ (request[1] = "short" /\ caches[n].txs = caches[m].txs)
         IN  /\ CASE ~ok \/ ~right ->
                     /\ caches' = [caches EXCEPT ![n].state = "failed", ![n].verdict = m]
                     /\ asked' = asked \ {request}
                     /\ Goes(i, Rest(tasks[i].more))
                  [] ok /\ right /\ request[1] = "short" ->
                     /\ caches' = [caches EXCEPT ![n].state = "blob"]
                     /\ asked' = (asked \ {request}) \cup {<<"blob", n>>}
                     /\ Goes(i, Replied(tasks[i].more))
                  [] ok /\ right /\ request[1] = "blob" ->
                     /\ caches' = [caches EXCEPT ![n].state = "validated", ![n].verdict = m]
                     /\ asked' = asked \ {request}
                     /\ Goes(i, Rest(tasks[i].more))
             /\ UNCHANGED <<jobs, client, coinbaser, books, aux>>
  BY DEF AnswerValidation
<1>2. request[1] = "short" \/ request[1] = "blob"
  BY DEF WorkInv, Kinds
<1> QED
  BY <1>1, <1>2 DEF Answering

LEMMA AnswerStep ==
    ASSUME DatumInv, NEW i \in DOMAIN tasks, tasks[i].at = "next", Opens(i),
           AnswerValidation(i, tasks[i].more), UNCHANGED <<mode, heights>>
    PROVE  DatumInv'
<1>1. Typed /\ StreamInv /\ BooksInv /\ RowInv /\ WorkInv /\ PayInv
  BY DEF DatumInv
<1>2. PICK request \in asked : Answering(i, request)
  BY <1>1, AnsweringIs
<1>2a. /\ LET m == request[2]
              n == Answered(caches[m].job)
          IN  /\ \/ caches' = [caches EXCEPT ![n].state = "failed", ![n].verdict = m]
                 \/ caches' = [caches EXCEPT ![n].state = "blob"]
                 \/ caches' = [caches EXCEPT ![n].state = "validated", ![n].verdict = m]
              /\ asked' \subseteq asked \cup {<<"blob", n>>}
       /\ Goes(i, Rest(tasks[i].more)) \/ Goes(i, Replied(tasks[i].more))
       /\ UNCHANGED <<jobs, client, coinbaser, books, aux>>
  BY <1>2 DEF Answering
<1>3. PICK m \in DOMAIN caches, n \in DOMAIN caches :
         /\ m = request[2] /\ n = Answered(caches[m].job) /\ m <= n
         /\ caches[n].job = caches[m].job /\ m # 0 /\ n # 0
  BY <1>1, AnsweredIs
<1>4. PICK state \in States : \/ caches' = WithAnswer(caches, n, state, m)
                              \/ caches' = Marked(caches, n, state)
  <2>1. "failed" \in States /\ "blob" \in States /\ "validated" \in States
    BY DEF States
  <2> QED
    BY <1>2a, <1>3, <2>1 DEF WithAnswer, Marked
<1>5. \A r \in asked' : r \in asked \/ (r[1] \in Kinds /\ r[2] = n)
  BY <1>2a, <1>3 DEF Kinds
<1>6. PICK new : Going(i, new) /\ \A t \in new : t.at \in {"next", "wrote"}
  BY <1>1, <1>2a, GoesRest DEF Quiet
<1>7. /\ Moved(i, new) /\ tasks' \in Seq(TaskType) /\ UNCHANGED stream
      /\ \A t \in new : t.at # "asking" /\ ~HasShare(t) /\ ~Row(t)
  BY <1>6 DEF Going, Moved, HasShare, Row
<1>8. n = jobs[caches[m].job] /\ UNCHANGED jobs /\ aux' = aux
  BY <1>2a, <1>3 DEF Answered
<1>9. /\ WorkInv' /\ caches' \in Seq(CacheType) /\ DOMAIN caches' = DOMAIN caches
      /\ \A k \in DOMAIN caches : caches'[k].ctx = caches[k].ctx
  BY ONLY <1>1, m \in DOMAIN caches, n \in DOMAIN caches, <1>3, <1>4, state \in States,
          <1>5, <1>7, <1>8, WorkAnswered
<1>10. Kept(caches, caches') /\ UNCHANGED <<mode, contexts, nextId, shares, finalized>>
  BY <1>2a, <1>8, <1>9 DEF Kept, coinbaser, books
<1>11. PayInv'
  BY ONLY <1>1, <1>8, <1>10, PayKept
<1>12. StreamInv' /\ wire' \in WireType
  BY ONLY <1>1, <1>6, <1>8, i \in DOMAIN tasks, Opens(i), StreamGoing
<1>13. Entered /\ closed' = closed /\ ~HasShare(tasks[i]) /\ Rowed /\ tasks[i].at # "delete"
  BY <1>2a, <1>7, <1>8 DEF Entered, books, stream, HasShare, Rowed
<1>14. BooksInv'
  BY ONLY <1>1, <1>7, <1>13, BooksQuiet
<1>15. RowInv'
  BY ONLY <1>1, <1>7, <1>13, i \in DOMAIN tasks, RowMoved
<1>16. Latest' \in 1..MaxTemplates /\ heights' \in Seq(Nat) /\ Latest' = Latest
  BY <1>1, LatestStays
<1>17. RestTyped'
  BY <1>1, <1>7, <1>8, <1>9, <1>10, <1>12, <1>13, <1>16 DEF RestTyped, Typed, stream, Entered
<1>18. RowTyped'
  BY <1>1, <1>2a, RowStays
<1> QED
  BY <1>9, <1>11, <1>12, <1>14, <1>15, <1>17, <1>18, TypedIs DEF DatumInv

LEMMA FrameStep ==
    ASSUME DatumInv, NEW i \in DOMAIN tasks, Frame(i)
    PROVE  DatumInv'
<1>1. /\ tasks[i].at = "next" /\ Opens(i) /\ UNCHANGED <<mode, heights>>
      /\ wire' = [wire EXCEPT !.opened = @ + 1]
  <2>1. tasks[i].at = "next" /\ wire' = [wire EXCEPT !.opened = @ + 1]
    BY DEF Frame, Of
  <2>2. PICK o : o = wire.opened + 1
    OBVIOUS
  <2>3. Opens(i)
    BY <2>1, <2>2 DEF Opens
  <2> QED
    BY <2>1, <2>3 DEF Frame
<1>2. CASE SubmitPow(i, tasks[i].more)
  BY <1>1, <1>2, SubmitStep
<1>3. CASE FetchCoinbaser(i, tasks[i].more)
  BY <1>1, <1>3, FetchStep
<1>4. CASE AnswerValidation(i, tasks[i].more)
  BY <1>1, <1>4, AnswerStep
<1>5. CASE Throws(i) /\ UNCHANGED <<client, coinbaser, work, books>>
  <2>1. PICK s \in {0, 1} : s = 1
    OBVIOUS
  <2>2. wire' = [wire EXCEPT !.opened = @ + s] /\ (s = 1 => tasks[i].at = "next")
    BY <1>1, <2>1
  <2>3. /\ UNCHANGED <<mode, heights, client, coinbaser, work, shares, recorded, finalized>>
        /\ dropped' = dropped /\ ~HasShare(tasks[i])
    BY <1>1, <1>5 DEF books, HasShare
  <2> QED
    BY ONLY DatumInv, i \in DOMAIN tasks, <1>5, s \in {0, 1}, <2>2, <2>3, ThrowStep
<1> QED
  BY <1>2, <1>3, <1>4, <1>5 DEF Frame, Of

(* A share is credited, or its handler finds no row and throws. *)
LEMMA CreditStep ==
    ASSUME DatumInv, NEW i \in DOMAIN tasks, HasShare(tasks[i]), Credit(i), UNCHANGED wire,
           UNCHANGED <<mode, heights, client, coinbaser, work, shares, recorded, finalized>>
    PROVE  DatumInv'
<1>1. CASE row = 0
  <2>1. Throws(i) /\ dropped' = dropped \cup {tasks[i].carries}
    BY <1>1 DEF Credit, Of
  <2> QED
    BY <2>1, DropStep
<1>2. CASE row # 0
  <2>1. Goes(i, <<[Of(i) EXCEPT !.at = "record"]>>) /\ UNCHANGED <<dropped, aux>>
    BY <1>2 DEF Credit
  <2>2. PICK at \in {"save", "finalize", "record"} : at = "record"
    OBVIOUS
  <2>3. Carrying(i, tasks[i].carries)
    BY <2>1, <2>2, GoesCarrying DEF DatumInv
  <2> QED
    BY <2>1, <2>3, CarryStep
<1> QED
  BY <1>1, <1>2

(* A write ends, or fails. *)
LEMMA WriteEndsStep ==
    ASSUME DatumInv, NEW i \in DOMAIN tasks, WriteEnds(i)
    PROVE  DatumInv'
<1>1. Typed /\ StreamInv /\ BooksInv /\ RowInv /\ WorkInv /\ PayInv
  BY DEF DatumInv
<1>2. UNCHANGED <<client, coinbaser, jobs, asked>> /\ UNCHANGED <<mode, heights, wire, msgs, pows>>
  BY DEF WriteEnds, Elsewhere
<1>3. CASE tasks[i].at = "wrote" /\ Goes(i, Rest(tasks[i].more)) /\ UNCHANGED <<caches, books, aux>>
  <2>1. Quiet(i)
    BY <1>1, <1>3, GoesRest
  <2>2. UNCHANGED <<coinbaser, work, books, aux>>
    BY <1>2, <1>3 DEF work
  <2>3. Continued(i)
    BY <1>1, <2>1, <2>2, QuietIs
  <2>4. ~HasShare(tasks[i]) /\ tasks[i].at # "delete" /\ Opens(i)
    BY <1>1, <1>2, <1>3, OpensNone DEF HasShare
  <2> QED
    BY <1>2, <2>3, <2>4, ContinuedInv
<1>4. CASE tasks[i].at = "asking" /\ Judge(i, tasks[i].more, caches, tasks[i].carries)
  <2>1. PICK n \in DOMAIN caches : n = tasks[i].carries
    BY <1>1, <1>4 DEF WorkInv
  <2>2. caches \in Seq(CacheType) /\ Judge(i, tasks[i].more, caches, n)
    BY <1>1, <1>4, <2>1 DEF Typed
  <2>3. /\ SameWork(caches, caches') /\ Kept(caches, caches') /\ AuxKept
        /\ Rejects(i) \/ Accepts(i, n)
    BY ONLY <1>1, i \in DOMAIN tasks, n \in DOMAIN caches, <2>2, Judged
  <2>4. MoreWork(caches, caches')
    BY <2>3 DEF MoreWork, SameWork
  <2>5. jobs' \in [JobIds -> Nat] /\ \A j \in JobIds : jobs[j] <= jobs'[j]
    <3>1. jobs' = jobs /\ jobs \in [JobIds -> Nat]
      BY <1>1, <1>2 DEF Typed
    <3> QED
      BY <3>1
  <2>6. Continued(i)
    BY <1>2, <2>3, <2>4, <2>5 DEF Continued
  <2>7. ~HasShare(tasks[i]) /\ tasks[i].at # "delete" /\ Opens(i)
    BY <1>1, <1>2, <1>4, OpensNone DEF HasShare
  <2> QED
    BY <1>2, <2>6, <2>7, ContinuedInv
<1>5. CASE /\ tasks[i].at = "reply"
           /\ \/ Goes(i, <<[Of(i) EXCEPT !.at = "save"]>>) /\ UNCHANGED <<dropped, aux>>
              \/ Credit(i)
           /\ UNCHANGED <<caches, shares, recorded, finalized>>
  <2>1. HasShare(tasks[i]) /\ UNCHANGED work
    BY <1>2, <1>5 DEF HasShare, work
  <2>2. CASE Goes(i, <<[Of(i) EXCEPT !.at = "save"]>>) /\ UNCHANGED <<dropped, aux>>
    <3>1. PICK at \in {"save", "finalize", "record"} : at = "save"
      OBVIOUS
    <3>2. Carrying(i, tasks[i].carries)
      BY <1>1, <2>1, <2>2, <3>1, GoesCarrying
    <3> QED
      BY <1>2, <1>5, <2>1, <2>2, <3>2, CarryStep
  <2>3. CASE Credit(i)
    BY <1>2, <1>5, <2>1, <2>3, CreditStep
  <2> QED
    BY <1>5, <2>2, <2>3
<1> QED
  BY <1>3, <1>4, <1>5 DEF WriteEnds, Of

LEMMA WriteFailsStep ==
    ASSUME DatumInv, NEW i \in DOMAIN tasks, WriteFails(i)
    PROVE  DatumInv'
<1>1. /\ Throws(i) /\ tasks[i].at \in {"wrote", "asking", "reply"}
      /\ dropped' = IF tasks[i].at = "reply" THEN dropped \cup {tasks[i].carries} ELSE dropped
      /\ UNCHANGED <<mode, heights, client, coinbaser, work, shares, recorded, finalized>>
      /\ UNCHANGED wire
  BY DEF WriteFails, IsWrite, Of, Elsewhere
<1>2. CASE tasks[i].at = "reply"
  BY <1>1, <1>2, DropStep DEF HasShare
<1>3. CASE tasks[i].at # "reply"
  <2>1. PICK s \in {0, 1} : s = 0
    OBVIOUS
  <2>2. wire' = [wire EXCEPT !.opened = @ + s] /\ (s = 1 => tasks[i].at = "next")
    BY <1>1, <2>1, WireIs DEF DatumInv
  <2>3. dropped' = dropped /\ ~HasShare(tasks[i])
    BY <1>1, <1>3 DEF HasShare
  <2> QED
    BY ONLY DatumInv, i \in DOMAIN tasks, <1>1, s \in {0, 1}, <2>2, <2>3, ThrowStep
<1> QED
  BY <1>2, <1>3

(* The row is inserted and its submission goes on, or it is not.             *)
LEMMA InsertRowStep ==
    ASSUME DatumInv, NEW i \in DOMAIN tasks, InsertRow(i)
    PROVE  DatumInv'
<1>1. Typed /\ StreamInv /\ BooksInv /\ RowInv /\ WorkInv /\ PayInv
  BY DEF DatumInv
<1>2. /\ tasks[i].at = "insert" /\ UNCHANGED <<mode, heights, wire, msgs, pows>>
      /\ ~HasShare(tasks[i])
  BY DEF InsertRow, Of, Elsewhere, HasShare
<1>3. CASE /\ rows' = rows + 1 /\ row' = rows + 1 /\ live' = live \cup {rows + 1}
           /\ \E pow \in Pows : Continue(i, tasks[i].more, pow)
  <2>1. Continued(i) /\ Opens(i)
    BY <1>1, <1>2, <1>3, Continues, OpensNone
  <2>2. /\ StreamInv' /\ BooksInv' /\ WorkInv' /\ PayInv' /\ RestTyped'
        /\ MovesOn(i) /\ closed' = closed
        /\ aux'.twice = aux.twice /\ aux'.racing = aux.racing
    BY <1>2, <2>1, ContinuedStep
  <2>3. PICK new : Moved(i, new) /\ \A t \in new : ~Row(t)
    BY <2>2 DEF MovesOn, Going
  <2>4. RowInv' /\ rows' \in Nat /\ row' \in 0..rows' /\ live' \subseteq 1..rows'
    BY ONLY <1>1, <1>2, <1>3, <2>2, <2>3, i \in DOMAIN tasks, RowInserted
  <2> QED
    BY <2>2, <2>4, TypedIs DEF DatumInv, RowTyped
<1>4. CASE Throws(i) /\ UNCHANGED <<client, coinbaser, work, books>>
  <2>1. PICK s \in {0, 1} : s = 0
    OBVIOUS
  <2>2. wire' = [wire EXCEPT !.opened = @ + s] /\ (s = 1 => tasks[i].at = "next")
    BY <1>1, <1>2, <2>1, WireIs
  <2>3. /\ UNCHANGED <<mode, heights, client, coinbaser, work, shares, recorded, finalized>>
        /\ dropped' = dropped /\ ~HasShare(tasks[i])
    BY <1>2, <1>4 DEF books
  <2> QED
    BY ONLY DatumInv, i \in DOMAIN tasks, <1>4, s \in {0, 1}, <2>2, <2>3, ThrowStep
<1> QED
  BY <1>3, <1>4 DEF InsertRow, Of

(* The calls of the database. *)
LEMMA SaveBlockStep ==
    ASSUME DatumInv, NEW i \in DOMAIN tasks, SaveBlock(i)
    PROVE  DatumInv'
<1>1. /\ HasShare(tasks[i]) /\ UNCHANGED <<mode, heights, wire, msgs, pows>>
      /\ UNCHANGED <<client, coinbaser, work, shares, recorded>>
  BY DEF SaveBlock, Elsewhere, Of, HasShare
<1>2. CASE mode = "pplns"
  <2>1. /\ finalized' = finalized \cup {[share |-> tasks[i].carries,
                              snapshot |-> caches[shares[tasks[i].carries].n].ctx]}
        /\ Goes(i, <<[Of(i) EXCEPT !.at = "finalize"]>>) /\ UNCHANGED <<dropped, aux>>
    BY <1>2 DEF SaveBlock, Of
  <2>2. PICK at \in {"save", "finalize", "record"} : at = "finalize"
    OBVIOUS
  <2>3. Carrying(i, tasks[i].carries)
    BY <1>1, <2>1, <2>2, GoesCarrying DEF DatumInv
  <2> QED
    BY <1>1, <1>2, <2>1, <2>3, CarryStep
<1>3. CASE mode # "pplns"
  <2>1. Credit(i) /\ UNCHANGED finalized
    BY <1>3 DEF SaveBlock
  <2> QED
    BY <1>1, <2>1, CreditStep
<1> QED
  BY <1>2, <1>3

LEMMA FinalizeStep ==
    ASSUME DatumInv, NEW i \in DOMAIN tasks, Finalize(i)
    PROVE  DatumInv'
BY CreditStep DEF Finalize, Elsewhere, Of, HasShare

LEMMA CallFailsStep ==
    ASSUME DatumInv, NEW i \in DOMAIN tasks, CallFails(i)
    PROVE  DatumInv'
BY DropStep DEF CallFails, Elsewhere, Of, HasShare

LEMMA RecordStep ==
    ASSUME DatumInv, NEW i \in DOMAIN tasks, Record(i)
    PROVE  DatumInv'
<1>1. Typed /\ StreamInv /\ BooksInv /\ RowInv /\ WorkInv /\ PayInv
  BY DEF DatumInv
<1>2. /\ tasks[i].at = "record" /\ UNCHANGED <<mode, heights, wire, msgs, pows>>
      /\ HasShare(tasks[i])
      /\ UNCHANGED <<client, coinbaser, work, shares, dropped, finalized, aux>>
      /\ recorded' = recorded \cup {tasks[i].carries}
  BY DEF Record, Of, Elsewhere, HasShare
<1>3. PICK new : /\ Going(i, new)
                 /\ \A t \in new : t.at \in {"next", "wrote", "touch"}
                 /\ (\A t \in new : ~Row(t)) \/ (row # 0 /\ Touching(i))
  <2>1. CASE Goes(i, Rest(tasks[i].more))
    <3>1. PICK new : Going(i, new) /\ \A t \in new : t.at \in {"next", "wrote"}
      BY <1>1, <2>1, GoesRest DEF Quiet
    <3> QED
      BY <3>1 DEF Row
  <2>2. CASE row # 0 /\ Goes(i, <<Waits("touch", tasks[i].more, row)>>)
    <3>1. PICK at \in Awaited, n \in Nat : at = "touch" /\ n = row
      BY <1>1 DEF Awaited, Typed
    <3>2. GoesTo(i, at, n)
      BY <2>2, <3>1 DEF GoesTo
    <3>3. Typed
      BY <1>1
    <3>4. WentTo(i, at, n)
      BY ONLY <3>3, i \in DOMAIN tasks, at \in Awaited, n \in Nat, <3>2, GoesWaiting
    <3>5. PICK t : Going(i, {t}) /\ t.at = "touch" /\ t.carries = row
      BY <3>1, <3>4 DEF WentTo
    <3>6. Touching(i)
      BY <3>5 DEF Touching
    <3> QED
      BY <2>2, <3>5, <3>6
  <2> QED
    BY <2>1, <2>2 DEF Record, Of
<1>4. /\ Moved(i, new) /\ tasks' \in Seq(TaskType) /\ UNCHANGED stream
      /\ \A t \in new : t.at # "asking" /\ ~HasShare(t)
  BY <1>3 DEF Going, Moved, HasShare
<1>5. Opens(i) /\ aux'.overlapped = aux.overlapped /\ Rowed /\ closed' = closed
  BY <1>1, <1>2, <1>4, OpensNone DEF Rowed, stream
<1>6. StreamInv' /\ wire' \in WireType
  BY ONLY <1>1, <1>3, <1>5, i \in DOMAIN tasks, StreamGoing
<1>7. RowInv'
  <2>1. tasks[i].at # "delete"
    BY <1>2
  <2>2. CASE \A t \in new : ~Row(t)
    BY ONLY <1>1, <1>4, <1>5, <2>1, <2>2, i \in DOMAIN tasks, RowMoved
  <2>3. CASE row # 0 /\ Touching(i)
    BY ONLY <1>1, <1>5, <2>1, <2>3, i \in DOMAIN tasks, RowTouching
  <2> QED
    BY <1>3, <2>2, <2>3
<1>8. BooksInv' /\ recorded' \subseteq DOMAIN shares' /\ dropped' \subseteq DOMAIN shares'
  <2>1. UNCHANGED shares /\ UNCHANGED <<dropped, closed>>
    BY <1>2, <1>5
  <2> QED
    BY ONLY <1>1, <1>2, <1>4, <2>1, i \in DOMAIN tasks, BooksDone
<1>9. UNCHANGED work
  BY <1>2
<1>10. WorkInv'
  BY ONLY <1>1, <1>4, <1>9, WorkSame
<1>11. /\ Kept(caches, caches') /\ UNCHANGED <<mode, contexts, nextId, shares, finalized>>
       /\ aux' = aux
  BY <1>2 DEF Kept, work, coinbaser
<1>12. PayInv'
  BY ONLY <1>1, <1>11, PayKept
<1>13. Latest' \in 1..MaxTemplates /\ heights' \in Seq(Nat) /\ Latest' = Latest
  BY <1>1, <1>2, LatestStays
<1>14. RestTyped'
  BY <1>1, <1>2, <1>4, <1>6, <1>8, <1>9, <1>11, <1>13 DEF RestTyped, Typed, work, stream
<1>15. RowTyped'
  BY <1>1, <1>2, RowStays
<1> QED
  BY <1>6, <1>7, <1>8, <1>10, <1>12, <1>14, <1>15, TypedIs DEF DatumInv

LEMMA TouchRowStep ==
    ASSUME DatumInv, NEW i \in DOMAIN tasks, TouchRow(i)
    PROVE  DatumInv'
<1>1. Typed /\ StreamInv /\ BooksInv /\ RowInv /\ WorkInv /\ PayInv
  BY DEF DatumInv
<1>2. /\ tasks[i].at = "touch" /\ UNCHANGED <<mode, heights, wire, msgs, pows>>
      /\ ~HasShare(tasks[i]) /\ live' = live \cup {tasks[i].carries}
      /\ Goes(i, Rest(tasks[i].more))
      /\ UNCHANGED <<row, rows, coinbaser, work, books, aux>>
  BY DEF TouchRow, Of, Elsewhere, HasShare
<1>3. Quiet(i)
  BY <1>1, <1>2, GoesRest
<1>4. Continued(i) /\ Opens(i)
  BY <1>1, <1>2, <1>3, QuietIs, OpensNone
<1>5. /\ StreamInv' /\ BooksInv' /\ WorkInv' /\ PayInv' /\ RestTyped'
      /\ MovesOn(i) /\ closed' = closed
      /\ aux'.twice = aux.twice /\ aux'.racing = aux.racing
  BY <1>2, <1>4, ContinuedStep
<1>6. PICK new : Moved(i, new) /\ \A t \in new : ~Row(t)
  BY <1>5 DEF MovesOn, Going
<1>7. RowInv' /\ live' \subseteq 1..rows'
  BY ONLY <1>1, <1>2, <1>5, <1>6, i \in DOMAIN tasks, RowTouched
<1>8. RowTyped'
  BY <1>1, <1>2, <1>7 DEF RowTyped, Typed
<1> QED
  BY <1>5, <1>7, <1>8, TypedIs DEF DatumInv

LEMMA DeleteRowStep ==
    ASSUME DatumInv, NEW i \in DOMAIN tasks, DeleteRow(i)
    PROVE  DatumInv'
<1>1. Typed /\ StreamInv /\ BooksInv /\ RowInv /\ WorkInv /\ PayInv
  BY DEF DatumInv
<1>2. /\ tasks[i].at = "delete" /\ UNCHANGED <<mode, heights, wire, msgs, pows>>
      /\ ~HasShare(tasks[i]) /\ live' = live \ {tasks[i].carries} /\ row' = 0
      /\ Goes(i, << >>) /\ UNCHANGED <<rows, coinbaser, work, books, aux>>
  BY DEF DeleteRow, Of, Elsewhere, HasShare
<1>3. Moved(i, {}) /\ UNCHANGED stream
  BY <1>1, <1>2, GoesNone
<1>4. Left(i) = 0
  BY <1>1, <1>2 DEF StreamInv, Left
<1>5. Going(i, {})
  BY <1>3, <1>4 DEF Going
<1>6. Quiet(i)
  BY <1>5 DEF Quiet
<1>7. Continued(i) /\ Opens(i)
  BY <1>1, <1>2, <1>6, QuietIs, OpensNone
<1>8. /\ StreamInv' /\ BooksInv' /\ WorkInv' /\ PayInv' /\ RestTyped'
      /\ closed' = closed /\ aux'.twice = aux.twice /\ aux'.racing = aux.racing
  BY <1>2, <1>7, ContinuedStep
<1>9. RowInv' /\ live' \subseteq 1..rows' /\ row' \in 0..rows'
  BY ONLY <1>1, <1>2, <1>3, <1>8, i \in DOMAIN tasks, RowDeleted
<1>10. RowTyped'
  BY <1>1, <1>2, <1>9 DEF RowTyped, Typed
<1> QED
  BY <1>8, <1>9, <1>10, TypedIs DEF DatumInv

-----------------------------------------------------------------------------
(* What happens when no handler is due. *)

LEMMA HelloStep ==
    ASSUME DatumInv, Hello
    PROVE  DatumInv'
<1>1. Typed /\ StreamInv /\ BooksInv /\ RowInv /\ WorkInv /\ PayInv
  BY DEF DatumInv
<1>2. /\ wire' = [wire EXCEPT !.hello = TRUE]
      /\ UNCHANGED <<mode, heights, tasks, stream, client, coinbaser, work, books, msgs, pows, aux>>
  BY DEF Hello
<1>3. /\ wire' \in WireType /\ wire'.read = wire.read /\ wire'.opened = wire.opened
      /\ wire'.garbled = wire.garbled
  BY <1>1, <1>2 DEF Typed, WireType
<1>4. /\ mode' = mode /\ heights' = heights /\ tasks' = tasks /\ socket' = socket
      /\ closed' = closed /\ row' = row /\ live' = live /\ rows' = rows /\ contexts' = contexts
      /\ nextId' = nextId /\ caches' = caches /\ jobs' = jobs /\ asked' = asked
      /\ shares' = shares /\ recorded' = recorded /\ dropped' = dropped
      /\ finalized' = finalized /\ aux' = aux
  BY <1>2 DEF stream, client, coinbaser, work, books
<1>5. Typed'
  BY <1>1, <1>3, <1>4 DEF Typed, Latest
<1>6. StreamInv'
  BY <1>1, <1>3, <1>4 DEF StreamInv, Busy
<1>7. BooksInv'
  BY <1>1, <1>4 DEF BooksInv, Carried
<1>8. RowInv'
  BY <1>1, <1>4 DEF RowInv, Deleting
<1>9. WorkInv'
  BY <1>1, <1>4 DEF WorkInv, VerdictIsItsOwn
<1>10. PayInv'
  BY <1>1, <1>4 DEF PayInv, SlotOf, PaysOwn
<1> QED
  BY <1>5, <1>6, <1>7, <1>8, <1>9, <1>10 DEF DatumInv

LEMMA LoseSocketStep ==
    ASSUME DatumInv, LoseSocket
    PROVE  DatumInv'
<1>1. Typed /\ StreamInv /\ BooksInv /\ RowInv /\ WorkInv /\ PayInv
  BY DEF DatumInv
<1>2. /\ socket' = "gone"
      /\ mode' = mode /\ heights' = heights /\ tasks' = tasks /\ wire' = wire
      /\ closed' = closed /\ row' = row /\ live' = live /\ rows' = rows /\ contexts' = contexts
      /\ nextId' = nextId /\ caches' = caches /\ jobs' = jobs /\ asked' = asked
      /\ shares' = shares /\ recorded' = recorded /\ dropped' = dropped
      /\ finalized' = finalized /\ aux' = aux
  BY DEF LoseSocket, client, coinbaser, work, books
<1>3. Typed'
  BY <1>1, <1>2 DEF Typed, Latest
<1>4. StreamInv'
  BY <1>1, <1>2 DEF StreamInv, Busy
<1>5. BooksInv'
  BY <1>1, <1>2 DEF BooksInv, Carried
<1>6. RowInv'
  BY <1>1, <1>2 DEF RowInv, Deleting
<1>7. WorkInv'
  BY <1>1, <1>2 DEF WorkInv, VerdictIsItsOwn
<1>8. PayInv'
  BY <1>1, <1>2 DEF PayInv, SlotOf, PaysOwn
<1> QED
  BY <1>3, <1>4, <1>5, <1>6, <1>7, <1>8 DEF DatumInv

LEMMA NewTemplateStep ==
    ASSUME DatumInv, NEW height \in {heights[Latest], heights[Latest] + 1}, NewTemplate(height)
    PROVE  DatumInv'
<1>1. Typed /\ StreamInv /\ BooksInv /\ RowInv /\ WorkInv /\ PayInv
  BY DEF DatumInv
<1>2. /\ heights' = Append(heights, height) /\ Latest < MaxTemplates
      /\ mode' = mode /\ socket' = socket /\ tasks' = tasks /\ wire' = wire
      /\ closed' = closed /\ row' = row /\ live' = live /\ rows' = rows /\ contexts' = contexts
      /\ nextId' = nextId /\ caches' = caches /\ jobs' = jobs /\ asked' = asked
      /\ shares' = shares /\ recorded' = recorded /\ dropped' = dropped
      /\ finalized' = finalized /\ aux' = aux
  BY DEF NewTemplate, stream, client, coinbaser, work, books
<1>3. PICK l \in Nat, m \in Nat : l = Latest /\ m = MaxTemplates
  BY <1>1, DatumSessionAssumption DEF Typed
<1>4. l \in 1..m /\ l < m /\ DOMAIN heights = 1..l
  BY <1>1, <1>2, <1>3, LenProperties DEF Typed, Latest
<1>5. height \in Nat
  <2>1. heights[Latest] \in Nat
    BY <1>1, <1>3, <1>4, ElementOfSeq DEF Typed, Latest
  <2> QED
    BY <2>1
<1>6. heights' \in Seq(Nat) /\ Latest' = l + 1
  BY <1>1, <1>2, <1>3, <1>5, AfterAppend DEF Typed, Latest
<1>7. Latest' \in 1..MaxTemplates
  BY <1>3, <1>4, <1>6
<1>8. contexts' \in [1..MaxIds -> 0..Latest']
  <2>1. contexts \in [1..MaxIds -> 0..l] /\ 0..l \subseteq 0..(l + 1)
    BY <1>1, <1>3 DEF Typed
  <2> QED
    BY <1>2, <1>6, <2>1
<1>9. Typed'
  BY <1>1, <1>2, <1>6, <1>7, <1>8 DEF Typed
<1>10. StreamInv'
  BY <1>1, <1>2 DEF StreamInv, Busy
<1>11. BooksInv'
  BY <1>1, <1>2 DEF BooksInv, Carried
<1>12. RowInv'
  BY <1>1, <1>2 DEF RowInv, Deleting
<1>13. WorkInv'
  BY <1>1, <1>2 DEF WorkInv, VerdictIsItsOwn
<1>14. PayInv'
  BY <1>1, <1>2 DEF PayInv, SlotOf, PaysOwn
<1> QED
  BY <1>9, <1>10, <1>11, <1>12, <1>13, <1>14 DEF DatumInv

LEMMA OnCloseStep ==
    ASSUME DatumInv, OnClose
    PROVE  DatumInv'
<1>1. Shut(0)
  BY CloseShuts DEF DatumInv
<1>2. /\ UNCHANGED <<mode, heights, client, coinbaser, work, shares, recorded, finalized>>
      /\ dropped' = dropped /\ UNCHANGED wire
  BY DEF OnClose, books
<1>3. PICK i, s \in {0, 1} : i = 0 /\ s = 0
  OBVIOUS
<1>4. wire' = [wire EXCEPT !.opened = @ + s]
  BY <1>2, <1>3, WireIs DEF DatumInv
<1>5. i \notin DOMAIN tasks
  BY <1>3, LenProperties DEF DatumInv, Typed
<1>6. Shut(i) /\ (s = 1 => i \in DOMAIN tasks /\ tasks[i].at = "next")
  BY <1>1, <1>3
<1>7. dropped' = dropped /\ (i \in DOMAIN tasks => ~HasShare(tasks[i]))
  BY <1>2, <1>5
<1> QED
  BY ONLY DatumInv, s \in {0, 1}, <1>2, <1>4, <1>6, <1>7, ShutStep

-----------------------------------------------------------------------------
(* A piece of data arrives. *)

(* A piece is read when nothing is left of those before it, or while one has *)
(* a frame left.                                                             *)
LEMMA PieceIsNext ==
    ASSUME Typed, StreamInv, First = {}, NEW more \in BOOLEAN, Piece(more)
    PROVE  \/ Key = wire.read + 1 /\ \A i \in DOMAIN tasks : ~Busy(i)
           \/ Key # wire.read + 1 /\ \E i \in DOMAIN tasks : tasks[i].more
<1>1. socket = "open"
  BY DEF Piece
<1>2. PICK r \in Nat, o \in Nat : r = wire.read /\ o = wire.opened
  BY DEF Typed, WireType
<1>3. Key = o + 1
  BY <1>2 DEF Key
<1>4. CASE \E i \in DOMAIN tasks : Busy(i)
  <2>1. PICK i \in DOMAIN tasks : Busy(i)
    BY <1>4
  <2>2. tasks[i].at # "next"
    BY DEF First, Of
  <2>3. tasks[i].more /\ FramesOf(tasks[i]) = 1
    BY <2>1, <2>2 DEF Busy, FramesOf
  <2>4. o + 1 = r
    BY <1>1, <1>2, <2>1, <2>3 DEF StreamInv
  <2> QED
    BY <1>2, <1>3, <2>3, <2>4
<1>5. CASE \A i \in DOMAIN tasks : ~Busy(i)
  <2>1. o = r
    BY <1>1, <1>2, <1>5 DEF StreamInv
  <2> QED
    BY <1>2, <1>3, <1>5, <2>1
<1> QED
  BY <1>4, <1>5

(* The stream once a piece of one frame or two is read.                      *)
LEMMA StreamRead ==
    ASSUME Typed, StreamInv, socket = "open", \A i \in DOMAIN tasks : ~Busy(i),
           NEW more \in BOOLEAN, NEW t, t = Waits("next", more, 0), Moved(0, {t}),
           wire' = [wire EXCEPT !.read = @ + (IF more THEN 2 ELSE 1)],
           UNCHANGED stream, aux.overlapped => aux'.overlapped
    PROVE  StreamInv' /\ wire' \in WireType
<1>1. PICK f : /\ \A k \in DOMAIN tasks' :
                     \/ f[k] = 0 /\ tasks'[k] \in {t}
                     \/ f[k] \in DOMAIN tasks /\ f[k] # 0 /\ tasks'[k] = tasks[f[k]]
               /\ \A k, l \in DOMAIN tasks' : f[k] = f[l] => k = l
               /\ \A x \in {t} : \E k \in DOMAIN tasks' : tasks'[k] = x
  BY ONLY Typed, Moved(0, {t}), Origin
<1>2. PICK s \in {1, 2} : s = IF more THEN 2 ELSE 1
  OBVIOUS
<1>3. FramesOf(t) = s /\ t.at # "delete"
  BY <1>2 DEF FramesOf, Waits
<1>4. PICK r \in Nat, o \in Nat, r2 \in Nat : r = wire.read /\ o = wire.opened /\ r2 = r + s
  BY <1>2 DEF Typed, WireType
<1>5. wire' = [wire EXCEPT !.read = r2]
  BY <1>2, <1>4
<1>6. /\ wire' \in WireType /\ wire'.read = r2 /\ wire'.opened = o
      /\ wire'.garbled = wire.garbled
  BY <1>4, <1>5 DEF Typed, WireType
<1>7. o = r
  BY <1>4 DEF StreamInv
<1>8. \A k \in DOMAIN tasks' : FramesOf(tasks'[k]) > 0 => f[k] = 0 /\ tasks'[k] = t
  BY <1>1 DEF Busy
<1>9. \A k, l \in DOMAIN tasks' :
         FramesOf(tasks'[k]) > 0 /\ FramesOf(tasks'[l]) > 0 => k = l
  BY <1>1, <1>8
<1>10. o <= r2 /\ o + s = r2
  BY <1>2, <1>4, <1>7
<1>11. \A k \in DOMAIN tasks' : FramesOf(tasks'[k]) > 0 => o + FramesOf(tasks'[k]) = r2
  BY <1>3, <1>8, <1>10
<1>12. r2 <= r2
  BY <1>4
<1>13. \E k \in DOMAIN tasks' : FramesOf(tasks'[k]) > 0
  BY <1>1, <1>2, <1>3
<1>14. \A k \in DOMAIN tasks' : tasks'[k].at = "delete" => ~tasks'[k].more
  BY <1>1, <1>3 DEF StreamInv
<1>15. socket' = socket /\ closed' = closed
  BY DEF stream
<1>16. (closed # "no" => socket = "gone") /\ (wire.garbled => aux'.overlapped)
  BY DEF StreamInv
<1> QED
  BY <1>6, <1>9, <1>10, <1>11, <1>12, <1>13, <1>14, <1>15, <1>16 DEF StreamInv, Busy

LEMMA PieceStep ==
    ASSUME DatumInv, First = {}, NEW more \in BOOLEAN, Piece(more)
    PROVE  DatumInv'
<1>1. Typed /\ StreamInv /\ BooksInv /\ RowInv /\ WorkInv /\ PayInv
  BY DEF DatumInv
<1>2. /\ socket = "open" /\ UNCHANGED stream
      /\ mode' = mode /\ heights' = heights
      /\ closed' = closed /\ row' = row /\ live' = live /\ rows' = rows /\ contexts' = contexts
      /\ nextId' = nextId /\ caches' = caches /\ jobs' = jobs /\ asked' = asked
      /\ shares' = shares /\ recorded' = recorded /\ dropped' = dropped
      /\ finalized' = finalized /\ socket' = socket
  BY DEF Piece, stream, client, coinbaser, work, books
<1>3. closed = "no"
  BY <1>1, <1>2 DEF StreamInv
<1>4. PICK b \in BOOLEAN : b = (aux.overlapped \/ \E i \in DOMAIN tasks : tasks[i].more)
  BY <1>1 DEF Typed, AuxType
<1>5. aux' = [aux EXCEPT !.overlapped = b]
  BY <1>4 DEF Piece
<1>6. /\ aux' \in AuxType /\ aux'.overlapped = b /\ aux'.racing = aux.racing
      /\ aux'.twice = aux.twice /\ aux'.issued = aux.issued
      /\ aux'.refused = aux.refused /\ aux'.mixed = aux.mixed
  BY <1>1, <1>5 DEF Typed, AuxType
<1>7. CASE Key = wire.read + 1
  <2>1. \A i \in DOMAIN tasks : ~Busy(i)
    BY <1>1, <1>7, PieceIsNext
  <2>2. PICK t : t = Waits("next", more, 0)
    OBVIOUS
  <2>3. t \in TaskType
    BY <2>2, WaitsIs
  <2>4. /\ tasks' = Append(tasks, t)
        /\ wire' = [wire EXCEPT !.read = @ + (IF more THEN 2 ELSE 1)]
    BY <1>7, <2>2 DEF Piece
  <2>5. Moved(0, {t})
    <3>1. tasks \in Seq(TaskType) /\ Puttable(tasks, 0, {}, tasks)
      BY <1>1, UnputAll DEF Typed
    <3> QED
      BY <2>3, <2>4, <3>1, AddedTo DEF Moved
  <2>6. StreamInv' /\ wire' \in WireType
    <3>1. aux.overlapped => aux'.overlapped
      BY <1>4, <1>6
    <3> QED
      BY ONLY <1>1, <1>2, <2>1, <2>2, <2>4, <2>5, <3>1, more \in BOOLEAN, StreamRead
  <2>7. \A x \in {t} : ~Row(x) /\ ~HasShare(x) /\ x.at # "asking"
    BY <2>2 DEF Waits, Row, HasShare
  <2>8. PICK i : i = 0
    OBVIOUS
  <2>9. Moved(i, {t}) /\ (i \in DOMAIN tasks => ~HasShare(tasks[i]))
    <3>1. i \notin DOMAIN tasks
      BY <1>1, <2>8, LenProperties DEF Typed
    <3> QED
      BY <2>5, <2>8, <3>1
  <2>10. Rowed /\ Entered /\ UNCHANGED work /\ (closed # "no" => closed' # "no")
    BY <1>2, <1>6 DEF Rowed, Entered, work, client
  <2>11. BooksInv'
    BY ONLY <1>1, <2>7, <2>9, <2>10, BooksQuiet
  <2>12. RowInv'
    BY ONLY <1>1, <1>2, <1>3, <2>7, <2>9, <2>10, RowMoved
  <2>13. WorkInv'
    BY ONLY <1>1, <2>7, <2>9, <2>10, WorkSame
  <2>14. PayInv'
    <3>1. Kept(caches, caches') /\ UNCHANGED <<mode, contexts, nextId, shares, finalized>>
      BY <1>2, <1>6 DEF Kept
    <3> QED
      BY ONLY <1>1, <1>6, <3>1, PayKept
  <2>15. tasks' \in Seq(TaskType)
    BY <2>5 DEF Moved
  <2>16. Typed'
    BY <1>1, <1>2, <1>6, <2>6, <2>15 DEF Typed, Latest
  <2> QED
    BY <2>6, <2>11, <2>12, <2>13, <2>14, <2>16 DEF DatumInv
<1>8. CASE Key # wire.read + 1
  <2>1. b
    BY <1>1, <1>4, <1>8, PieceIsNext
  <2>2. wire' = [wire EXCEPT !.garbled = TRUE] /\ tasks' = tasks
    BY <1>8 DEF Piece
  <2>3. wire' \in WireType /\ wire'.read = wire.read /\ wire'.opened = wire.opened
    BY <1>1, <2>2 DEF Typed, WireType
  <2>4. Typed'
    BY <1>1, <1>2, <1>6, <2>2, <2>3 DEF Typed, Latest
  <2>5. StreamInv'
    BY <1>1, <1>2, <1>6, <2>1, <2>2, <2>3 DEF StreamInv, Busy
  <2>6. BooksInv'
    BY <1>1, <1>2, <2>2 DEF BooksInv, Carried
  <2>7. RowInv'
    BY <1>1, <1>2, <1>6, <2>2 DEF RowInv, Deleting
  <2>8. WorkInv'
    BY <1>1, <1>2, <2>2 DEF WorkInv, VerdictIsItsOwn
  <2>9. PayInv'
    BY <1>1, <1>2, <1>6 DEF PayInv, SlotOf, PaysOwn
  <2> QED
    BY <2>4, <2>5, <2>6, <2>7, <2>8, <2>9 DEF DatumInv
<1> QED
  BY <1>7, <1>8

-----------------------------------------------------------------------------
(* The invariant. *)

LEMMA DatumInit == Init => DatumInv
<1> SUFFICES ASSUME Init
             PROVE  DatumInv
  OBVIOUS
<1> USE DatumSessionAssumption DEF Init
<1>1. DOMAIN << >> = {}
  OBVIOUS
<1>2. /\ mode \in {"solo", "pplns"} /\ heights = <<1>> /\ Latest = 1
      /\ socket = "open" /\ closed = "no" /\ row = 0 /\ live = {} /\ rows = 0
      /\ nextId = 1 /\ contexts = [id \in 1..MaxIds |-> 0]
      /\ caches = << >> /\ jobs = [j \in JobIds |-> 0] /\ asked = {} /\ tasks = << >>
      /\ shares = << >> /\ recorded = {} /\ dropped = {} /\ finalized = {}
  BY DEF Latest
<1>3. /\ wire \in WireType /\ wire.read = 0 /\ wire.opened = 0 /\ ~wire.garbled
  BY DEF WireType
<1>4. /\ aux \in AuxType /\ aux.issued = << >> /\ aux.refused = {} /\ aux.mixed = {}
  BY DEF AuxType
<1>5. 1 \in 1..MaxTemplates /\ 1 \in 1..MaxIds /\ 0 \in 0..0
  OBVIOUS
<1>6. heights \in Seq(Nat) /\ caches \in Seq(CacheType) /\ tasks \in Seq(TaskType)
      /\ shares \in Seq(ShareType)
  BY <1>2
<1>7. contexts \in [1..MaxIds -> 0..Latest] /\ jobs \in [JobIds -> Nat]
  BY <1>2
<1>8. rows \in Nat /\ row \in 0..rows /\ live \subseteq 1..rows
  BY <1>2
<1> USE ONLY DatumSessionAssumption
<1>9. Typed
  BY <1>2, <1>3, <1>4, <1>5, <1>6, <1>7, <1>8 DEF Typed
<1>10. StreamInv
  BY <1>1, <1>2, <1>3 DEF StreamInv
<1>11. BooksInv
  BY <1>1, <1>2 DEF BooksInv
<1>12. RowInv
  BY <1>1, <1>2 DEF RowInv
<1>13. WorkInv
  BY <1>1, <1>2 DEF WorkInv, VerdictIsItsOwn
<1>14. PayInv
  <2>1. \A d \in 1..MaxIds : ~(d <= Len(aux.issued))
    BY <1>4
  <2> QED
    BY <1>1, <1>2, <1>4, <2>1 DEF PayInv
<1> QED
  BY <1>9, <1>10, <1>11, <1>12, <1>13, <1>14 DEF DatumInv

LEMMA DatumStutter ==
    ASSUME DatumInv, UNCHANGED vars
    PROVE  DatumInv'
<1>1. Typed /\ StreamInv /\ BooksInv /\ RowInv /\ WorkInv /\ PayInv
  BY DEF DatumInv
<1>2. /\ mode' = mode /\ heights' = heights /\ tasks' = tasks /\ socket' = socket
      /\ closed' = closed /\ row' = row /\ live' = live /\ rows' = rows /\ contexts' = contexts
      /\ nextId' = nextId /\ caches' = caches /\ jobs' = jobs /\ asked' = asked
      /\ shares' = shares /\ recorded' = recorded /\ dropped' = dropped
      /\ finalized' = finalized /\ aux' = aux /\ wire' = wire
  BY DEF vars, stream, client, coinbaser, work, books
<1>3. Typed' /\ StreamInv'
  BY <1>1, <1>2 DEF Typed, Latest, StreamInv, Busy
<1>4. BooksInv' /\ RowInv'
  BY <1>1, <1>2 DEF BooksInv, Carried, RowInv, Deleting
<1>5. WorkInv' /\ PayInv'
  BY <1>1, <1>2 DEF WorkInv, VerdictIsItsOwn, PayInv, SlotOf, PaysOwn
<1> QED
  BY <1>3, <1>4, <1>5 DEF DatumInv

LEMMA WakesStep ==
    ASSUME DatumInv, NEW i \in DOMAIN tasks, Wakes(i)
    PROVE  DatumInv'
<1>1. CASE WriteEnds(i)
  BY <1>1, WriteEndsStep
<1>2. CASE WriteFails(i)
  BY <1>2, WriteFailsStep
<1>3. CASE InsertRow(i)
  BY <1>3, InsertRowStep
<1>4. CASE SaveBlock(i)
  BY <1>4, SaveBlockStep
<1>5. CASE Finalize(i)
  BY <1>5, FinalizeStep
<1>6. CASE CallFails(i)
  BY <1>6, CallFailsStep
<1>7. CASE Record(i)
  BY <1>7, RecordStep
<1>8. CASE TouchRow(i)
  BY <1>8, TouchRowStep
<1>9. CASE DeleteRow(i)
  BY <1>9, DeleteRowStep
<1> QED
  BY <1>1, <1>2, <1>3, <1>4, <1>5, <1>6, <1>7, <1>8, <1>9 DEF Wakes

LEMMA DatumStep == DatumInv /\ [Next]_vars => DatumInv'
<1> SUFFICES ASSUME DatumInv, [Next]_vars
             PROVE  DatumInv'
  OBVIOUS
<1>1. CASE \E i \in First : Frame(i) \/ WriteEnds(i)
  <2>1. PICK i \in DOMAIN tasks : Frame(i) \/ WriteEnds(i)
    BY <1>1 DEF First
  <2> QED
    BY <2>1, FrameStep, WriteEndsStep
<1>2. CASE First = {} /\ Hello
  BY <1>2, HelloStep
<1>3. CASE First = {} /\ \E more \in BOOLEAN : Piece(more)
  BY <1>3, PieceStep
<1>4. CASE \E i \in DOMAIN tasks : Wakes(i)
  BY <1>4, WakesStep
<1>5. CASE \E height \in {heights[Latest], heights[Latest] + 1} : NewTemplate(height)
  BY <1>5, NewTemplateStep
<1>6. CASE LoseSocket
  BY <1>6, LoseSocketStep
<1>7. CASE OnClose
  BY <1>7, OnCloseStep
<1>8. CASE UNCHANGED vars
  BY <1>8, DatumStutter
<1> QED
  BY <1>1, <1>2, <1>3, <1>4, <1>5, <1>6, <1>7, <1>8 DEF Next

LEMMA DatumInvariance == Spec => []DatumInv
BY DatumInit, DatumStep, PTL DEF Spec

-----------------------------------------------------------------------------
(* What a session's shares and its row are, in every state of the invariant. *)
LEMMA SessionIs ==
    ASSUME DatumInv
    PROVE  SessionInv
<1>1. Typed /\ StreamInv /\ BooksInv /\ RowInv /\ WorkInv /\ PayInv
  BY DEF DatumInv
<1>2. TypeOK
  <2>1. /\ live \subseteq 1..rows /\ row \in 0..rows /\ nextId \in 1..MaxIds
        /\ contexts \in [1..MaxIds -> 0..Latest] /\ caches \in Seq(CacheType)
        /\ recorded \cup dropped \subseteq DOMAIN shares
    BY <1>1 DEF Typed
  <2>2. \A i \in DOMAIN tasks :
           /\ tasks[i].at \in {"next", "wrote", "asking", "reply", "insert", "save",
                               "finalize", "record", "touch", "delete"}
           /\ tasks[i].ready \in BOOLEAN
    BY <1>1, TaskIs DEF TaskType
  <2>3. wire.opened <= wire.read
    BY <1>1 DEF StreamInv
  <2>4. \A j \in JobIds : jobs[j] # 0 => caches[jobs[j]].job = j
    BY <1>1 DEF WorkInv
  <2>5. recorded \cap dropped = {}
    BY <1>1 DEF BooksInv
  <2> QED
    BY <2>1, <2>2, <2>3, <2>4, <2>5 DEF TypeOK
<1>3. AcceptedIsRecorded
  <2>1. \A n \in DOMAIN shares : \/ n \in recorded \/ n \in dropped
                                 \/ \E i \in DOMAIN tasks :
                                       /\ tasks[i].at \in {"reply", "save", "finalize", "record"}
                                       /\ tasks[i].carries = n
    BY <1>1 DEF BooksInv, Carried, HasShare
  <2>2. dropped # {} => closed # "no"
    BY <1>1 DEF BooksInv
  <2> QED
    BY <2>1, <2>2 DEF AcceptedIsRecorded
<1>4. OneRowWhileConnected
  <2>1. ASSUME ~aux.twice, ~aux.racing
        PROVE  Cardinality(live) \in {0, 1}
    <3>1. live = {} \/ live = {row}
      BY <1>1, <2>1 DEF RowInv
    <3> QED
      BY <3>1, FS_EmptySet, FS_Singleton
  <2>2. \A n \in {0, 1} : ~(n > 1)
    OBVIOUS
  <2>3. Cardinality(live) > 1 => aux.twice \/ aux.racing
    BY <2>1, <2>2
  <2>4. closed = "event" /\ tasks = << >> /\ ~aux.racing /\ ~aux.twice => live = {}
    BY <1>1 DEF RowInv
  <2> QED
    BY <2>3, <2>4 DEF OneRowWhileConnected
<1> QED
  BY <1>2, <1>3, <1>4 DEF SessionInv

LEMMA PayoutsAre ==
    ASSUME DatumInv
    PROVE  PayoutsAgree
<1>1. PayInv
  BY DEF DatumInv
<1>2. SnapshotIsPaid
  BY <1>1 DEF PayInv, PaysOwn, SnapshotIsPaid
<1>3. IssuedIsTaken
  BY <1>1 DEF PayInv, IssuedIsTaken
<1> QED
  BY <1>2, <1>3 DEF PayoutsAgree

(* However pieces of data, writes and calls of the database overlap, an      *)
(* accepted share is recorded or dropped by a failure that closes the        *)
(* session, never both, and a session has one row and leaves none, but for   *)
(* two inserts at a time or a close with a handler under way.                *)
THEOREM SharesAndRowAreKept == Spec => []SessionInv
<1>1. DatumInv => SessionInv
  BY SessionIs
<1> QED
  BY <1>1, DatumInvariance, PTL

(* A header is garbled only if data came with a frame left to handle: a      *)
(* handler of a single frame, however long it waits, garbles none.           *)
THEOREM StreamIsReadInStep == Spec => []ReadInStep
<1>1. DatumInv => ReadInStep
  BY DEF DatumInv, StreamInv, ReadInStep
<1> QED
  BY <1>1, DatumInvariance, PTL

(* The snapshot that is finalized for a block is the one its coinbase pays,  *)
(* unless another submission changed the job's context, and no coinbase that *)
(* pays what was handed out in the last MaxIds fetches is refused.           *)
THEOREM PayoutsAreAgreed == Spec => []PayoutsAgree
<1>1. DatumInv => PayoutsAgree
  BY PayoutsAre
<1> QED
  BY <1>1, DatumInvariance, PTL

(* A job fails only on an answer about itself, or about one its id had       *)
(* before, whatever the order of requests, answers and new jobs.             *)
THEOREM VerdictsAreTheirOwn == Spec => []VerdictIsItsOwn
<1>1. DatumInv => VerdictIsItsOwn
  BY DEF DatumInv, WorkInv
<1> QED
  BY <1>1, DatumInvariance, PTL
=============================================================================
