------------------------- MODULE StratumV2WorkProofs -------------------------
(***************************************************************************)
(* Proofs about what the channels of a StratumV2Session work on, from      *)
(* HoldsInv of StratumV2SessionProofs: a miner at rest works on the tip,   *)
(* for any connections, channels and templates.                            *)
(*                                                                         *)
(* Several loops go over the channels of a session at a time, those of the *)
(* subscriber of templates, one for each template, and those of the timer, *)
(* and an opening handler sends the new channel its first job.  A loop     *)
(* waits for each of its frames, so the loops under way are the frames of  *)
(* theirs that wait in the session's writes, which end in order.           *)
(*                                                                         *)
(* Ordered says that a late frame, one that will leave a channel with a    *)
(* template off the tip, has a loop with one of the tip and its previous   *)
(* hash behind it: behind it in the queue and not further in the channels, *)
(* or before it in the queue and less far.  Well says that a channel has   *)
(* the tip, is being opened, or has such a loop or such a first job before *)
(* it.  A block that comes makes all late at once and begins a loop of its *)
(* own behind them.  At rest nothing waits, so each channel has the tip.   *)
(* The tip stands here for what the pool takes for it, the templates since *)
(* the last with clearJobs (OfBlock): work on one of them is not Stale.    *)
(***************************************************************************)
EXTENDS StratumV2SessionProofs

-----------------------------------------------------------------------------
(* Frames and loops.  T stands for the templates of the tip, O for the open *)
(* channels, W for the frames that wait: <<place in the queue, task>>.      *)

Tips(h) == {t \in 1..Len(h) : h[t] = h[Len(h)]}

IsJob(task) == task.at \in {"job", "active"}
IsLoop(task) == IsJob(task) /\ task.then.kind # "open"

(* How far a loop has got, two steps to a channel: it has still to work on  *)
(* the channels ch with Place(task) <= 2 * ch.                              *)
Place(task) == IF task.at = "job" /\ task.prev THEN 2 * task.ch ELSE 2 * task.ch + 1

Late(task, O, T) ==
    /\ task.at = "job" \/ IsLoop(task)
    /\ task.ch \in O /\ task.template \notin T
Leads(task, T) == IsLoop(task) /\ task.prev /\ task.template \in T

Ahead(v, w) ==
    \/ v[1] < w[1] /\ Place(v[2]) >= Place(w[2])
    \/ w[1] < v[1] /\ Place(v[2]) > Place(w[2])

Ordered(W, O, T) ==
    \A v \in W : Late(v[2], O, T) => \E z \in W : Leads(z[2], T) /\ Ahead(v, z)

(* A frame after which channel ch will have the tip.                        *)
Reaches(task, T, ch) ==
    \/ Leads(task, T) /\ Place(task) <= 2 * ch
    \/ task.at = "opened" /\ task.ch = ch
    \/ task.at = "job" /\ task.prev /\ task.ch = ch /\ task.template \in T
Reached(W, T, ch) == \E w \in W : Reaches(w[2], T, ch)

TipsOnly(W, T) == \A w \in W : IsJob(w[2]) => w[2].template \in T
LoopsIn(W, O) == \A w \in W : IsLoop(w[2]) => w[2].ch \in O
LoopsGoOn(W) == \A w \in W : IsLoop(w[2]) => w[2].then.after = w[2].ch

Failing(s) == \E i \in DOMAIN s.writes : s.writes[i].fails

(* The session is one WorksOnTip is about, or will be.                      *)
Followed(s) ==
    /\ ~s.overtaken /\ ~s.workSelection /\ s.row # "failed"
    /\ s.destroyed \/ ~Failing(s)
    /\ IF s.stream THEN ~s.missed ELSE ~s.early

Well(W, s, T, ch) ==
    \/ s.chans[ch].works \in T /\ s.chans[ch].prev \in T
    \/ \E k \in DOMAIN s.openings : s.openings[k].ch = ch
    \/ Reached(W, T, ch)

Steered(W, s, T) ==
    /\ LoopsGoOn(W)
    /\ s.socket = "destroyed" => TipsOnly(W, T)
    /\ s.socket = "open" /\ ~s.overtaken => LoopsIn(W, Open(s))
    /\ Followed(s) =>
          Ordered(W, Open(s), T) /\ \A ch \in Open(s) : Well(W, s, T, ch)

(* The frames that wait and do not fail.                                    *)
Slots(s) == {<<i, Task(s, i)>> : i \in {j \in DOMAIN s.writes : ~s.writes[j].fails}}

(* A session whose socket is there lives, and its frames do not fail.       *)
Sound(s) == s.socket = "open" => ~s.destroyed /\ ~Failing(s)

SteerOK(s, T) == Steered(Slots(s), s, T) /\ Sound(s)

(* The frames of s, and one that a handler goes on from.                    *)
At0(task, s) == {<<0, task>>} \cup Slots(s)

Queue(W, n) == W \in SUBSET (Nat \X TaskType) /\ \A w \in W : 0 < w[1] /\ w[1] < n

LEMMA JobPlace ==
    ASSUME NEW task \in TaskType, IsJob(task)
    PROVE  /\ task \in JobTask /\ task.ch \in Nat /\ task.template \in 1..MaxTemplates
           /\ task.prev \in BOOLEAN /\ Place(task) \in Nat
           /\ 2 * task.ch <= Place(task) /\ Place(task) <= 2 * task.ch + 1
           /\ task.at = "active" => Place(task) = 2 * task.ch + 1
<1>1. task \in JobTask
  BY DEF TaskType, Act2Task, OpenedTask, JobTask, TargetTask, ReplyTask, IsJob
<1>2. task.ch \in Nat /\ task.template \in 1..MaxTemplates /\ task.prev \in BOOLEAN
  BY <1>1 DEF JobTask
<1> QED
  BY <1>1, <1>2 DEF Place

LEMMA QueueHas ==
    ASSUME NEW n \in Nat, NEW W, Queue(W, n), NEW w \in W
    PROVE  /\ w[1] \in Nat /\ w[2] \in TaskType /\ 0 < w[1] /\ w[1] < n
           /\ IsJob(w[2]) => Place(w[2]) \in Nat
<1>0. W \in SUBSET (Nat \X TaskType) /\ \A v \in W : 0 < v[1] /\ v[1] < n
  BY DEF Queue
<1>1. w \in Nat \X TaskType /\ 0 < w[1] /\ w[1] < n
  BY <1>0
<1>2. w[1] \in Nat /\ w[2] \in TaskType
  BY <1>1
<1> QED
  BY <1>1, <1>2, JobPlace

(* The first frame is late: one that leads is behind it.                    *)
LEMMA LateHasLead ==
    ASSUME NEW O \in SUBSET Nat, NEW T, NEW n \in Nat, NEW W, Queue(W, n),
           NEW old \in TaskType, Late(old, O, T), Ordered({<<0, old>>} \cup W, O, T)
    PROVE  \E z \in W : Leads(z[2], T) /\ Place(z[2]) <= Place(old)
<1>1. PICK z \in {<<0, old>>} \cup W : Leads(z[2], T) /\ Ahead(<<0, old>>, z)
  BY DEF Ordered
<1>2. z # <<0, old>>
  <2> SUFFICES ASSUME z = <<0, old>> PROVE FALSE
    OBVIOUS
  <2>1. z[2] = old
    OBVIOUS
  <2> QED
    BY <1>1, <2>1 DEF Leads, Late
<1>3. z \in W /\ z[1] \in Nat /\ z[2] \in TaskType
  BY <1>1, <1>2, QueueHas
<1>4. Place(z[2]) \in Nat /\ Place(old) \in Nat
  BY <1>1, <1>3, JobPlace DEF Leads, Late, IsLoop, IsJob
<1>5. \/ Place(old) >= Place(z[2])
      \/ z[1] < 0
  BY <1>1 DEF Ahead
<1> QED
  BY <1>1, <1>3, <1>4, <1>5

(* A loop goes on: what was behind it is ahead of it, or behind it still.   *)
LEMMA OrderedOn ==
    ASSUME NEW O \in SUBSET Nat, NEW T, NEW n \in Nat, NEW W, Queue(W, n),
           NEW old \in TaskType, NEW new \in TaskType, IsLoop(old), IsLoop(new),
           old.ch \in O, new.template = old.template, old.prev => new.prev,
           Place(old) < Place(new),
           old.prev => \A v \in TaskType :
              IsJob(v) /\ v.ch \in O /\ Place(v) > Place(old) => Place(v) >= Place(new),
           Ordered({<<0, old>>} \cup W, O, T)
    PROVE  Ordered(W \cup {<<n, new>>}, O, T)
<1>1. Place(old) \in Nat /\ Place(new) \in Nat
  BY JobPlace DEF IsLoop
<1>2. ASSUME NEW v \in W, Late(v[2], O, T)
      PROVE  \E z \in W \cup {<<n, new>>} : Leads(z[2], T) /\ Ahead(v, z)
  <2>1. PICK z \in {<<0, old>>} \cup W : Leads(z[2], T) /\ Ahead(v, z)
    BY <1>2 DEF Ordered
  <2>2. CASE z \in W
    BY <2>1, <2>2
  <2>3. CASE z = <<0, old>>
    <3>1. z[1] = 0 /\ z[2] = old
      BY <2>3
    <3>2. v[1] \in Nat /\ v[2] \in TaskType /\ 0 < v[1] /\ v[1] < n
      BY QueueHas
    <3>3. IsJob(v[2]) /\ v[2].ch \in O
      BY <1>2 DEF Late, IsLoop, IsJob
    <3>4. Place(v[2]) > Place(old)
      <4>1. ~(v[1] < 0)
        BY <3>2
      <4> QED
        BY <2>1, <3>1, <4>1 DEF Ahead
    <3>5. Place(v[2]) >= Place(new)
      BY <2>1, <3>1, <3>2, <3>3, <3>4 DEF Leads
    <3>6. Leads(new, T)
      BY <2>1, <3>1 DEF Leads
    <3>7. Ahead(v, <<n, new>>)
      BY <3>2, <3>5 DEF Ahead
    <3> QED
      BY <3>6, <3>7
  <2> QED
    BY <2>1, <2>2, <2>3
<1>3. ASSUME Late(new, O, T)
      PROVE  \E z \in W : Leads(z[2], T) /\ Ahead(<<n, new>>, z)
  <2>1. Late(old, O, T)
    BY <1>3 DEF Late
  <2>2. PICK z \in W : Leads(z[2], T) /\ Place(z[2]) <= Place(old)
    BY <2>1, LateHasLead
  <2>3. z[1] \in Nat /\ z[1] < n /\ Place(z[2]) \in Nat
    BY <2>2, QueueHas DEF Leads, IsLoop
  <2>4. Place(new) > Place(z[2])
    BY <1>1, <2>2, <2>3
  <2>5. Ahead(<<n, new>>, z)
    BY <2>3, <2>4 DEF Ahead
  <2> QED
    BY <2>2, <2>5
<1>4. ASSUME NEW v \in W \cup {<<n, new>>}, Late(v[2], O, T)
      PROVE  \E z \in W \cup {<<n, new>>} : Leads(z[2], T) /\ Ahead(v, z)
  <2>1. CASE v \in W
    BY <1>2, <1>4, <2>1
  <2>2. CASE v = <<n, new>>
    <3>1. v[2] = new
      BY <2>2
    <3> QED
      BY <1>3, <1>4, <2>2, <3>1
  <2> QED
    BY <2>1, <2>2
<1> QED
  BY <1>4 DEF Ordered

(* The first frame goes.                                                    *)
LEMMA OrderedWithout ==
    ASSUME NEW O \in SUBSET Nat, NEW T, NEW n \in Nat, NEW W, Queue(W, n),
           NEW old \in TaskType,
           Leads(old, T) => \A v \in TaskType :
              IsJob(v) /\ v.ch \in O => Place(v) <= Place(old),
           Ordered({<<0, old>>} \cup W, O, T)
    PROVE  Ordered(W, O, T)
<1>1. ASSUME NEW v \in W, Late(v[2], O, T)
      PROVE  \E z \in W : Leads(z[2], T) /\ Ahead(v, z)
  <2>1. PICK z \in {<<0, old>>} \cup W : Leads(z[2], T) /\ Ahead(v, z)
    BY <1>1 DEF Ordered
  <2>2. ASSUME z = <<0, old>> PROVE FALSE
    <3>1. z[1] = 0 /\ z[2] = old
      BY <2>2
    <3>2. v[1] \in Nat /\ v[2] \in TaskType /\ 0 < v[1]
      BY QueueHas
    <3>3. IsJob(v[2]) /\ v[2].ch \in O
      BY <1>1 DEF Late, IsLoop, IsJob
    <3>4. Place(v[2]) > Place(old)
      <4>1. ~(v[1] < 0)
        BY <3>2
      <4> QED
        BY <2>1, <3>1, <4>1 DEF Ahead
    <3>5. Place(v[2]) <= Place(old) /\ Place(v[2]) \in Nat /\ Place(old) \in Nat
      BY <2>1, <3>1, <3>2, <3>3, JobPlace DEF Leads, IsLoop
    <3> QED
      BY <3>4, <3>5
  <2> QED
    BY <2>1, <2>2
<1> QED
  BY <1>1 DEF Ordered

(* Frames that are not late are added.                                      *)
LEMMA OrderedWith ==
    ASSUME NEW O, NEW T, NEW W, NEW X, W \subseteq X,
           \A v \in X : v \in W \/ ~Late(v[2], O, T), Ordered(W, O, T)
    PROVE  Ordered(X, O, T)
BY DEF Ordered

(* A loop that starts leads them all.                                       *)
LEMMA OrderedAnew ==
    ASSUME NEW O \in SUBSET Nat, NEW T, NEW n \in Nat, NEW W, Queue(W, n),
           NEW new \in TaskType, Leads(new, T), \A ch \in O : Place(new) <= 2 * ch
    PROVE  Ordered(W \cup {<<n, new>>}, O, T)
<1>1. ASSUME NEW v \in W \cup {<<n, new>>}, Late(v[2], O, T)
      PROVE  \E z \in W \cup {<<n, new>>} : Leads(z[2], T) /\ Ahead(v, z)
  <2>1. v \in W
    <3>1. ASSUME v = <<n, new>> PROVE FALSE
      <4>1. v[2] = new
        BY <3>1
      <4> QED
        BY <1>1, <4>1 DEF Late, Leads
    <3> QED
      BY <3>1
  <2>2. v[1] \in Nat /\ v[2] \in TaskType /\ v[1] < n
    BY <2>1, QueueHas
  <2>3. IsJob(v[2]) /\ v[2].ch \in O
    BY <1>1 DEF Late, IsLoop, IsJob
  <2>4. Place(v[2]) \in Nat /\ v[2].ch \in Nat /\ 2 * v[2].ch <= Place(v[2]) /\ Place(new) \in Nat
    BY <2>2, <2>3, JobPlace DEF Leads, IsLoop
  <2>5. Place(new) <= 2 * v[2].ch
    BY <2>3
  <2>6. Place(v[2]) >= Place(new)
    BY <2>4, <2>5
  <2>7. Ahead(v, <<n, new>>)
    BY <2>2, <2>6 DEF Ahead
  <2> QED
    BY <2>7
<1> QED
  BY <1>1 DEF Ordered

(* The frames move up.                                                      *)
LEMMA OrderedUp ==
    ASSUME NEW O, NEW T, NEW n \in Nat, NEW W, Queue(W, n), NEW X,
           \A x \in X : \E w \in W : x[1] \in Nat /\ w[1] = x[1] + 1 /\ w[2] = x[2],
           \A w \in W : \E x \in X : x[1] \in Nat /\ w[1] = x[1] + 1 /\ w[2] = x[2],
           Ordered(W, O, T)
    PROVE  Ordered(X, O, T)
<1>1. ASSUME NEW x \in X, Late(x[2], O, T)
      PROVE  \E y \in X : Leads(y[2], T) /\ Ahead(x, y)
  <2>1. PICK w \in W : x[1] \in Nat /\ w[1] = x[1] + 1 /\ w[2] = x[2]
    OBVIOUS
  <2>2. PICK z \in W : Leads(z[2], T) /\ Ahead(w, z)
    BY <1>1, <2>1 DEF Ordered
  <2>3. PICK y \in X : y[1] \in Nat /\ z[1] = y[1] + 1 /\ z[2] = y[2]
    OBVIOUS
  <2>4. /\ w[1] < z[1] <=> x[1] < y[1]
        /\ z[1] < w[1] <=> y[1] < x[1]
    BY <2>1, <2>3
  <2>5. Ahead(x, y)
    BY <2>1, <2>2, <2>3, <2>4 DEF Ahead
  <2> QED
    BY <2>2, <2>3, <2>5
<1> QED
  BY <1>1 DEF Ordered

(* If all templates are of the tip, none is late.                           *)
LEMMA OrderedTips ==
    ASSUME NEW O, NEW T, NEW W, TipsOnly(W, T)
    PROVE  Ordered(W, O, T)
BY DEF Ordered, Late, TipsOnly, IsLoop, IsJob

LEMMA SlotsAre ==
    ASSUME NEW s \in SessType
    PROVE  /\ Queue(Slots(s), Len(s.writes) + 1) /\ Len(s.writes) + 1 \in Nat
           /\ \A w : w \in Slots(s) <=>
                 \E i \in DOMAIN s.writes : ~s.writes[i].fails /\ w = <<i, Task(s, i)>>
<1>1. /\ DOMAIN s.writes = 1..Len(s.writes) /\ Len(s.writes) \in Nat
      /\ \A i \in DOMAIN s.writes : Task(s, i) \in TaskType
  BY WritesTyped
<1>2. \A w : w \in Slots(s) <=>
         \E i \in DOMAIN s.writes : ~s.writes[i].fails /\ w = <<i, Task(s, i)>>
  BY DEF Slots
<1>3. ASSUME NEW w \in Slots(s)
      PROVE  w \in Nat \X TaskType /\ 0 < w[1] /\ w[1] < Len(s.writes) + 1
  <2>1. PICK i \in DOMAIN s.writes : w = <<i, Task(s, i)>>
    BY <1>2
  <2>2. w[1] = i /\ i \in 1..Len(s.writes) /\ Task(s, i) \in TaskType
    BY <1>1, <2>1
  <2> QED
    BY <1>1, <2>1, <2>2
<1> QED
  BY <1>1, <1>2, <1>3 DEF Queue

LEMMA SlotsSame ==
    ASSUME NEW s, NEW t, t.writes = s.writes
    PROVE  Slots(t) = Slots(s) /\ (Failing(t) <=> Failing(s))
BY DEF Slots, Failing, Task

LEMMA NoSlots ==
    ASSUME NEW s, \A i \in DOMAIN s.writes : s.writes[i].fails
    PROVE  Slots(s) = {}
BY DEF Slots

LEMMA SlotsGrow ==
    ASSUME NEW s \in SessType, NEW t, NEW task \in TaskType,
           t.writes = Append(s.writes, [task |-> task, fails |-> FALSE])
    PROVE  /\ Slots(t) = Slots(s) \cup {<<Len(s.writes) + 1, task>>}
           /\ Failing(t) <=> Failing(s)
<1>1. PICK k : k = Len(s.writes) + 1
  OBVIOUS
<1>2. /\ Appended(s, t, task) /\ Task(t, k) = task
      /\ \A i \in DOMAIN s.writes : Task(t, i) = Task(s, i)
  BY <1>1, AppendedTask
<1>3. /\ \A i \in DOMAIN s.writes : i \in DOMAIN t.writes /\ t.writes[i] = s.writes[i]
      /\ k \in DOMAIN t.writes /\ ~t.writes[k].fails
      /\ \A i \in DOMAIN t.writes : i \in DOMAIN s.writes \/ i = k
  BY <1>1, <1>2 DEF Appended
<1>4. Failing(t) <=> Failing(s)
  BY <1>3 DEF Failing
<1>5. \A w : w \in Slots(t) <=>
         \E i \in DOMAIN t.writes : ~t.writes[i].fails /\ w = <<i, Task(t, i)>>
  BY DEF Slots
<1>6. \A w : w \in Slots(s) <=>
         \E i \in DOMAIN s.writes : ~s.writes[i].fails /\ w = <<i, Task(s, i)>>
  BY DEF Slots
<1>7. ASSUME NEW w PROVE w \in Slots(t) <=> w \in Slots(s) \/ w = <<k, task>>
  BY <1>2, <1>3, <1>5, <1>6
<1> QED
  BY <1>1, <1>4, <1>7

(* The write of the i-th frame ends; what it carried is at 0.               *)
LEMMA SlotsDone ==
    ASSUME NEW s \in SessType, NEW i \in DOMAIN s.writes, ~s.writes[i].fails,
           NEW r, r = Done(s, i), NEW task, task = Task(s, i)
    PROVE  /\ \A x \in At0(task, r) : \E w \in Slots(s) :
                 w[2] = x[2] /\ (i = 1 => x[1] \in Nat /\ w[1] = x[1] + 1)
           /\ \A w \in Slots(s) : \E x \in At0(task, r) :
                 w[2] = x[2] /\ (i = 1 => x[1] \in Nat /\ w[1] = x[1] + 1)
           /\ Failing(r) <=> Failing(s)
<1>1. /\ r \in SessType
      /\ \A j \in DOMAIN r.writes :
            \E k \in DOMAIN s.writes : /\ k # i /\ r.writes[j] = s.writes[k]
                                       /\ k = IF j < i THEN j ELSE j + 1
      /\ \A k \in DOMAIN s.writes : k # i =>
            \E j \in DOMAIN r.writes : /\ r.writes[j] = s.writes[k]
                                       /\ k = IF j < i THEN j ELSE j + 1
  BY DoneEffect
<1>2. /\ DOMAIN s.writes = 1..Len(s.writes) /\ Len(s.writes) \in Nat
      /\ DOMAIN r.writes = 1..Len(r.writes) /\ Len(r.writes) \in Nat
  BY <1>1, WritesTyped
<1>3. Failing(r) <=> Failing(s)
  BY <1>1 DEF Failing
<1>4. ASSUME NEW x \in At0(task, r)
      PROVE  \E w \in Slots(s) :
                w[2] = x[2] /\ (i = 1 => x[1] \in Nat /\ w[1] = x[1] + 1)
  <2>1. CASE x = <<0, task>>
    <3>1. <<i, task>> \in Slots(s)
      BY DEF Slots
    <3>2. x[1] = 0 /\ x[2] = task
      BY <2>1
    <3>3. <<i, task>>[1] = i /\ <<i, task>>[2] = task
      OBVIOUS
    <3> QED
      BY <3>1, <3>2, <3>3
  <2>2. CASE x \in Slots(r)
    <3>1. PICK j \in DOMAIN r.writes : ~r.writes[j].fails /\ x = <<j, Task(r, j)>>
      BY <2>2 DEF Slots
    <3>2. PICK k \in DOMAIN s.writes :
             r.writes[j] = s.writes[k] /\ k = IF j < i THEN j ELSE j + 1
      BY <1>1
    <3>3. <<k, Task(s, k)>> \in Slots(s) /\ Task(s, k) = Task(r, j)
      BY <3>1, <3>2 DEF Slots, Task
    <3>4. x[1] = j /\ x[2] = Task(r, j)
      BY <3>1
    <3>5. i = 1 => j \in Nat /\ k = j + 1
      BY <1>2, <3>2
    <3>6. <<k, Task(s, k)>>[1] = k /\ <<k, Task(s, k)>>[2] = Task(s, k)
      OBVIOUS
    <3> QED
      BY <3>3, <3>4, <3>5, <3>6
  <2> QED
    BY <2>1, <2>2 DEF At0
<1>5. ASSUME NEW w \in Slots(s)
      PROVE  \E x \in At0(task, r) :
                w[2] = x[2] /\ (i = 1 => x[1] \in Nat /\ w[1] = x[1] + 1)
  <2>1. PICK k \in DOMAIN s.writes : ~s.writes[k].fails /\ w = <<k, Task(s, k)>>
    BY DEF Slots
  <2>2. w[1] = k /\ w[2] = Task(s, k)
    BY <2>1
  <2>3. CASE k = i
    <3>1. <<0, task>> \in At0(task, r)
      BY DEF At0
    <3>2. <<0, task>>[1] = 0 /\ <<0, task>>[2] = task
      OBVIOUS
    <3> QED
      BY <2>2, <2>3, <3>1, <3>2
  <2>4. CASE k # i
    <3>1. PICK j \in DOMAIN r.writes :
             r.writes[j] = s.writes[k] /\ k = IF j < i THEN j ELSE j + 1
      BY <1>1, <2>4
    <3>2. <<j, Task(r, j)>> \in At0(task, r) /\ Task(r, j) = Task(s, k)
      BY <2>1, <3>1 DEF At0, Slots, Task
    <3>3. i = 1 => j \in Nat /\ k = j + 1
      BY <1>2, <3>1
    <3>4. <<j, Task(r, j)>>[1] = j /\ <<j, Task(r, j)>>[2] = Task(r, j)
      OBVIOUS
    <3> QED
      BY <2>2, <3>2, <3>3, <3>4
  <2> QED
    BY <2>3, <2>4
<1> QED
  BY <1>3, <1>4, <1>5

-----------------------------------------------------------------------------
(* What the steps of a session do to its loops. *)

(* The same but for its channels and frames, and what does not matter here. *)
Kin(s, t) ==
    /\ t.socket = s.socket /\ t.destroyed = s.destroyed /\ t.row = s.row
    /\ t.workSelection = s.workSelection /\ t.overtaken = s.overtaken
    /\ t.openings = s.openings /\ Flags(s, t)

LEMMA RestIsKin ==
    ASSUME NEW s, NEW t, Rest(s, t), Flags(s, t)
    PROVE  Kin(s, t)
BY DEF Rest, Kin

Tipped(s, T, ch) == s.chans[ch].works \in T /\ s.chans[ch].prev \in T

(* A frame that disturbs nothing.                                           *)
Fits(task, O, T) ==
    /\ IsJob(task) => task.template \in T
    /\ IsLoop(task) => task.ch \in O /\ task.then.after = task.ch

LEMMA KinFollowed ==
    ASSUME NEW s, NEW t, Kin(s, t), Failing(s) => Failing(t), Followed(t)
    PROVE  Followed(s)
BY DEF Kin, Flags, Followed

(* Frames are added that disturb nothing.                                   *)
LEMMA Added ==
    ASSUME NEW s \in SessType, NEW t, NEW T, NEW W, NEW X, Kin(s, t), Open(t) = Open(s),
           Failing(s) => Failing(t),
           \A ch \in Open(s) : Tipped(s, T, ch) => Tipped(t, T, ch),
           W \subseteq X, \A x \in X : x \in W \/ Fits(x[2], Open(s), T), Steered(W, s, T)
    PROVE  Steered(X, t, T)
<1>1. LoopsGoOn(X)
  BY DEF Steered, LoopsGoOn, Fits
<1>2. t.socket = "destroyed" => TipsOnly(X, T)
  BY DEF Steered, TipsOnly, Fits, Kin
<1>3. t.socket = "open" /\ ~t.overtaken => LoopsIn(X, Open(t))
  BY DEF Steered, LoopsIn, Fits, Kin
<1>4. ASSUME Followed(t)
      PROVE  Ordered(X, Open(t), T) /\ \A ch \in Open(t) : Well(X, t, T, ch)
  <2>1. Followed(s)
    BY <1>4, KinFollowed
  <2>2. Ordered(W, Open(s), T) /\ \A ch \in Open(s) : Well(W, s, T, ch)
    BY <2>1 DEF Steered
  <2>3. \A x \in X : x \in W \/ ~Late(x[2], Open(s), T)
    BY DEF Fits, Late, IsLoop, IsJob
  <2>4. Ordered(X, Open(s), T)
    BY <2>2, <2>3, OrderedWith
  <2>5. \A ch \in Open(t) : Well(X, t, T, ch)
    BY <2>2 DEF Well, Reached, Tipped, Kin
  <2> QED
    BY <2>4, <2>5
<1> QED
  BY <1>1, <1>2, <1>3, <1>4 DEF Steered

(* The next channel of a loop is sent a job.                                *)
Sent(s, t, next, n, template, prev, kind) ==
    LET task == JobSent(next, n, template, prev, [kind |-> kind, after |-> next])
    IN  /\ t \in SessType /\ Kin(s, t) /\ Open(t) = Open(s) /\ task \in TaskType
        /\ t.writes = Append(s.writes, [task |-> task, fails |-> FALSE])
        /\ \A d \in Open(s) : d # next => t.chans[d] = s.chans[d]
        /\ t.chans[next].prev = s.chans[next].prev
        /\ t.chans[next].works = IF prev THEN s.chans[next].works ELSE template

LEMMA SendFromEffect ==
    ASSUME NEW s \in SessType, NEW ch \in Nat, NEW template \in 1..MaxTemplates,
           NEW prev \in BOOLEAN, NEW kind \in {"fan", "retarget"},
           NEW t, t = SendFrom(s, ch, template, prev, kind)
    PROVE  \/ t = s /\ \A d \in Open(s) : d <= ch
           \/ \E next \in Open(s), n \in Nat \ {0} :
                 /\ next > ch /\ \A d \in Open(s) : d > ch => d >= next
                 /\ Sent(s, t, next, n, template, prev, kind)
<1>0. Open(s) \in SUBSET Nat
  BY ChansOf
<1>1. CASE Following(s, ch) = {}
  <2>1. t = s
    BY <1>1 DEF SendFrom
  <2>2. \A d \in Open(s) : d <= ch
    BY <1>0, <1>1 DEF Following
  <2> QED
    BY <2>1, <2>2
<1>2. CASE Following(s, ch) # {}
  <2>1. PICK next : next = Min(Following(s, ch))
    OBVIOUS
  <2>2. Following(s, ch) \in SUBSET Nat
    BY <1>0 DEF Following
  <2>3. next \in Following(s, ch) /\ \A d \in Following(s, ch) : next <= d
    BY <1>2, <2>1, <2>2, LeastOf
  <2>4. next \in Open(s) /\ next \in Nat /\ next > ch
    BY <2>2, <2>3 DEF Following
  <2>5. \A d \in Open(s) : d > ch => d >= next
    BY <1>0, <2>3, <2>4 DEF Following
  <2>6. PICK then \in ThenType : then = [kind |-> kind, after |-> next]
    BY <2>4 DEF ThenType
  <2>7. t = SendJob(s, next, template, prev, then)
    BY <1>2, <2>1, <2>6 DEF SendFrom
  <2>8. PICK n : n = s.made + 1
    OBVIOUS
  <2>9. /\ t \in SessType /\ Rest(s, t) /\ Flags(s, t)
        /\ Open(t) = Open(s) /\ n \in Nat \ {0}
        /\ JobSent(next, n, template, prev, then) \in JobTask
        /\ t.writes = Append(s.writes, [task |-> JobSent(next, n, template, prev, then),
                                        fails |-> FALSE])
        /\ \A d \in Open(s) : d # next => t.chans[d] = s.chans[d]
        /\ next \in Open(s) => SentOn(s.chans[next], t.chans[next], n, template, prev)
    BY <2>4, <2>7, <2>8, SendJobEffect
  <2>10. JobSent(next, n, template, prev, then) \in TaskType
    BY <2>9 DEF TaskType
  <2>11. SentOn(s.chans[next], t.chans[next], n, template, prev)
    BY <2>4, <2>9
  <2>12. Sent(s, t, next, n, template, prev, kind)
    BY <2>6, <2>9, <2>10, <2>11, RestIsKin DEF Sent, SentOn
  <2> QED
    BY <2>4, <2>5, <2>9, <2>12
<1> QED
  BY <1>1, <1>2

(* A loop starts with a template of the tip.                                *)
LEMMA Started ==
    ASSUME NEW s \in SessType, NEW ch \in Nat, NEW template \in 1..MaxTemplates,
           NEW prev \in BOOLEAN, NEW kind \in {"fan", "retarget"},
           NEW t, t = SendFrom(s, ch, template, prev, kind),
           NEW T, template \in T, Steered(Slots(s), s, T)
    PROVE  Steered(Slots(t), t, T)
<1>1. CASE t = s
  BY <1>1
<1>2. ASSUME NEW next \in Open(s), NEW n \in Nat \ {0},
             Sent(s, t, next, n, template, prev, kind)
      PROVE  Steered(Slots(t), t, T)
  <2>1. PICK task : task = JobSent(next, n, template, prev, [kind |-> kind, after |-> next])
    OBVIOUS
  <2>2. /\ task \in TaskType /\ Kin(s, t) /\ Open(t) = Open(s)
        /\ t.writes = Append(s.writes, [task |-> task, fails |-> FALSE])
    BY <1>2, <2>1 DEF Sent
  <2>3. /\ Slots(t) = Slots(s) \cup {<<Len(s.writes) + 1, task>>}
        /\ Failing(t) <=> Failing(s)
    BY <2>2, SlotsGrow
  <2>4. next \in Nat
    BY ChansOf
  <2>5. Fits(task, Open(s), T)
    <3>1. /\ IsLoop(task) /\ task.ch = next /\ task.template = template
          /\ task.then.after = next
      BY ONLY kind \in {"fan", "retarget"}, <2>1 DEF JobSent, IsLoop, IsJob
    <3> QED
      BY <3>1 DEF Fits
  <2>6. \A x \in Slots(t) : x \in Slots(s) \/ Fits(x[2], Open(s), T)
    <3>1. <<Len(s.writes) + 1, task>>[2] = task
      OBVIOUS
    <3> QED
      BY <2>3, <2>5, <3>1
  <2>7. \A d \in Open(s) : Tipped(s, T, d) => Tipped(t, T, d)
    <3>1. /\ \A d \in Open(s) : d # next => t.chans[d] = s.chans[d]
          /\ t.chans[next].prev = s.chans[next].prev
          /\ t.chans[next].works = IF prev THEN s.chans[next].works ELSE template
      BY <1>2 DEF Sent
    <3> QED
      BY <3>1 DEF Tipped
  <2>8. Slots(s) \subseteq Slots(t)
    BY <2>3
  <2> QED
    BY <2>2, <2>3, <2>6, <2>7, <2>8, Added
<1> QED
  BY <1>1, <1>2, SendFromEffect

(* A loop goes on to the next channel.                                      *)
LEMMA WentOn ==
    ASSUME NEW s \in SessType, NEW old \in TaskType, IsLoop(old),
           old.at = "active" \/ ~old.prev, NEW prev \in BOOLEAN, old.prev => prev,
           NEW kind \in {"fan", "retarget"},
           NEW t, t = SendFrom(s, old.then.after, old.template, prev, kind),
           NEW T, Steered(At0(old, s), s, T)
    PROVE  Steered(Slots(t), t, T)
<1>1. /\ old \in JobTask /\ old.ch \in Nat /\ old.template \in 1..MaxTemplates
      /\ old.prev \in BOOLEAN /\ Place(old) = 2 * old.ch + 1
  <2>1. old \in JobTask /\ old.ch \in Nat /\ old.template \in 1..MaxTemplates /\ old.prev \in BOOLEAN
    BY JobPlace DEF IsLoop
  <2>2. Place(old) = 2 * old.ch + 1
    BY DEF Place, IsLoop
  <2> QED
    BY <2>1, <2>2
<1>2. Open(s) \in SUBSET Nat
  BY ChansOf
<1>3. PICK k \in Nat : k = Len(s.writes) + 1 /\ Queue(Slots(s), k)
  BY SlotsAre
<1>4. <<0, old>> \in At0(old, s) /\ Slots(s) \subseteq At0(old, s) /\ <<0, old>>[2] = old
  BY DEF At0
<1>5. old.then.after = old.ch
  BY <1>4 DEF Steered, LoopsGoOn
<1>6. ASSUME NEW w \in At0(old, s) PROVE w \in Slots(s) \/ (w[1] = 0 /\ w[2] = old)
  BY DEF At0
<1>7. CASE t = s /\ \A d \in Open(s) : d <= old.ch
  <2>1. LoopsGoOn(Slots(s)) /\ (TipsOnly(At0(old, s), T) => TipsOnly(Slots(s), T))
        /\ (LoopsIn(At0(old, s), Open(s)) => LoopsIn(Slots(s), Open(s)))
    BY <1>4 DEF Steered, LoopsGoOn, TipsOnly, LoopsIn
  <2>2. ASSUME Followed(s)
        PROVE  Ordered(Slots(s), Open(s), T) /\ \A ch \in Open(s) : Well(Slots(s), s, T, ch)
    <3>1. /\ Ordered({<<0, old>>} \cup Slots(s), Open(s), T)
          /\ \A ch \in Open(s) : Well(At0(old, s), s, T, ch)
      BY <2>2 DEF Steered, At0
    <3>2. ASSUME NEW v \in TaskType, IsJob(v), v.ch \in Open(s)
          PROVE  Place(v) <= Place(old)
      <4>1. v.ch \in Nat /\ Place(v) \in Nat /\ Place(v) <= 2 * v.ch + 1 /\ v.ch <= old.ch
        BY <1>7, <3>2, JobPlace
      <4> QED
        BY <1>1, <4>1
    <3>3. Ordered(Slots(s), Open(s), T)
      BY <1>2, <1>3, <3>1, <3>2, OrderedWithout
    <3>4. ASSUME NEW ch \in Open(s) PROVE Well(Slots(s), s, T, ch)
      <4>1. ~Reaches(old, T, ch)
        <5>1. ch \in Nat /\ ch <= old.ch
          BY <1>2, <1>7
        <5>2. ~(Place(old) <= 2 * ch)
          BY <1>1, <5>1
        <5>3. old.at # "opened" /\ ~(old.at = "job" /\ old.prev)
          BY DEF IsLoop, IsJob
        <5> QED
          BY <5>2, <5>3 DEF Reaches
      <4>2. Reached(At0(old, s), T, ch) => Reached(Slots(s), T, ch)
        BY <1>6, <4>1 DEF Reached
      <4> QED
        BY <3>1, <4>2 DEF Well
    <3> QED
      BY <3>3, <3>4
  <2> QED
    BY <1>7, <2>1, <2>2 DEF Steered
<1>8. ASSUME NEW next \in Open(s), NEW n \in Nat \ {0}, next > old.ch,
             \A d \in Open(s) : d > old.ch => d >= next,
             Sent(s, t, next, n, old.template, prev, kind)
      PROVE  Steered(Slots(t), t, T)
  <2>1. PICK new : new = JobSent(next, n, old.template, prev, [kind |-> kind, after |-> next])
    OBVIOUS
  <2>2. /\ new \in TaskType /\ Kin(s, t) /\ Open(t) = Open(s)
        /\ t.writes = Append(s.writes, [task |-> new, fails |-> FALSE])
        /\ \A d \in Open(s) : d # next => t.chans[d] = s.chans[d]
        /\ t.chans[next].prev = s.chans[next].prev
        /\ t.chans[next].works = IF prev THEN s.chans[next].works ELSE old.template
    BY <1>8, <2>1 DEF Sent
  <2>3. /\ Slots(t) = Slots(s) \cup {<<k, new>>}
        /\ Failing(t) <=> Failing(s)
    BY <1>3, <2>2, SlotsGrow
  <2>4. next \in Nat
    BY <1>2
  <2>5. /\ IsLoop(new) /\ IsJob(new) /\ new.at = "job" /\ new.ch = next
        /\ new.template = old.template /\ new.prev = prev
        /\ new.then.after = next
        /\ Place(new) = IF prev THEN 2 * next ELSE 2 * next + 1
    BY ONLY kind \in {"fan", "retarget"}, <2>1 DEF JobSent, IsLoop, IsJob, Place
  <2>6. <<k, new>> \in Slots(t) /\ <<k, new>>[2] = new
    BY <2>3
  <2>7. ASSUME NEW w \in Slots(t) PROVE w \in Slots(s) \/ w[2] = new
    BY <2>3
  <2>8. LoopsGoOn(Slots(t))
    BY <1>4, <2>5, <2>7 DEF Steered, LoopsGoOn
  <2>9. ASSUME TipsOnly(At0(old, s), T) PROVE TipsOnly(Slots(t), T) /\ old.template \in T
    <3>1. old.template \in T
      BY <1>4, <2>9 DEF TipsOnly, IsLoop
    <3> QED
      BY <1>4, <2>5, <2>7, <2>9, <3>1 DEF TipsOnly
  <2>10. LoopsIn(At0(old, s), Open(s)) => LoopsIn(Slots(t), Open(t)) /\ old.ch \in Open(s)
    BY <1>4, <2>2, <2>5, <2>7 DEF LoopsIn
  <2>11. ASSUME Followed(t)
         PROVE  Ordered(Slots(t), Open(t), T) /\ \A ch \in Open(t) : Well(Slots(t), t, T, ch)
    <3>1. Followed(s) /\ ~s.overtaken
      BY <2>2, <2>3, <2>11, KinFollowed DEF Followed
    <3>2. /\ Ordered({<<0, old>>} \cup Slots(s), Open(s), T)
          /\ \A ch \in Open(s) : Well(At0(old, s), s, T, ch)
      BY <3>1 DEF Steered, At0
    <3>3. s.socket \in {"open", "destroyed"}
      BY DEF SessType, Sockets
    <3>4. /\ s.socket = "destroyed" => TipsOnly(At0(old, s), T)
          /\ s.socket = "open" => LoopsIn(At0(old, s), Open(s))
      BY <3>1 DEF Steered
    <3>5. Place(old) < Place(new)
      BY <1>1, <1>8, <2>4, <2>5
    <3>6. ASSUME old.prev, NEW v \in TaskType, IsJob(v), v.ch \in Open(s), Place(v) > Place(old)
          PROVE  Place(v) >= Place(new)
      <4>1. v.ch \in Nat /\ Place(v) \in Nat /\ 2 * v.ch <= Place(v) /\ Place(v) <= 2 * v.ch + 1
        BY <3>6, JobPlace
      <4>2. v.ch > old.ch
        BY <1>1, <3>6, <4>1
      <4>3. v.ch >= next
        BY <1>8, <3>6, <4>2
      <4>4. Place(new) = 2 * next
        BY <2>5, <3>6
      <4> QED
        BY <2>4, <4>1, <4>3, <4>4
    <3>7. Ordered(Slots(t), Open(t), T)
      <4>1. CASE s.socket = "destroyed"
        BY <2>9, <3>4, <4>1, OrderedTips
      <4>2. CASE s.socket = "open"
        <5>1. old.ch \in Open(s)
          BY <2>10, <3>4, <4>2
        <5>2. Ordered(Slots(s) \cup {<<k, new>>}, Open(s), T)
          BY <1>2, <1>3, <2>2, <2>5, <3>2, <3>5, <3>6, <5>1, OrderedOn
        <5> QED
          BY <2>2, <2>3, <5>2
      <4> QED
        BY <3>3, <4>1, <4>2
    <3>8. ASSUME NEW ch \in Open(t) PROVE Well(Slots(t), t, T, ch)
      <4>0. ch \in Open(s) /\ ch \in Nat
        BY <1>2, <2>2
      <4>1. Reaches(old, T, ch) => Reaches(new, T, ch)
        <5> SUFFICES ASSUME Reaches(old, T, ch) PROVE Reaches(new, T, ch)
          OBVIOUS
        <5>1. old.at # "opened" /\ ~(old.at = "job" /\ old.prev)
          BY DEF IsLoop, IsJob
        <5>2. Leads(old, T) /\ Place(old) <= 2 * ch
          BY <5>1 DEF Reaches
        <5>3. ch > old.ch
          BY <1>1, <4>0, <5>2
        <5>4. Place(new) = 2 * next /\ next <= ch
          BY <1>8, <2>5, <4>0, <5>2, <5>3 DEF Leads
        <5>5. Leads(new, T)
          BY <2>5, <5>2 DEF Leads
        <5>6. Place(new) <= 2 * ch
          BY <2>4, <4>0, <5>4
        <5> QED
          BY <5>5, <5>6 DEF Reaches
      <4>2. Reached(At0(old, s), T, ch) => Reached(Slots(t), T, ch)
        BY <1>6, <2>3, <2>6, <4>1 DEF Reached
      <4>3. CASE Tipped(s, T, ch) /\ ~Tipped(t, T, ch)
        <5>1. ch = next /\ old.template \notin T /\ ~prev
          BY <2>2, <4>0, <4>3 DEF Tipped
        <5>2. s.socket = "open"
          BY <2>9, <3>3, <3>4, <5>1
        <5>3. Late(old, Open(s), T)
          BY <2>10, <3>4, <5>1, <5>2 DEF Late
        <5>4. PICK z \in Slots(s) : Leads(z[2], T) /\ Place(z[2]) <= Place(old)
          BY <1>2, <1>3, <3>2, <5>3, LateHasLead
        <5>5. Place(z[2]) \in Nat
          BY <1>3, <5>4, QueueHas DEF Leads, IsLoop
        <5>6. Place(z[2]) <= 2 * ch
          BY <1>1, <1>8, <2>4, <5>1, <5>4, <5>5
        <5> QED
          BY <2>3, <5>4, <5>6 DEF Well, Reached, Reaches
      <4>4. Well(At0(old, s), s, T, ch)
        BY <3>2, <4>0
      <4> QED
        BY <2>2, <4>2, <4>3, <4>4 DEF Well, Tipped, Kin
    <3> QED
      BY <3>7, <3>8
  <2> QED
    BY <2>2, <2>8, <2>9, <2>10, <2>11 DEF Steered, Kin
<1>9. old.ch \in Nat /\ old.template \in 1..MaxTemplates /\ t = SendFrom(s, old.ch, old.template, prev, kind)
  BY <1>1, <1>5
<1>10. \/ t = s /\ \A d \in Open(s) : d <= old.ch
       \/ \E next \in Open(s), n \in Nat \ {0} :
             /\ next > old.ch /\ \A d \in Open(s) : d > old.ch => d >= next
             /\ Sent(s, t, next, n, old.template, prev, kind)
  BY <1>9, SendFromEffect
<1> QED
  BY <1>7, <1>8, <1>10

(* What a frame carried is done with; what it would have reached is reached. *)
LEMMA Dropped ==
    ASSUME NEW s \in SessType, NEW old \in TaskType, ~IsLoop(old), NEW T,
           Followed(s) => \A ch \in Open(s) :
              Reaches(old, T, ch) => Reached(Slots(s), T, ch),
           Steered(At0(old, s), s, T)
    PROVE  Steered(Slots(s), s, T)
<1>1. Slots(s) \subseteq At0(old, s)
  BY DEF At0
<1>2. ASSUME NEW w \in At0(old, s) PROVE w \in Slots(s) \/ w[2] = old
  BY DEF At0
<1>3. ASSUME Followed(s), NEW ch \in Open(s), Reached(At0(old, s), T, ch)
      PROVE  Reached(Slots(s), T, ch)
  BY <1>2, <1>3 DEF Reached
<1>4. ASSUME Ordered(At0(old, s), Open(s), T) PROVE Ordered(Slots(s), Open(s), T)
  <2>1. ~Leads(old, T)
    BY DEF Leads
  <2>2. PICK k \in Nat : Queue(Slots(s), k)
    BY SlotsAre
  <2>3. Open(s) \in SUBSET Nat
    BY ChansOf
  <2> QED
    BY <1>4, <2>1, <2>2, <2>3, OrderedWithout DEF At0
<1> QED
  BY <1>1, <1>3, <1>4 DEF Steered, LoopsGoOn, TipsOnly, LoopsIn, Well

LEMMA Idle ==
    ASSUME NEW s \in SessType, NEW old \in TaskType, ~IsLoop(old), old.at # "opened",
           ~(old.at = "job" /\ old.prev), NEW T, Steered(At0(old, s), s, T)
    PROVE  Steered(Slots(s), s, T)
<1>1. \A ch : ~Reaches(old, T, ch)
  BY DEF Reaches, Leads
<1> QED
  BY <1>1, Dropped

Active(task) == [task EXCEPT !.at = "active"]

LEMMA ActivatedEffect ==
    ASSUME NEW s \in SessType, NEW old \in JobTask, NEW t, t = Activated(s, old),
           NEW new, new = Active(old)
    PROVE  /\ t \in SessType /\ Kin(s, t) /\ Open(t) = Open(s)
           /\ t.writes = Append(s.writes, [task |-> new, fails |-> FALSE])
           /\ \A d \in Open(s) : d # old.ch => t.chans[d] = s.chans[d]
           /\ old.ch \in Open(s) => /\ t.chans[old.ch].works = old.template
                                    /\ t.chans[old.ch].prev = old.template
           /\ new \in TaskType /\ new.at = "active" /\ new.ch = old.ch /\ new.prev = old.prev
           /\ new.template = old.template /\ new.then = old.then
<1>1. /\ new \in JobTask /\ new.at = "active" /\ new.ch = old.ch /\ new.prev = old.prev
      /\ new.template = old.template /\ new.then = old.then
  BY DEF JobTask, Active
<1>2. PICK x \in 0..MaxTemplates : x = old.template
  BY DEF JobTask
<1>3. PICK chan : chan = [s.chans[old.ch] EXCEPT !.works = x, !.prev = x]
  OBVIOUS
<1>4. PICK r : r = IF old.ch \in Open(s) THEN With(s, old.ch, chan) ELSE s
  OBVIOUS
<1>5. t = Write(r, new)
  BY <1>2, <1>3, <1>4 DEF Activated, Active
<1>6. /\ r \in SessType /\ Rest(s, r) /\ Flags(s, r) /\ r.writes = s.writes /\ Open(r) = Open(s)
      /\ \A d \in Open(s) : d # old.ch => r.chans[d] = s.chans[d]
      /\ old.ch \in Open(s) => r.chans[old.ch].works = x /\ r.chans[old.ch].prev = x
  <2>1. CASE old.ch \in Open(s)
    <3>1. PICK a \in ChanType : a = s.chans[old.ch]
      BY <2>1, ChansOf
    <3>4. chan = [a EXCEPT !.works = x, !.prev = x]
      BY <1>3, <3>1
    <3>2. chan \in ChanType /\ chan.works = x /\ chan.prev = x
      BY ONLY a \in ChanType, x \in 0..MaxTemplates, <3>4, ZenonT(60) DEF ChanType
    <3>3. r = With(s, old.ch, chan)
      BY <1>4, <2>1
    <3> QED
      BY <2>1, <3>2, <3>3, WithEffect
  <2>2. CASE old.ch \notin Open(s)
    BY <1>4, <2>2 DEF Rest, Flags
  <2> QED
    BY <2>1, <2>2
<1>7. new \in TaskType
  BY <1>1 DEF TaskType
<1>8. /\ t \in SessType /\ Rest(r, t) /\ Flags(r, t) /\ t.chans = r.chans /\ Open(t) = Open(r)
      /\ t.writes = Append(r.writes, [task |-> new, fails |-> FALSE])
  BY <1>5, <1>6, <1>7, WriteEffect
<1>9. Kin(s, t)
  BY <1>6, <1>8 DEF Kin, Rest, Flags
<1> QED
  BY <1>1, <1>2, <1>6, <1>7, <1>8, <1>9

(* A job sent with a previous hash is written: it is what is worked on.     *)
LEMMA Activates ==
    ASSUME NEW s \in SessType, NEW old \in TaskType, old.at = "job", old.prev,
           NEW t, t = Activated(s, old), NEW T, Steered(At0(old, s), s, T)
    PROVE  Steered(Slots(t), t, T)
<1>1. /\ old \in JobTask /\ old.ch \in Nat /\ IsJob(old)
      /\ Place(old) = 2 * old.ch
  BY JobPlace DEF IsJob, Place
<1>2. PICK new : new = Active(old)
  OBVIOUS
<1>3. /\ Kin(s, t) /\ Open(t) = Open(s)
      /\ t.writes = Append(s.writes, [task |-> new, fails |-> FALSE])
      /\ \A d \in Open(s) : d # old.ch => t.chans[d] = s.chans[d]
      /\ old.ch \in Open(s) => /\ t.chans[old.ch].works = old.template
                               /\ t.chans[old.ch].prev = old.template
      /\ new \in TaskType /\ new.at = "active" /\ new.ch = old.ch /\ new.prev = old.prev
      /\ new.template = old.template /\ new.then = old.then
  BY ONLY s \in SessType, t = Activated(s, old), <1>1, <1>2, ActivatedEffect
<1>4. Place(new) = 2 * old.ch + 1 /\ (IsLoop(new) <=> IsLoop(old)) /\ IsJob(new)
  BY <1>1, <1>3 DEF Place, IsLoop, IsJob
<1>5. Open(s) \in SUBSET Nat
  BY ChansOf
<1>6. PICK k \in Nat : k = Len(s.writes) + 1 /\ Queue(Slots(s), k)
  BY SlotsAre
<1>7. <<0, old>> \in At0(old, s) /\ Slots(s) \subseteq At0(old, s) /\ <<0, old>>[2] = old
  BY DEF At0
<1>8. /\ Slots(t) = Slots(s) \cup {<<k, new>>}
      /\ Failing(t) <=> Failing(s)
  BY <1>3, <1>6, SlotsGrow
<1>9. <<k, new>> \in Slots(t) /\ <<k, new>>[2] = new
  BY <1>8
<1>10. ASSUME NEW w \in Slots(t) PROVE w \in Slots(s) \/ (w = <<k, new>> /\ w[2] = new)
  BY <1>8
<1>11. LoopsGoOn(Slots(t))
  BY <1>3, <1>4, <1>7, <1>10 DEF Steered, LoopsGoOn
<1>12. TipsOnly(At0(old, s), T) => TipsOnly(Slots(t), T) /\ old.template \in T
  BY <1>1, <1>3, <1>7, <1>10 DEF TipsOnly
<1>13. LoopsIn(At0(old, s), Open(s)) => LoopsIn(Slots(t), Open(t))
  BY <1>3, <1>4, <1>7, <1>10 DEF LoopsIn
<1>14. ASSUME Followed(t)
       PROVE  Ordered(Slots(t), Open(t), T) /\ \A ch \in Open(t) : Well(Slots(t), t, T, ch)
  <2>1. Followed(s) /\ ~s.overtaken
    BY <1>3, <1>8, <1>14, KinFollowed DEF Followed
  <2>2. /\ Ordered({<<0, old>>} \cup Slots(s), Open(s), T)
        /\ \A ch \in Open(s) : Well(At0(old, s), s, T, ch)
    BY <2>1 DEF Steered, At0
  <2>3. s.socket \in {"open", "destroyed"}
    BY DEF SessType, Sockets
  <2>4. /\ s.socket = "destroyed" => TipsOnly(At0(old, s), T)
        /\ s.socket = "open" => LoopsIn(At0(old, s), Open(s))
    BY <2>1 DEF Steered
  <2>5. ASSUME IsLoop(old), s.socket = "open" PROVE Ordered(Slots(t), Open(t), T)
    <3>1. old.ch \in Open(s)
      BY <1>7, <2>4, <2>5 DEF LoopsIn
    <3>2. ASSUME NEW v \in TaskType, IsJob(v), Place(v) > Place(old)
          PROVE  Place(v) >= Place(new)
      <4>1. Place(v) \in Nat
        BY <3>2, JobPlace
      <4> QED
        BY <1>1, <1>4, <3>2, <4>1
    <3>3. Place(old) < Place(new)
      BY <1>1, <1>4
    <3>4. Ordered(Slots(s) \cup {<<k, new>>}, Open(s), T)
      BY <1>3, <1>4, <1>5, <1>6, <2>2, <2>5, <3>1, <3>2, <3>3, OrderedOn
    <3> QED
      BY <1>3, <1>8, <3>4
  <2>6. ASSUME ~IsLoop(old) PROVE Ordered(Slots(t), Open(t), T)
    <3>1. ~Leads(old, T)
      BY <2>6 DEF Leads
    <3>2. Ordered(Slots(s), Open(s), T)
      BY <1>5, <1>6, <2>2, <3>1, OrderedWithout
    <3>3. ~Late(new, Open(s), T)
      BY <1>3, <1>4, <2>6 DEF Late
    <3>4. \A v \in Slots(t) : v \in Slots(s) \/ ~Late(v[2], Open(s), T)
      BY <1>10, <3>3
    <3>5. Slots(s) \subseteq Slots(t)
      BY <1>8
    <3> QED
      BY <1>3, <3>2, <3>4, <3>5, OrderedWith
  <2>7. ASSUME s.socket = "destroyed" PROVE Ordered(Slots(t), Open(t), T)
    BY <1>12, <2>4, <2>7, OrderedTips
  <2>8. ASSUME NEW ch \in Open(t) PROVE Well(Slots(t), t, T, ch)
    <3>0. ch \in Open(s) /\ ch \in Nat
      BY <1>3, <1>5
    <3>1. Well(At0(old, s), s, T, ch)
      BY <2>2, <3>0
    <3>2. CASE ch # old.ch
      <4>1. ASSUME Reaches(old, T, ch) PROVE Reaches(new, T, ch)
        <5>1. Leads(old, T) /\ Place(old) <= 2 * ch
          BY <1>1, <3>2, <4>1 DEF Reaches
        <5>2. Place(new) <= 2 * ch
          BY <1>1, <1>4, <3>0, <3>2, <5>1
        <5>3. Leads(new, T)
          BY <1>3, <1>4, <5>1 DEF Leads
        <5> QED
          BY <5>2, <5>3 DEF Reaches
      <4>2. \A w \in At0(old, s) : w \in Slots(s) \/ w[2] = old
        BY DEF At0
      <4>3. Reached(At0(old, s), T, ch) => Reached(Slots(t), T, ch)
        BY <1>8, <1>9, <4>1, <4>2 DEF Reached
      <4>4. t.chans[ch] = s.chans[ch] /\ t.openings = s.openings
        BY <1>3, <3>0, <3>2 DEF Kin
      <4> QED
        BY <3>1, <4>3, <4>4 DEF Well
    <3>3. CASE ch = old.ch /\ old.template \in T
      BY <1>3, <3>0, <3>3 DEF Well
    <3>4. CASE ch = old.ch /\ old.template \notin T
      <4>1. Late(old, Open(s), T)
        BY <3>0, <3>4 DEF Late
      <4>2. PICK z \in Slots(s) : Leads(z[2], T) /\ Place(z[2]) <= Place(old)
        BY <1>5, <1>6, <2>2, <4>1, LateHasLead
      <4>3. Place(z[2]) <= 2 * ch
        BY <1>1, <3>4, <4>2
      <4> QED
        BY <1>8, <4>2, <4>3 DEF Well, Reached, Reaches
    <3> QED
      BY <3>2, <3>3, <3>4
  <2> QED
    BY <2>3, <2>5, <2>6, <2>7, <2>8
<1> QED
  BY <1>3, <1>11, <1>12, <1>13, <1>14 DEF Steered, Kin

(* A loop that goes to all channels starts with a template of the tip and   *)
(* its previous hash: whatever was under way is behind it.                  *)
Based(W, s, T) ==
    /\ LoopsGoOn(W)
    /\ s.socket = "destroyed" => TipsOnly(W, T)
    /\ s.socket = "open" /\ ~s.overtaken => LoopsIn(W, Open(s))

LEMMA Restarted ==
    ASSUME NEW s \in SessType, 0 \notin Open(s), NEW template \in 1..MaxTemplates,
           NEW kind \in {"fan", "retarget"}, NEW t, t = SendFrom(s, 0, template, TRUE, kind),
           NEW T, template \in T, Based(Slots(s), s, T)
    PROVE  Steered(Slots(t), t, T)
<1>1. Open(s) \in SUBSET Nat
  BY ChansOf
<1>2. PICK k \in Nat : k = Len(s.writes) + 1 /\ Queue(Slots(s), k)
  BY SlotsAre
<1>3. CASE t = s /\ \A d \in Open(s) : d <= 0
  <2>1. Open(s) = {}
    BY <1>1, <1>3
  <2>2. Ordered(Slots(s), Open(s), T)
    BY <2>1 DEF Ordered, Late
  <2> QED
    BY <1>3, <2>1, <2>2 DEF Steered, Based
<1>4. ASSUME NEW next \in Open(s), NEW n \in Nat \ {0}, \A d \in Open(s) : d > 0 => d >= next,
             Sent(s, t, next, n, template, TRUE, kind)
      PROVE  Steered(Slots(t), t, T)
  <2>1. PICK new : new = JobSent(next, n, template, TRUE, [kind |-> kind, after |-> next])
    OBVIOUS
  <2>2. /\ new \in TaskType /\ Kin(s, t) /\ Open(t) = Open(s)
        /\ t.writes = Append(s.writes, [task |-> new, fails |-> FALSE])
    BY <1>4, <2>1 DEF Sent
  <2>3. Slots(t) = Slots(s) \cup {<<k, new>>}
    BY <1>2, <2>2, SlotsGrow
  <2>4. next \in Nat
    BY <1>1
  <2>5. /\ IsLoop(new) /\ IsJob(new) /\ new.ch = next /\ new.template = template
        /\ new.prev = TRUE /\ new.then.after = next /\ Place(new) = 2 * next
    BY ONLY kind \in {"fan", "retarget"}, <2>1 DEF JobSent, IsLoop, IsJob, Place
  <2>6. Leads(new, T)
    BY <2>5 DEF Leads
  <2>7. ASSUME NEW ch \in Open(s) PROVE Place(new) <= 2 * ch
    <3>1. ch \in Nat /\ ch > 0
      BY <1>1
    <3>2. ch >= next
      BY <1>4, <3>1
    <3> QED
      BY <2>4, <2>5, <3>1, <3>2
  <2>8. ASSUME NEW w \in Slots(t) PROVE w \in Slots(s) \/ w[2] = new
    BY ONLY <2>3, <2>8
  <2>9. LoopsGoOn(Slots(t)) /\ (TipsOnly(Slots(s), T) => TipsOnly(Slots(t), T))
        /\ (LoopsIn(Slots(s), Open(s)) => LoopsIn(Slots(t), Open(t)))
    BY <2>2, <2>5, <2>8 DEF Based, LoopsGoOn, TipsOnly, LoopsIn
  <2>10. Ordered(Slots(t), Open(t), T)
    <3>1. Ordered(Slots(s) \cup {<<k, new>>}, Open(s), T)
      <4>1. new \in TaskType
        BY <2>2
      <4> QED
        BY ONLY <1>1, <1>2, <2>6, <2>7, <4>1, OrderedAnew
    <3> QED
      BY ONLY <2>2, <2>3, <3>1
  <2>11. ASSUME NEW ch \in Open(t) PROVE Well(Slots(t), t, T, ch)
    <3>1. <<k, new>> \in Slots(t) /\ <<k, new>>[2] = new
      BY <2>3
    <3>2. Reaches(new, T, ch)
      BY <2>2, <2>6, <2>7 DEF Reaches
    <3> QED
      BY <3>1, <3>2 DEF Well, Reached
  <2> QED
    BY <2>2, <2>9, <2>10, <2>11 DEF Steered, Based, Kin
<1>5. \/ t = s /\ \A d \in Open(s) : d <= 0
      \/ \E next \in Open(s), n \in Nat \ {0} :
            /\ next > 0 /\ \A d \in Open(s) : d > 0 => d >= next
            /\ Sent(s, t, next, n, template, TRUE, kind)
  <2>1. PICK ch \in Nat, prev \in BOOLEAN : ch = 0 /\ prev = TRUE
    OBVIOUS
  <2>2. t = SendFrom(s, ch, template, prev, kind)
    BY <2>1
  <2>3. \/ t = s /\ \A d \in Open(s) : d <= ch
        \/ \E next \in Open(s), n \in Nat \ {0} :
              /\ next > ch /\ \A d \in Open(s) : d > ch => d >= next
              /\ Sent(s, t, next, n, template, prev, kind)
    BY ONLY s \in SessType, ch \in Nat, template \in 1..MaxTemplates, prev \in BOOLEAN,
            kind \in {"fan", "retarget"}, <2>2, SendFromEffect
  <2> QED
    BY <2>1, <2>3
<1> QED
  BY <1>3, <1>4, <1>5

-----------------------------------------------------------------------------
(* What the handlers do. *)

(* The loops and what the channels work on are the same.                    *)
Calm(s, t) ==
    /\ Kin(s, t) /\ t.writes = s.writes /\ Open(t) = Open(s)
    /\ \A ch \in Open(s) : /\ t.chans[ch].works = s.chans[ch].works
                           /\ t.chans[ch].prev = s.chans[ch].prev

LEMMA CalmSteers ==
    ASSUME NEW s, NEW t, Calm(s, t)
    PROVE  /\ Slots(t) = Slots(s) /\ \A old : At0(old, t) = At0(old, s)
           /\ \A W, T : Steered(W, s, T) => Steered(W, t, T)
           /\ \A T : Steered(Slots(s), s, T) => Steered(Slots(t), t, T)
           /\ Sound(s) => Sound(t)
<1>1. Slots(t) = Slots(s) /\ (Failing(t) <=> Failing(s))
  BY SlotsSame DEF Calm
<1>2. ASSUME NEW W, NEW T, Steered(W, s, T) PROVE Steered(W, t, T)
  <2>1. Followed(t) => Followed(s)
    BY <1>1, KinFollowed DEF Calm
  <2>2. \A ch \in Open(s) : Well(W, s, T, ch) => Well(W, t, T, ch)
    BY DEF Calm, Kin, Well
  <2> QED
    BY <1>2, <2>1, <2>2 DEF Steered, Calm, Kin
<1>3. Sound(s) => Sound(t)
  BY <1>1 DEF Sound, Calm, Kin
<1> QED
  BY <1>1, <1>2, <1>3 DEF At0

LEMMA TipsLatest ==
    ASSUME Chain(infos)
    PROVE  Latest \in 1..MaxTemplates /\ Latest \in Tips(infos)
BY DEF Chain, Latest, Tips

(* A frame is added to those that wait.                                     *)
LEMMA WriteSound ==
    ASSUME NEW s \in SessType, NEW t, NEW task \in TaskType, Kin(s, t),
           t.writes = Append(s.writes, [task |-> task, fails |-> FALSE]), Sound(s)
    PROVE  Sound(t)
<1>1. Failing(t) <=> Failing(s)
  BY SlotsGrow
<1> QED
  BY <1>1 DEF Sound, Kin

LEMMA SendFromSound ==
    ASSUME NEW s \in SessType, NEW ch \in Nat, NEW template \in 1..MaxTemplates,
           NEW prev \in BOOLEAN, NEW kind \in {"fan", "retarget"},
           NEW t, t = SendFrom(s, ch, template, prev, kind), Sound(s)
    PROVE  Sound(t)
<1>1. ASSUME NEW next \in Open(s), NEW n \in Nat \ {0},
             Sent(s, t, next, n, template, prev, kind)
      PROVE  Sound(t)
  <2>1. PICK task : task = JobSent(next, n, template, prev, [kind |-> kind, after |-> next])
    OBVIOUS
  <2>2. /\ task \in TaskType /\ Kin(s, t)
        /\ t.writes = Append(s.writes, [task |-> task, fails |-> FALSE])
    BY <1>1, <2>1 DEF Sent
  <2> QED
    BY <2>2, WriteSound
<1> QED
  BY <1>1, SendFromEffect

LEMMA RetiredIs ==
    ASSUME NEW s \in SessType, NEW t, t = Retired(s)
    PROVE  /\ t \in SessType /\ t.writes = s.writes /\ Open(t) = Open(s)
           /\ t.socket = s.socket /\ t.destroyed = s.destroyed /\ t.overtaken = s.overtaken
<1>1. PICK chans : chans = [ch \in Open(s) |-> NewBlock(s.chans[ch])]
  OBVIOUS
<1>2. DOMAIN chans = Open(s)
  BY <1>1
<1>3. chans \in [Open(s) -> ChanType] /\ Open(s) \in SUBSET Nat
  BY <1>1, ChansOf, NewBlockEffect
<1>4. chans \in ChansType
  BY <1>3, IsChans
<1>5. t = [s EXCEPT !.chans = chans, !.missed = FALSE]
  BY <1>1 DEF Retired
<1>6. /\ t \in SessType /\ t.chans = chans /\ t.writes = s.writes
      /\ t.socket = s.socket /\ t.destroyed = s.destroyed /\ t.overtaken = s.overtaken
  BY ONLY s \in SessType, chans \in ChansType, <1>4, <1>5, ZenonT(60) DEF SessType
<1> QED
  BY <1>2, <1>6 DEF Open

(* The subscriber: of another template of the tip, or of the first of one.  *)
LEMMA OnTemplateSteers ==
    ASSUME NEW s \in SessType, 0 \notin Open(s), Sound(s), NEW template \in 1..MaxTemplates,
           NEW clear \in BOOLEAN, NEW t, t = OnTemplate(s, template, clear),
           NEW T, template \in T,
           IF clear THEN Based(Slots(s), s, T) ELSE Steered(Slots(s), s, T)
    PROVE  Steered(Slots(t), t, T) /\ Sound(t)
<1>1. PICK kind \in {"fan", "retarget"}, ch \in Nat : kind = "fan" /\ ch = 0
  OBVIOUS
<1>2. CASE clear = TRUE
  <2>1. PICK u : u = Retired(s)
    OBVIOUS
  <2>2. /\ u \in SessType /\ u.writes = s.writes /\ Open(u) = Open(s)
        /\ u.socket = s.socket /\ u.destroyed = s.destroyed /\ u.overtaken = s.overtaken
    BY <2>1, RetiredIs
  <2>3. t = SendFrom(u, ch, template, clear, kind)
    BY <1>1, <1>2, <2>1 DEF OnTemplate, Retired
  <2>4. Slots(u) = Slots(s) /\ (Failing(u) <=> Failing(s))
    BY <2>2, SlotsSame
  <2>5. Based(Slots(u), u, T) /\ Sound(u) /\ 0 \notin Open(u)
    BY <1>2, <2>2, <2>4 DEF Based, Sound
  <2>6. t = SendFrom(u, 0, template, TRUE, kind)
    BY <1>1, <1>2, <2>3
  <2>7. Steered(Slots(t), t, T)
    BY ONLY kind \in {"fan", "retarget"}, template \in 1..MaxTemplates, template \in T,
            <2>2, <2>5, <2>6, Restarted
  <2>8. Sound(t)
    BY <2>2, <2>3, <2>5, SendFromSound
  <2> QED
    BY <2>7, <2>8
<1>3. CASE clear = FALSE
  <2>1. t = SendFrom(s, ch, template, clear, kind)
    BY <1>1, <1>3 DEF OnTemplate
  <2> QED
    BY <1>3, <2>1, Started, SendFromSound
<1> QED
  BY <1>2, <1>3

(* A session subscribes: what it works on is the latest template, as no     *)
(* block came before, or what is replayed is a new block's.                 *)
LEMMA SubscribedSteers ==
    ASSUME NEW s \in SessType, 0 \notin Open(s), Sound(s), Chain(infos),
           NEW T, T = Tips(infos), NEW t, t = Subscribed(s), Steered(Slots(s), s, T)
    PROVE  Steered(Slots(t), t, T) /\ Sound(t)
<1>1. CASE s.stream
  BY <1>1 DEF Subscribed
<1>2. CASE ~s.stream
  <2>1. PICK e \in BOOLEAN : e = s.early
    BY DEF SessType
  <2>2. PICK u : u = [s EXCEPT !.stream = TRUE, !.missed = e]
    OBVIOUS
  <2>3. /\ u \in SessType /\ u.socket = s.socket /\ u.destroyed = s.destroyed /\ u.row = s.row
        /\ u.workSelection = s.workSelection /\ u.overtaken = s.overtaken
        /\ u.openings = s.openings /\ u.stream = TRUE /\ u.missed = e
        /\ u.chans = s.chans /\ u.writes = s.writes
    BY ONLY s \in SessType, e \in BOOLEAN, <2>2, ZenonT(60) DEF SessType
  <2>4. Slots(u) = Slots(s) /\ (Failing(u) <=> Failing(s)) /\ Open(u) = Open(s)
    BY <2>3, SlotsSame DEF Open
  <2>5. Followed(u) => Followed(s)
    BY <1>2, <2>1, <2>3, <2>4 DEF Followed
  <2>6. Steered(Slots(u), u, T) /\ Sound(u) /\ 0 \notin Open(u)
    BY <2>3, <2>4, <2>5 DEF Steered, Sound, Well
  <2>7. Based(Slots(u), u, T)
    BY <2>6 DEF Based, Steered
  <2>8. PICK clear \in BOOLEAN : clear = (Latest \in clears)
    <3>1. (Latest \in clears) \in BOOLEAN
      OBVIOUS
    <3> QED
      BY <3>1, Zenon
  <2>9. t = OnTemplate(u, Latest, clear)
    BY <1>2, <2>1, <2>2, <2>8 DEF Subscribed
  <2> QED
    BY <2>3, <2>6, <2>7, <2>9, TipsLatest, OnTemplateSteers
<1> QED
  BY <1>1, <1>2

(* A frame that disturbs nothing is written.                                *)
LEMMA WriteSteers ==
    ASSUME NEW s \in SessType, NEW task \in TaskType, NEW t, t = Write(s, task),
           NEW T, NEW W, Fits(task, Open(s), T), Sound(s), Steered(W, s, T), Slots(s) \subseteq W
    PROVE  /\ Steered(W \cup Slots(t), t, T) /\ Sound(t) /\ t \in SessType
           /\ Open(t) = Open(s)
<1>1. /\ t \in SessType /\ Rest(s, t) /\ Flags(s, t) /\ t.chans = s.chans /\ Open(t) = Open(s)
      /\ t.writes = Append(s.writes, [task |-> task, fails |-> FALSE])
  BY WriteEffect
<1>2. Kin(s, t)
  BY <1>1, RestIsKin
<1>3. PICK k : k = Len(s.writes) + 1
  OBVIOUS
<1>4. Slots(t) = Slots(s) \cup {<<k, task>>} /\ (Failing(t) <=> Failing(s))
  BY <1>1, <1>3, SlotsGrow
<1>5. <<k, task>>[2] = task
  OBVIOUS
<1>6. \A x \in W \cup Slots(t) : x \in W \/ Fits(x[2], Open(s), T)
  BY <1>4, <1>5
<1>7. \A ch \in Open(s) : Tipped(s, T, ch) => Tipped(t, T, ch)
  BY <1>1 DEF Tipped
<1>8. W \subseteq W \cup Slots(t)
  OBVIOUS
<1>9. Steered(W \cup Slots(t), t, T)
  BY <1>1, <1>2, <1>4, <1>6, <1>7, <1>8, Added
<1> QED
  BY <1>1, <1>2, <1>9, WriteSound

(* checkDifficulty goes on: the next channel's target, or the jobs.         *)
LEMMA SetTargetsSteers ==
    ASSUME NEW s \in SessType, NEW ch \in Nat, Sound(s), Chain(infos),
           NEW T, T = Tips(infos), NEW t, t = SetTargets(s, ch), Steered(Slots(s), s, T)
    PROVE  Steered(Slots(t), t, T) /\ Sound(t)
<1>0. Latest \in 1..MaxTemplates /\ Latest \in T
  BY TipsLatest
<1>1. CASE Following(s, ch) = {}
  <2>1. PICK kind \in {"fan", "retarget"}, d \in Nat, prev \in BOOLEAN :
           kind = "retarget" /\ d = 0 /\ prev = TRUE
    OBVIOUS
  <2>2. t = SendFrom(s, d, Latest, prev, kind)
    BY <1>1, <2>1 DEF SetTargets
  <2> QED
    BY ONLY s \in SessType, Sound(s), Steered(Slots(s), s, T), <1>0, <2>2, Started, SendFromSound,
            kind \in {"fan", "retarget"}, d \in Nat, prev \in BOOLEAN
<1>2. CASE Following(s, ch) # {}
  <2>1. Following(s, ch) \in SUBSET Nat /\ Following(s, ch) \subseteq Open(s)
    BY ChansOf DEF Following
  <2>2. PICK next \in Open(s) : next = Min(Following(s, ch)) /\ next \in Nat
    BY <1>2, <2>1, LeastOf
  <2>3. PICK a \in ChanType, d \in Nat : a = s.chans[next] /\ d = s.diff
    BY ChansOf DEF SessType
  <2>4. PICK told \in SUBSET Nat : told = a.told \cup {d}
    BY DEF ChanType
  <2>5. PICK chan : chan = [a EXCEPT !.diff = d, !.told = told]
    OBVIOUS
  <2>6. chan \in ChanType /\ chan.works = a.works /\ chan.prev = a.prev
    BY ONLY a \in ChanType, d \in Nat, told \in SUBSET Nat, <2>5, ZenonT(60) DEF ChanType
  <2>7. PICK r : r = With(s, next, chan)
    OBVIOUS
  <2>8. /\ r \in SessType /\ Rest(s, r) /\ Flags(s, r)
        /\ r.writes = s.writes /\ Open(r) = Open(s) /\ r.chans[next] = chan
        /\ \A e \in Open(s) : e # next => r.chans[e] = s.chans[e]
    BY <2>6, <2>7, WithEffect
  <2>9. Calm(s, r)
    BY <2>3, <2>6, <2>8, RestIsKin DEF Calm
  <2>10. PICK task \in TaskType : task = [at |-> "target", ch |-> next]
    BY <2>2 DEF TaskType, TargetTask
  <2>11. t = Write(r, task)
    BY <1>2, <2>2, <2>3, <2>4, <2>5, <2>7, <2>10 DEF SetTargets
  <2>12. Fits(task, Open(r), T)
    BY <2>10 DEF Fits, IsLoop, IsJob
  <2>13. Steered(Slots(r), r, T) /\ Sound(r)
    BY <2>9, CalmSteers
  <2>14. Steered(Slots(r) \cup Slots(t), t, T) /\ Sound(t)
    BY <2>8, <2>11, <2>12, <2>13, WriteSteers
  <2>15. Slots(r) \subseteq Slots(t)
    <3>1. t.writes = Append(r.writes, [task |-> task, fails |-> FALSE])
      BY <2>8, <2>11, WriteEffect
    <3> QED
      BY <2>8, <3>1, SlotsGrow
  <2>16. Slots(r) \cup Slots(t) = Slots(t)
    BY <2>15
  <2> QED
    BY <2>14, <2>16
<1> QED
  BY <1>1, <1>2

(* A channel is told of its opening, and sent the latest template.          *)
LEMMA OpenedSteers ==
    ASSUME NEW s \in SessType, Sound(s), Chain(infos), NEW T, T = Tips(infos),
           NEW old \in OpenedTask, NEW t,
           t = SendJob(s, old.ch, Latest, TRUE, [kind |-> "open", first |-> old.first]),
           Steered(At0(old, s), s, T)
    PROVE  Steered(Slots(t), t, T) /\ Sound(t)
<1>1. /\ old \in TaskType /\ old.at = "opened" /\ old.ch \in Nat /\ old.first \in BOOLEAN
      /\ ~IsJob(old) /\ ~IsLoop(old)
  BY DEF OpenedTask, TaskType, IsJob, IsLoop
<1>2. PICK ch \in Nat, template \in 1..MaxTemplates, prev \in BOOLEAN, then \in ThenType :
         /\ ch = old.ch /\ template = Latest /\ prev = TRUE
         /\ then = [kind |-> "open", first |-> old.first] /\ then.kind = "open"
  <2>1. [kind |-> "open", first |-> old.first] \in ThenType
    BY <1>1 DEF ThenType
  <2> QED
    BY <1>1, <2>1, TipsLatest
<1>3. PICK n, new : n = s.made + 1 /\ new = JobSent(ch, n, template, prev, then)
  OBVIOUS
<1>4. t = SendJob(s, ch, template, prev, then)
  BY <1>2
<1>5. /\ t \in SessType /\ Rest(s, t) /\ Flags(s, t) /\ Open(t) = Open(s) /\ new \in JobTask
      /\ t.writes = Append(s.writes, [task |-> new, fails |-> FALSE])
      /\ \A d \in Open(s) : d # ch => t.chans[d] = s.chans[d]
      /\ ch \in Open(s) => SentOn(s.chans[ch], t.chans[ch], n, template, prev)
  BY ONLY s \in SessType, ch \in Nat, template \in 1..MaxTemplates, prev \in BOOLEAN,
          then \in ThenType, <1>3, <1>4, SendJobEffect
<1>6. Kin(s, t) /\ new \in TaskType
  BY <1>5, RestIsKin DEF TaskType
<1>7. /\ new.at = "job" /\ new.ch = ch /\ new.prev = TRUE /\ new.template = template
      /\ new.then.kind = "open"
  BY ONLY <1>2, <1>3 DEF JobSent
<1>8. template \in T
  BY <1>2, TipsLatest
<1>9. Fits(new, Open(s), T) /\ Reaches(new, T, ch)
  BY <1>7, <1>8 DEF Fits, Reaches, IsJob, IsLoop
<1>10. PICK k : k = Len(s.writes) + 1
  OBVIOUS
<1>11. Slots(t) = Slots(s) \cup {<<k, new>>} /\ (Failing(t) <=> Failing(s))
  BY ONLY s \in SessType, <1>5, <1>6, <1>10, SlotsGrow
<1>12. <<k, new>>[2] = new
  OBVIOUS
<1>13. \A x \in At0(old, t) : x \in At0(old, s) \/ Fits(x[2], Open(s), T)
  BY <1>9, <1>11, <1>12 DEF At0
<1>14. At0(old, s) \subseteq At0(old, t)
  BY <1>11 DEF At0
<1>15. \A d \in Open(s) : Tipped(s, T, d) => Tipped(t, T, d)
  <2>1. \A d \in Open(s) : t.chans[d].works = s.chans[d].works /\ t.chans[d].prev = s.chans[d].prev
    BY <1>2, <1>5 DEF SentOn
  <2> QED
    BY <2>1 DEF Tipped
<1>16. Steered(At0(old, t), t, T)
  BY ONLY s \in SessType, Steered(At0(old, s), s, T), <1>5, <1>6, <1>11, <1>13, <1>14, <1>15,
          Added
<1>17. \A d \in Open(t) : Reaches(old, T, d) => Reached(Slots(t), T, d)
  <2>1. ASSUME NEW d \in Open(t), Reaches(old, T, d) PROVE d = ch
    BY <1>1, <1>2, <2>1 DEF Reaches, Leads
  <2>2. <<k, new>> \in Slots(t)
    BY <1>11
  <2> QED
    BY <1>9, <1>12, <2>1, <2>2 DEF Reached
<1>18. Steered(Slots(t), t, T)
  BY <1>1, <1>5, <1>16, <1>17, Dropped
<1> QED
  BY <1>5, <1>6, <1>18, WriteSound

(* What follows a job.                                                      *)
LEMMA ThenSteers ==
    ASSUME NEW s \in SessType, 0 \notin Open(s), Sound(s), Chain(infos),
           NEW T, T = Tips(infos), NEW old \in JobTask, old.at = "active" \/ ~old.prev,
           NEW t, t = Then(s, old.template, old.prev, old.then), Steered(At0(old, s), s, T)
    PROVE  Steered(Slots(t), t, T) /\ Sound(t)
<1>1. /\ old \in TaskType /\ IsJob(old) /\ old.template \in 1..MaxTemplates
      /\ old.prev \in BOOLEAN /\ old.then \in ThenType
  BY DEF TaskType, JobTask, IsJob
<1>2. CASE old.then.kind = "open"
  <2>1. Steered(Slots(s), s, T)
    <3>1. ~IsLoop(old) /\ old.at # "opened" /\ ~(old.at = "job" /\ old.prev)
      BY <1>1, <1>2 DEF IsLoop, IsJob
    <3> QED
      BY <1>1, <3>1, Idle
  <2>2. t = s \/ t = Subscribed(s)
    BY <1>2 DEF Then
  <2> QED
    BY <2>1, <2>2, SubscribedSteers
<1>3. CASE old.then.kind # "open"
  <2>1. IsLoop(old) /\ old.then.kind \in {"fan", "retarget"} /\ old.then.after \in Nat
    BY <1>1, <1>3 DEF IsLoop, ThenType
  <2>2. PICK kind \in {"fan", "retarget"}, prev \in BOOLEAN, ch \in Nat :
           /\ kind = old.then.kind /\ prev = (kind = "retarget" \/ old.prev)
           /\ ch = old.then.after
    <3>1. (old.then.kind = "retarget" \/ old.prev) \in BOOLEAN
      OBVIOUS
    <3> QED
      BY <2>1, <3>1, Zenon
  <2>3. t = SendFrom(s, old.then.after, old.template, prev, kind)
    <3>1. CASE kind = "fan"
      <4>1. prev = old.prev
        BY <1>1, <2>2, <3>1
      <4> QED
        BY <2>2, <3>1, <4>1 DEF Then
    <3>2. CASE kind = "retarget"
      <4>1. prev = TRUE
        BY <2>2, <3>2
      <4> QED
        BY <2>2, <3>2, <4>1 DEF Then
    <3> QED
      BY <3>1, <3>2
  <2>4. old.prev => prev
    BY <2>2
  <2>5. Steered(Slots(t), t, T)
    BY <1>1, <2>1, <2>3, <2>4, WentOn
  <2>6. Sound(t)
    <3>1. t = SendFrom(s, ch, old.template, prev, kind)
      BY <2>2, <2>3
    <3> QED
      BY ONLY s \in SessType, Sound(s), ch \in Nat, prev \in BOOLEAN,
              kind \in {"fan", "retarget"}, <1>1, <3>1, SendFromSound
  <2> QED
    BY <2>5, <2>6
<1> QED
  BY <1>2, <1>3

(* Fields the loops do not depend on. *)
LEMMA FieldsCalm ==
    ASSUME NEW s \in SessType, NEW x, NEW y
    PROVE  /\ Calm(s, [s EXCEPT !.handshake = x])
           /\ Calm(s, [s EXCEPT !.calls = x])
           /\ Calm(s, [s EXCEPT !.more = x])
           /\ Calm(s, [s EXCEPT !.diff = x, !.msgs = y])
           /\ Calm(s, [s EXCEPT !.msgs = x, !.racing = y])
           /\ Calm(s, [s EXCEPT !.accepted = x, !.stale = y])
           /\ Calm(s, [s EXCEPT !.forgot = x])
           /\ Calm(s, [s EXCEPT !.made = x, !.jobs = y])
BY DEF SessType, Calm, Kin, Flags, Open

LEMMA CallCalm ==
    ASSUME NEW s \in SessType, NEW at, NEW share
    PROVE  Calm(s, Call(s, at, share))
BY FieldsCalm DEF Call

LEMMA CalmTwice ==
    ASSUME NEW s, NEW t, NEW u, Calm(s, t), Calm(t, u)
    PROVE  Calm(s, u)
BY DEF Calm, Kin, Flags

LEMMA WithCalm ==
    ASSUME NEW s \in SessType, NEW ch \in Open(s), NEW chan,
           chan.works = s.chans[ch].works, chan.prev = s.chans[ch].prev
    PROVE  Calm(s, With(s, ch, chan))
<1>1. PICK f : f = [s.chans EXCEPT ![ch] = chan]
  OBVIOUS
<1>2. DOMAIN f = Open(s) /\ f[ch] = chan /\ \A d \in Open(s) : d # ch => f[d] = s.chans[d]
  BY <1>1, ChansOf
<1>3. PICK t : t = [s EXCEPT !.chans = f]
  OBVIOUS
<1>4. t = With(s, ch, chan)
  BY <1>1, <1>3 DEF With
<1>5. Kin(s, t) /\ t.writes = s.writes /\ t.chans = f
  BY ONLY s \in SessType, <1>3, ZenonT(60) DEF SessType, Kin, Flags
<1> QED
  BY <1>2, <1>4, <1>5 DEF Calm, Open

(* A job is recorded. *)
LEMMA RecordedCalm ==
    ASSUME NEW s \in SessType, NEW task \in JobTask, NEW t, t = Recorded(s, task)
    PROVE  Calm(s, t)
<1>1. CASE task.ch \notin Open(s) \/ ~Extended(s, task.ch)
  BY <1>1 DEF Recorded, Calm, Kin, Flags
<1>2. CASE task.ch \in Open(s) /\ Extended(s, task.ch)
  <2>1. PICK a \in ChanType : a = s.chans[task.ch]
    BY <1>2, ChansOf
  <2>2. PICK chan : \E x, y : chan = [a EXCEPT !.held = x, !.on = y] /\ t = With(s, task.ch, chan)
    BY <1>2, <2>1, Zenon DEF Recorded
  <2>3. chan.works = a.works /\ chan.prev = a.prev
    BY ONLY a \in ChanType, <2>2 DEF ChanType
  <2>4. t = With(s, task.ch, chan)
    BY <2>2
  <2> QED
    BY <1>2, <2>1, <2>3, <2>4, WithCalm
<1> QED
  BY <1>1, <1>2

(* A write ends: what it carried is the first of those that wait.           *)
LEMMA DoneSteers ==
    ASSUME NEW s \in SessType, NEW i \in DOMAIN s.writes, ~s.writes[i].fails,
           i = 1 \/ s.socket = "destroyed", NEW r, r = Done(s, i),
           NEW task, task = Task(s, i), NEW T, SteerOK(s, T)
    PROVE  Steered(At0(task, r), r, T) /\ Sound(r)
<1>1. /\ \A x \in At0(task, r) : \E w \in Slots(s) :
            w[2] = x[2] /\ (i = 1 => x[1] \in Nat /\ w[1] = x[1] + 1)
      /\ \A w \in Slots(s) : \E x \in At0(task, r) :
            w[2] = x[2] /\ (i = 1 => x[1] \in Nat /\ w[1] = x[1] + 1)
      /\ Failing(r) <=> Failing(s)
  BY SlotsDone
<1>2. /\ Rest(s, r) /\ Flags(s, r) /\ r.chans = s.chans /\ Open(r) = Open(s)
  BY DoneEffect
<1>3. Kin(s, r)
  BY <1>2, RestIsKin
<1>4. Steered(Slots(s), s, T) /\ Sound(s)
  BY DEF SteerOK
<1>5. /\ LoopsGoOn(At0(task, r)) /\ (TipsOnly(Slots(s), T) => TipsOnly(At0(task, r), T))
      /\ (LoopsIn(Slots(s), Open(s)) => LoopsIn(At0(task, r), Open(r)))
  BY <1>1, <1>2, <1>4 DEF Steered, LoopsGoOn, TipsOnly, LoopsIn
<1>6. ASSUME Followed(r)
      PROVE  /\ Ordered(At0(task, r), Open(r), T)
             /\ \A ch \in Open(r) : Well(At0(task, r), r, T, ch)
  <2>1. Followed(s)
    BY <1>1, <1>3, <1>6, KinFollowed
  <2>2. Ordered(Slots(s), Open(s), T) /\ \A ch \in Open(s) : Well(Slots(s), s, T, ch)
    BY <1>4, <2>1 DEF Steered
  <2>3. CASE i = 1
    <3>1. PICK k \in Nat : Queue(Slots(s), k)
      BY SlotsAre
    <3>2. Ordered(At0(task, r), Open(s), T)
      BY ONLY <1>1, <2>2, <2>3, <3>1, OrderedUp
    <3> QED
      BY <1>1, <1>2, <1>3, <2>2, <3>2 DEF Well, Reached, Kin
  <2>4. CASE s.socket = "destroyed"
    <3>1. TipsOnly(At0(task, r), T)
      BY <1>4, <1>5, <2>4 DEF Steered
    <3> QED
      BY <1>1, <1>2, <1>3, <2>2, <3>1, OrderedTips DEF Well, Reached, Kin
  <2> QED
    BY <2>3, <2>4
<1>7. Steered(At0(task, r), r, T)
  BY <1>2, <1>3, <1>4, <1>5, <1>6 DEF Steered, Kin
<1> QED
  BY <1>1, <1>3, <1>4, <1>7 DEF Sound, Kin

(* ... and the handler goes on. *)
LEMMA AfterSteers ==
    ASSUME NEW s \in SessType, 0 \notin Open(s), Sound(s), Chain(infos),
           NEW T, T = Tips(infos), NEW old \in TaskType, SessOK(s, infos),
           old.at # "act2" => s.row = "have",
           old.at = "job" => old.template <= Len(infos) /\ Free(s, old),
           NEW t, t = After(s, old), Steered(At0(old, s), s, T)
    PROVE  Steered(Slots(t), t, T) /\ Sound(t)
<1>1. ASSUME old.at \in {"act2", "target", "replied"}
      PROVE  Steered(Slots(s), s, T)
  <2>1. ~IsLoop(old) /\ old.at # "opened" /\ old.at # "job"
    BY <1>1 DEF IsLoop, IsJob
  <2> QED
    BY <2>1, Idle
<1>2. CASE old.at = "act2"
  <2>1. t = [s EXCEPT !.handshake = "done"]
    BY <1>2 DEF After
  <2>2. PICK x : x = "done"
    OBVIOUS
  <2>3. Calm(s, t)
    BY ONLY s \in SessType, <2>1, <2>2, FieldsCalm
  <2> QED
    BY <1>1, <1>2, <2>3, CalmSteers
<1>3. CASE old.at = "opened"
  <2>1. old \in OpenedTask /\ ~IsLoop(old)
    BY <1>3 DEF TaskType, Act2Task, OpenedTask, JobTask, TargetTask, ReplyTask, IsLoop, IsJob
  <2>2. CASE s.workSelection
    <3>1. ~Followed(s) /\ t = s
      BY <1>3, <2>2 DEF Followed, After
    <3> QED
      BY <2>1, <3>1, Dropped
  <2>3. CASE ~s.workSelection
    <3>1. t = SendJob(s, old.ch, Latest, TRUE, [kind |-> "open", first |-> old.first])
      BY <1>3, <2>3 DEF After
    <3> QED
      BY <2>1, <3>1, OpenedSteers
  <2> QED
    BY <2>2, <2>3
<1>4. CASE old.at = "job"
  <2>1. old \in JobTask
    BY <1>4 DEF TaskType, Act2Task, OpenedTask, JobTask, TargetTask, ReplyTask
  <2>2. PICK u : u = Recorded(s, old)
    OBVIOUS
  <2>3. u \in SessType
    BY <1>4, <2>1, <2>2, RecordedOK
  <2>4. Calm(s, u)
    BY <2>1, <2>2, RecordedCalm
  <2>5. Steered(At0(old, u), u, T) /\ Sound(u) /\ 0 \notin Open(u)
    <3>1. At0(old, u) = At0(old, s) /\ Steered(At0(old, s), u, T) /\ Sound(u)
      BY <2>4, CalmSteers
    <3> QED
      BY <2>4, <3>1 DEF Calm
  <2>6. CASE old.prev
    <3>1. t = Activated(u, old)
      BY <1>4, <2>2, <2>6 DEF After
    <3>2. Steered(Slots(t), t, T)
      BY ONLY <1>4, <2>3, <2>5, <2>6, <3>1, old \in TaskType, Activates
    <3>3. PICK new : new = Active(old)
      OBVIOUS
    <3>4. /\ Kin(u, t) /\ new \in TaskType
          /\ t.writes = Append(u.writes, [task |-> new, fails |-> FALSE])
      BY ONLY <2>1, <2>3, <3>1, <3>3, ActivatedEffect
    <3>5. Sound(t)
      BY <2>3, <2>5, <3>4, WriteSound
    <3> QED
      BY <3>2, <3>5
  <2>7. CASE ~old.prev
    <3>1. t = Then(u, old.template, old.prev, old.then)
      BY <1>4, <2>2, <2>7 DEF After
    <3> QED
      BY ONLY <2>1, <2>3, <2>5, <2>7, <3>1, Chain(infos), T = Tips(infos), ThenSteers
  <2> QED
    BY <2>6, <2>7
<1>5. CASE old.at = "active"
  <2>1. old \in JobTask
    BY <1>5 DEF TaskType, Act2Task, OpenedTask, JobTask, TargetTask, ReplyTask
  <2>2. t = Then(s, old.template, old.prev, old.then)
    BY <1>5 DEF After
  <2> QED
    BY <1>5, <2>1, <2>2, ThenSteers
<1>6. CASE old.at = "target"
  <2>1. t = SetTargets(s, old.ch) /\ old.ch \in Nat
    BY <1>6 DEF After, TaskType, Act2Task, OpenedTask, JobTask, TargetTask, ReplyTask
  <2> QED
    BY <1>1, <1>6, <2>1, SetTargetsSteers
<1>7. CASE old.at = "replied"
  <2>1. PICK at : t = Call(s, at, old.share)
    BY <1>7 DEF After
  <2> QED
    BY <1>1, <1>7, <2>1, CallCalm, CalmSteers
<1>8. old.at \in {"act2", "opened", "job", "active", "target", "replied"}
  BY DEF TaskType, Act2Task, OpenedTask, JobTask, TargetTask, ReplyTask
<1> QED
  BY <1>2, <1>3, <1>4, <1>5, <1>6, <1>7, <1>8

-----------------------------------------------------------------------------
(* The steps of a session. *)

LEMMA CalmOK ==
    ASSUME NEW s, NEW t, NEW T, Calm(s, t), SteerOK(s, T)
    PROVE  SteerOK(t, T)
BY CalmSteers DEF SteerOK

(* A session that is gone. *)
LEMMA GoneOK ==
    ASSUME NEW t, NEW T, t.socket = "destroyed", Open(t) = {},
           \A i \in DOMAIN t.writes : t.writes[i].fails
    PROVE  SteerOK(t, T)
<1>1. Slots(t) = {}
  BY NoSlots
<1> QED
  BY <1>1 DEF SteerOK, Sound, Steered, LoopsGoOn, TipsOnly, LoopsIn, Ordered

LEMMA TornIs ==
    ASSUME NEW s \in SessType, NEW t, t = Torn(s)
    PROVE  /\ t \in SessType /\ t.socket = "destroyed" /\ t.destroyed = s.destroyed
           /\ t.row = s.row /\ t.openings = s.openings /\ t.workSelection = s.workSelection
           /\ t.chans = s.chans /\ Open(t) = Open(s) /\ Flags(s, t) /\ t.overtaken = s.overtaken
           /\ DOMAIN t.writes = DOMAIN s.writes /\ \A i \in DOMAIN t.writes : t.writes[i].fails
<1>1. t.overtaken = s.overtaken
  BY DEF Torn, SessType
<1> QED
  BY <1>1, TornEffect DEF SameTasks

LEMMA ClosedSteers ==
    ASSUME NEW s \in SessType, NEW T, Settled(s), s.socket = "open" => ~s.destroyed,
           s.destroyed => SteerOK(s, T), NEW t, t = Closed(s)
    PROVE  SteerOK(t, T)
<1>1. s.socket \in {"open", "destroyed"}
  BY DEF SessType, Sockets
<1>2. ASSUME NEW u \in SessType, ~u.destroyed, u.socket = "destroyed", t = Destroyed(u),
             \A i \in DOMAIN u.writes : u.writes[i].fails
      PROVE  SteerOK(t, T)
  <2>1. t.socket = "destroyed" /\ Open(t) = {} /\ t.writes = u.writes
    BY <1>2, DestroyedEffect
  <2> QED
    BY <1>2, <2>1, GoneOK
<1>3. CASE s.socket = "open"
  <2>1. PICK u : u = Torn(s)
    OBVIOUS
  <2>2. /\ u \in SessType /\ u.socket = "destroyed" /\ ~u.destroyed
        /\ \A i \in DOMAIN u.writes : u.writes[i].fails
    BY <1>3, <2>1, TornIs
  <2>3. t = Destroyed(u)
    BY <1>3, <2>1 DEF Closed
  <2> QED
    BY <1>2, <2>2, <2>3
<1>4. CASE s.socket = "destroyed" /\ ~s.destroyed
  <2>1. t = Destroyed(s)
    BY <1>4 DEF Closed
  <2> QED
    BY <1>2, <1>4, <2>1 DEF Settled
<1>5. CASE s.socket = "destroyed" /\ s.destroyed
  <2>1. t = s
    BY <1>5 DEF Closed, Destroyed
  <2> QED
    BY <1>5, <2>1
<1> QED
  BY <1>1, <1>3, <1>4, <1>5

LEMMA ClosedOfOK ==
    ASSUME NEW s \in SessType, NEW T, Settled(s), SteerOK(s, T), NEW t, t = Closed(s)
    PROVE  SteerOK(t, T) /\ SteerOK([t EXCEPT !.more = TRUE], T)
<1>1. SteerOK(t, T)
  BY ClosedSteers DEF SteerOK, Sound
<1>2. t \in SessType
  <2>1. PICK u : u = IF s.socket = "open" THEN Torn(s) ELSE s
    OBVIOUS
  <2>2. u \in SessType
    BY <2>1, TornIs
  <2>3. t = Destroyed(u)
    BY <2>1 DEF Closed
  <2>4. CASE u.destroyed
    BY <2>2, <2>3, <2>4 DEF Destroyed
  <2>5. CASE ~u.destroyed
    <3>1. Destroyed(u) \in SessType
      BY <2>2, <2>5, DestroyedEffect
    <3> QED
      BY <2>3, <3>1
  <2> QED
    BY <2>4, <2>5
<1>3. PICK x, u : x = TRUE /\ u = [t EXCEPT !.more = x]
  OBVIOUS
<1>4. Calm(t, u)
  BY ONLY <1>2, <1>3, FieldsCalm
<1> QED
  BY <1>1, <1>3, <1>4, CalmOK

(* The socket goes: a session with writes under way is followed no more.    *)
LEMMA LoseSocketSteers ==
    ASSUME NEW s \in SessType, NEW T, SteerOK(s, T), s.socket = "open", NEW t, t = Torn(s)
    PROVE  SteerOK(t, T)
<1>1. /\ t.socket = "destroyed" /\ t.destroyed = s.destroyed
      /\ t.row = s.row /\ t.openings = s.openings /\ t.workSelection = s.workSelection
      /\ t.chans = s.chans /\ Open(t) = Open(s) /\ Flags(s, t) /\ t.overtaken = s.overtaken
      /\ DOMAIN t.writes = DOMAIN s.writes /\ \A i \in DOMAIN t.writes : t.writes[i].fails
  BY TornIs
<1>2. Slots(t) = {} /\ ~s.destroyed /\ ~Failing(s)
  BY <1>1, NoSlots DEF SteerOK, Sound
<1>3. ASSUME Followed(t) PROVE Slots(s) = {} /\ Followed(s)
  <2>1. DOMAIN t.writes = {}
    BY <1>1, <1>2, <1>3 DEF Followed, Failing
  <2>2. Slots(s) = {}
    BY <1>1, <2>1, NoSlots
  <2> QED
    BY <1>1, <1>2, <1>3, <2>2 DEF Followed, Flags
<1>4. \A ch \in Open(s) : Well({}, s, T, ch) => Well({}, t, T, ch)
  BY <1>1 DEF Well
<1> QED
  BY <1>1, <1>2, <1>3, <1>4
     DEF SteerOK, Sound, Steered, LoopsGoOn, TipsOnly, LoopsIn, Ordered

(* A write fails. *)
LEMMA WriteFailsSteers ==
    ASSUME NEW s \in SessType, NEW T, SteerOK(s, T), Settled(s), NEW i \in DOMAIN s.writes,
           s.writes[i].fails, NEW t, t = Closed(Done(s, i))
    PROVE  SteerOK(t, T)
<1>1. PICK r : r = Done(s, i)
  OBVIOUS
<1>2. /\ r \in SessType /\ Rest(s, r) /\ Flags(s, r) /\ r.chans = s.chans /\ Open(r) = Open(s)
      /\ \A j \in DOMAIN r.writes : \E k \in DOMAIN s.writes : r.writes[j] = s.writes[k]
  BY <1>1, DoneEffect
<1>3. s.socket = "destroyed" /\ \A k \in DOMAIN s.writes : s.writes[k].fails
  BY DEF SteerOK, Sound, Settled, Failing, SessType, Sockets
<1>4. r.socket = "destroyed" /\ \A k \in DOMAIN r.writes : r.writes[k].fails
  BY <1>2, <1>3 DEF Rest
<1>5. Slots(s) = {} /\ Slots(r) = {}
  BY <1>3, <1>4, NoSlots
<1>6. ASSUME r.destroyed PROVE SteerOK(r, T)
  <2>1. Kin(s, r) /\ s.destroyed
    BY <1>2, <1>6, RestIsKin DEF Rest
  <2>2. Followed(r) => Followed(s)
    BY <2>1 DEF Followed, Kin, Flags
  <2>3. \A ch \in Open(s) : Well({}, s, T, ch) => Well({}, r, T, ch)
    BY <1>2, <2>1 DEF Well, Kin
  <2> QED
    BY <1>2, <1>4, <1>5, <2>2, <2>3 DEF SteerOK, Sound, Steered, LoopsGoOn, TipsOnly, LoopsIn, Ordered
<1> QED
  BY <1>1, <1>2, <1>4, <1>6, ClosedSteers DEF Settled

(* A session with another channel, or with one less.                        *)
LEMMA ClosedChannelSteers ==
    ASSUME NEW s \in SessType, NEW T, SteerOK(s, T), NEW D \in SUBSET Open(s),
           NEW o \in BOOLEAN, o = (s.overtaken \/ s.writes # << >>),
           NEW t, t = [s EXCEPT !.chans = Restrict(@, D), !.overtaken = o]
    PROVE  SteerOK(t, T)
<1>1. PICK f : f = Restrict(s.chans, D)
  OBVIOUS
<1>2. DOMAIN f = D /\ \A ch \in D : f[ch] = s.chans[ch]
  BY <1>1 DEF Restrict
<1>3. t = [s EXCEPT !.chans = f, !.overtaken = o]
  BY <1>1
<1>4. /\ t.socket = s.socket /\ t.destroyed = s.destroyed /\ t.row = s.row
      /\ t.workSelection = s.workSelection /\ t.overtaken = o
      /\ t.openings = s.openings /\ Flags(s, t) /\ t.writes = s.writes /\ t.chans = f
  BY ONLY s \in SessType, <1>3, ZenonT(60) DEF SessType, Flags
<1>5. Slots(t) = Slots(s) /\ (Failing(t) <=> Failing(s)) /\ Open(t) = D
  BY <1>2, <1>4, SlotsSame DEF Open
<1>6. ASSUME ~t.overtaken PROVE Slots(s) = {} /\ ~s.overtaken
  <2>1. s.writes = << >> /\ ~s.overtaken
    BY <1>4, <1>6
  <2> QED
    BY <2>1, NoSlots
<1>7. ASSUME Followed(t), NEW ch \in D PROVE Well(Slots(t), t, T, ch)
  <2>1. Followed(s)
    BY <1>4, <1>5, <1>6, <1>7 DEF Followed, Flags
  <2>2. Well(Slots(s), s, T, ch)
    BY <2>1 DEF SteerOK, Steered
  <2> QED
    BY <1>2, <1>4, <1>5, <2>2 DEF Well
<1>8. Sound(t)
  BY <1>4, <1>5 DEF SteerOK, Sound
<1>9. Followed(t) => Ordered(Slots(t), Open(t), T)
  BY <1>5, <1>6 DEF Followed, Ordered
<1>10. ~t.overtaken => LoopsIn(Slots(t), Open(t))
  BY <1>5, <1>6 DEF LoopsIn
<1> QED
  BY <1>4, <1>5, <1>7, <1>8, <1>9, <1>10 DEF SteerOK, Steered

(* Another channel, that waits for the row or to be told of its opening.    *)
LEMMA WiderSteers ==
    ASSUME NEW s \in SessType, NEW T, SteerOK(s, T), NEW ch \in Nat \ Open(s),
           Known(s, ch), NEW t, t.socket = s.socket, t.destroyed = s.destroyed,
           t.workSelection = s.workSelection, t.overtaken = s.overtaken, Flags(s, t),
           s.row = "failed" => t.row = "failed",
           Open(t) = Open(s) \cup {ch}, \A d \in Open(s) : t.chans[d] = s.chans[d],
           \A k \in DOMAIN s.openings :
              k \in DOMAIN t.openings /\ t.openings[k] = s.openings[k],
           Failing(t) <=> Failing(s), Slots(s) \subseteq Slots(t),
           \A w \in Slots(t) : w \in Slots(s) \/ w[2].at = "opened",
           Well(Slots(t), t, T, ch)
    PROVE  SteerOK(t, T)
<1>1. Steered(Slots(s), s, T) /\ Sound(s)
  BY DEF SteerOK
<1>2. Followed(t) => Followed(s)
  BY DEF Followed, Flags
<1>3. \A w \in Slots(t) : IsJob(w[2]) => w \in Slots(s)
  BY DEF IsJob
<1>4. LoopsGoOn(Slots(t)) /\ (t.socket = "destroyed" => TipsOnly(Slots(t), T))
  BY <1>1, <1>3 DEF Steered, LoopsGoOn, TipsOnly, IsLoop
<1>5. t.socket = "open" /\ ~t.overtaken => LoopsIn(Slots(t), Open(t))
  BY <1>1, <1>3 DEF Steered, LoopsIn, IsLoop
<1>6. ASSUME Followed(t) PROVE Ordered(Slots(t), Open(t), T)
  <2>1. \A v \in Slots(s) : Late(v[2], Open(t), T) => Late(v[2], Open(s), T)
    <3> SUFFICES ASSUME NEW v \in Slots(s), Late(v[2], Open(t), T), v[2].ch = ch PROVE FALSE
      BY DEF Late
    <3>1. PICK i \in DOMAIN s.writes : v = <<i, Task(s, i)>>
      BY DEF Slots
    <3>2. v[2] = Task(s, i)
      BY <3>1
    <3>3. Task(s, i).at # "job"
      <4> SUFFICES ASSUME Task(s, i).at = "job" PROVE FALSE
        OBVIOUS
      <4>1. Task(s, i).ch < ch
        BY DEF Known
      <4> QED
        BY <3>2, <4>1
    <3>4. IsLoop(v[2]) /\ IsJob(v[2]) /\ v[2].template \notin T
      BY <3>2, <3>3 DEF Late, IsLoop
    <3>5. s.socket # "destroyed"
      BY <1>1, <3>4 DEF Steered, TipsOnly
    <3>6. s.socket = "open" /\ ~s.overtaken
      BY <1>6, <3>5 DEF SessType, Sockets, Followed
    <3> QED
      BY <1>1, <3>4, <3>6 DEF Steered, LoopsIn
  <2>2. Ordered(Slots(s), Open(s), T)
    BY <1>1, <1>2, <1>6 DEF Steered
  <2>3. ASSUME NEW v \in Slots(t), Late(v[2], Open(t), T)
        PROVE  \E z \in Slots(t) : Leads(z[2], T) /\ Ahead(v, z)
    <3>1. v \in Slots(s)
      BY <1>3, <2>3 DEF Late, IsLoop, IsJob
    <3> QED
      BY <2>1, <2>2, <2>3, <3>1 DEF Ordered
  <2> QED
    BY <2>3 DEF Ordered
<1>7. ASSUME Followed(t), NEW d \in Open(s) PROVE Well(Slots(t), t, T, d)
  <2>1. Well(Slots(s), s, T, d)
    BY <1>1, <1>2, <1>7 DEF Steered
  <2> QED
    BY <2>1 DEF Well, Reached
<1>8. Sound(t)
  BY <1>1 DEF Sound
<1> QED
  BY <1>4, <1>5, <1>6, <1>7, <1>8 DEF SteerOK, Steered

(* A channel is opened (OpenStandardMiningChannel and the extended one).    *)
LEMMA WithChannelSteers ==
    ASSUME NEW s \in SessType, NEW T, SteerOK(s, T), Settled(s),
           nextChannel \in Nat \ {0}, Known(s, nextChannel),
           NEW type \in {"standard", "extended"}, NEW d \in Nat,
           NEW t, t = WithChannel(s, type, d)
    PROVE  SteerOK(t, T)
<1>1. PICK diff \in Nat : diff = Clamp(IF d = 0 THEN s.diff ELSE d)
  <2>1. (IF d = 0 THEN s.diff ELSE d) \in Nat
    BY DEF SessType
  <2> QED
    BY <2>1, ClampNat
<1>2. PICK ch \in Nat : ch = nextChannel
  OBVIOUS
<1>3. ch \notin Open(s) /\ Known(s, ch)
  BY <1>2 DEF Known
<1>4. PICK first \in BOOLEAN : first = (Open(s) = {})
  <2>1. (Open(s) = {}) \in BOOLEAN
    OBVIOUS
  <2> QED
    BY <2>1, Zenon
<1>5. PICK new \in ChanType : new = NewChannel(type, diff)
  BY NewChannelEffect
<1>6. PICK x : x = [e \in Open(s) \cup {ch} |-> IF e = ch THEN new ELSE s.chans[e]]
  OBVIOUS
<1>7. PICK u : u = [s EXCEPT !.diff = diff, !.chans = x]
  OBVIOUS
<1>8. t = EnsureRow(u, ch, first)
  BY <1>1, <1>2, <1>4, <1>5, <1>6, <1>7 DEF WithChannel
<1>9. Wider(s, x, ch) /\ x[ch] = new
  BY <1>3, <1>5, <1>6, WiderChans
<1>10. x \in ChansType
  BY <1>9 DEF Wider
<1>11. /\ u \in SessType /\ u.chans = x /\ u.writes = s.writes /\ u.row = s.row
       /\ u.socket = s.socket /\ u.openings = s.openings /\ u.destroyed = s.destroyed
       /\ u.workSelection = s.workSelection /\ u.overtaken = s.overtaken /\ Flags(s, u)
  BY ONLY s \in SessType, diff \in Nat, <1>7, <1>10, ZenonT(60) DEF SessType, Flags
<1>12. /\ Open(u) = Open(s) \cup {ch} /\ u.chans[ch] = new
       /\ \A e \in Open(s) : u.chans[e] = s.chans[e]
  BY <1>9, <1>11 DEF Open, Wider
<1>13. Slots(u) = Slots(s) /\ (Failing(u) <=> Failing(s))
  BY <1>11, SlotsSame
<1>14. CASE s.row = "have"
  <2>1. PICK chan : chan = [u.chans[ch] EXCEPT !.told = @ \cup {u.chans[ch].diff}]
    OBVIOUS
  <2>2. PICK r : r = With(u, ch, chan)
    OBVIOUS
  <2>3. PICK task : task = [at |-> "opened", ch |-> ch, first |-> first]
    OBVIOUS
  <2>16. task \in TaskType /\ task.at = "opened" /\ task.ch = ch
    BY <2>3 DEF TaskType, OpenedTask
  <2>4. t = Write(r, task)
    BY <1>8, <1>11, <1>12, <1>14, <2>1, <2>2, <2>3 DEF EnsureRow, OpenSuccess
  <2>5. chan \in ChanType
    <3>1. chan = [new EXCEPT !.told = @ \cup {new.diff}]
      BY <1>12, <2>1
    <3> QED
      BY <1>5, <3>1 DEF ChanType
  <2>6. /\ r \in SessType /\ Rest(u, r) /\ Flags(u, r) /\ r.writes = u.writes
        /\ Open(r) = Open(u) /\ \A e \in Open(u) : e # ch => r.chans[e] = u.chans[e]
    BY <1>11, <1>12, <2>2, <2>5, WithEffect
  <2>7. /\ Rest(r, t) /\ Flags(r, t) /\ t.chans = r.chans /\ Open(t) = Open(r)
        /\ t.writes = Append(r.writes, [task |-> task, fails |-> FALSE])
    BY <2>4, <2>6, <2>16, WriteEffect
  <2>8. PICK new2 : new2 = <<Len(r.writes) + 1, task>>
    OBVIOUS
  <2>9. Slots(t) = Slots(r) \cup {new2} /\ (Failing(t) <=> Failing(r))
    BY <2>6, <2>7, <2>8, <2>16, SlotsGrow
  <2>10. Slots(r) = Slots(s) /\ (Failing(r) <=> Failing(s))
    BY <1>11, <2>6, SlotsSame
  <2>11. new2[2] = task
    BY <2>8
  <2>12. Well(Slots(t), t, T, ch)
    BY <2>16, <2>9, <2>11 DEF Well, Reached, Reaches
  <2>13. /\ t.socket = s.socket /\ t.destroyed = s.destroyed
         /\ t.workSelection = s.workSelection /\ t.overtaken = s.overtaken /\ Flags(s, t)
         /\ t.row = s.row /\ t.openings = s.openings
    BY <1>11, <2>6, <2>7 DEF Rest, Flags
  <2>14. Open(t) = Open(s) \cup {ch} /\ \A e \in Open(s) : t.chans[e] = s.chans[e]
    BY <1>3, <1>12, <2>6, <2>7
  <2>15. /\ Slots(s) \subseteq Slots(t) /\ (Failing(t) <=> Failing(s))
         /\ \A w \in Slots(t) : w \in Slots(s) \/ w[2].at = "opened"
    BY <2>9, <2>10, <2>11, <2>16
  <2>17. \A k \in DOMAIN s.openings : k \in DOMAIN t.openings /\ t.openings[k] = s.openings[k]
    BY <2>13
  <2> QED
    BY <1>3, <2>12, <2>13, <2>14, <2>15, <2>17, WiderSteers
<1>15. CASE s.row = "failed"
  <2>1. t = Closed(u)
    BY <1>8, <1>11, <1>15 DEF EnsureRow
  <2>2. Settled(u) /\ (u.socket = "open" => ~u.destroyed)
    BY <1>11 DEF Settled, SteerOK, Sound
  <2>3. ASSUME u.destroyed PROVE SteerOK(u, T)
    <3>1. u.socket # "open" /\ \A i \in DOMAIN u.writes : u.writes[i].fails
      BY <1>11, <2>2, <2>3 DEF Settled, SessType, Sockets
    <3>2. Slots(u) = {} /\ ~Followed(u)
      BY <1>11, <1>15, <3>1, NoSlots DEF Followed
    <3> QED
      BY <3>1, <3>2 DEF SteerOK, Sound, Steered, LoopsGoOn, TipsOnly, LoopsIn
  <2> QED
    BY <1>11, <2>1, <2>2, <2>3, ClosedSteers
<1>16. CASE s.row \in {"none", "inserting"}
  <2>1. PICK o \in OpeningType : o = [ch |-> ch, first |-> first]
    BY DEF OpeningType
  <2>2. s.openings \in Seq(OpeningType)
    BY DEF SessType
  <2>3. PICK q \in Seq(OpeningType) : q = Append(s.openings, o)
    BY <2>2, AppendProperties
  <2>4. t = [u EXCEPT !.row = "inserting", !.openings = q]
    BY <1>8, <1>11, <1>16, <2>1, <2>3 DEF EnsureRow
  <2>5. u \in SessType
    BY <1>11
  <2>6. /\ t.chans = u.chans /\ t.writes = u.writes /\ t.row = "inserting"
        /\ t.openings = q /\ t.destroyed = u.destroyed /\ t.socket = u.socket
        /\ t.workSelection = u.workSelection /\ t.overtaken = u.overtaken /\ Flags(u, t)
    BY ONLY <2>5, <2>4, ZenonT(60) DEF SessType, Flags
  <2>7. /\ DOMAIN q = 1 .. Len(s.openings) + 1 /\ DOMAIN s.openings = 1..Len(s.openings)
        /\ \A j \in DOMAIN s.openings : q[j] = s.openings[j]
        /\ q[Len(s.openings) + 1] = o /\ Len(s.openings) \in Nat
    BY <2>1, <2>2, <2>3, AfterAppend
  <2>8. \A k \in DOMAIN s.openings : k \in DOMAIN t.openings /\ t.openings[k] = s.openings[k]
    BY <2>6, <2>7
  <2>9. \E k \in DOMAIN t.openings : t.openings[k].ch = ch
    <3>1. Len(s.openings) + 1 \in DOMAIN q
      BY <2>7
    <3> QED
      BY <2>1, <2>6, <2>7, <3>1
  <2>10. Slots(t) = Slots(s) /\ (Failing(t) <=> Failing(s))
    BY <1>11, <2>6, SlotsSame
  <2>11. Open(t) = Open(s) \cup {ch} /\ \A e \in Open(s) : t.chans[e] = s.chans[e]
    BY <1>12, <2>6 DEF Open
  <2>12. /\ t.socket = s.socket /\ t.destroyed = s.destroyed
         /\ t.workSelection = s.workSelection /\ t.overtaken = s.overtaken /\ Flags(s, t)
    BY <1>11, <2>6 DEF Flags
  <2>13. Well(Slots(t), t, T, ch)
    BY <2>9 DEF Well
  <2> QED
    BY <1>3, <1>16, <2>8, <2>10, <2>11, <2>12, <2>13, WiderSteers
<1>17. s.row \in {"none", "inserting", "have", "failed"}
  BY DEF SessType, RowStates
<1> QED
  BY <1>14, <1>15, <1>16, <1>17

LEMMA WriteOK ==
    ASSUME NEW s \in SessType, NEW task \in TaskType, NEW T, Fits(task, Open(s), T),
           SteerOK(s, T), NEW t, t = Write(s, task)
    PROVE  SteerOK(t, T)
<1>1. PICK W : W = Slots(s)
  OBVIOUS
<1>2. Steered(W, s, T) /\ Sound(s)
  BY <1>1 DEF SteerOK
<1>3. Steered(W \cup Slots(t), t, T) /\ Sound(t)
  BY <1>1, <1>2, WriteSteers
<1>4. t.writes = Append(s.writes, [task |-> task, fails |-> FALSE])
  BY WriteEffect
<1>5. Slots(s) \subseteq Slots(t)
  BY <1>4, SlotsGrow
<1>6. W \cup Slots(t) = Slots(t)
  BY <1>1, <1>5
<1> QED
  BY <1>3, <1>6 DEF SteerOK

(* Session c becomes one that is steered.                                   *)
SteersTo(c, T) == \E t : sess' = [sess EXCEPT ![c] = t] /\ SteerOK(t, T)

LEMMA ReadSteers ==
    ASSUME HoldsInv, NEW c \in Conns, NEW T, SteerOK(sess[c], T), NEW r, r = Reading(c)
    PROVE  SteerOK(r, T)
<1>1. sess[c] \in SessType
  BY SessIs
<1>2. PICK s, x, y : s = sess[c] /\ r = [s EXCEPT !.msgs = x, !.racing = y]
  BY Zenon DEF Reading, Read
<1>3. Calm(s, r)
  BY ONLY <1>1, <1>2, FieldsCalm
<1> QED
  BY <1>2, <1>3, CalmOK

LEMMA HandshakeSteers ==
    ASSUME HoldsInv, NEW c \in Conns, NEW T, SteerOK(sess[c], T), Handshake(c)
    PROVE  SteersTo(c, T)
<1>1. PICK s : s = sess[c]
  OBVIOUS
<1>2. s \in SessType /\ SessOK(s, infos) /\ infos \in Seq(Nat)
  BY <1>1, SessIs
<1>3. PICK x \in Shakes : x = "answering"
  BY DEF Shakes
<1>4. PICK r : r = [s EXCEPT !.handshake = x]
  OBVIOUS
<1>5. r \in SessType
  BY <1>2, <1>3, <1>4, ShakenOK
<1>6. Calm(s, r)
  BY ONLY <1>2, <1>4, FieldsCalm
<1>7. PICK task : task = [at |-> "act2"]
  OBVIOUS
<1>8. task \in TaskType /\ Fits(task, Open(r), T)
  BY <1>7 DEF TaskType, Act2Task, Fits, IsLoop, IsJob
<1>9. PICK t : t = Write(r, task)
  OBVIOUS
<1>10. sess' = [sess EXCEPT ![c] = t]
  BY <1>1, <1>3, <1>4, <1>7, <1>9 DEF Handshake, Go
<1>11. SteerOK(r, T)
  BY <1>1, <1>6, CalmOK
<1>12. SteerOK(t, T)
  BY <1>5, <1>8, <1>9, <1>11, WriteOK
<1> QED
  BY <1>10, <1>12 DEF SteersTo

(* A worker that selects its work itself is followed no more.               *)
LEMMA SetupSteers ==
    ASSUME HoldsInv, NEW c \in Conns, NEW T, SteerOK(sess[c], T), Setup(c)
    PROVE  SteersTo(c, T)
<1>1. PICK s : s = sess[c]
  OBVIOUS
<1>2. s \in SessType
  BY <1>1, SessIs
<1>3. PICK t : t = [s EXCEPT !.workSelection = TRUE]
  OBVIOUS
<1>4. /\ t.socket = s.socket /\ t.destroyed = s.destroyed /\ t.overtaken = s.overtaken
      /\ t.writes = s.writes /\ t.chans = s.chans /\ t.workSelection
  BY ONLY <1>2, <1>3, ZenonT(60) DEF SessType
<1>5. Slots(t) = Slots(s) /\ (Failing(t) <=> Failing(s)) /\ Open(t) = Open(s)
  BY <1>4, SlotsSame DEF Open
<1>6. SteerOK(t, T)
  BY <1>1, <1>4, <1>5 DEF SteerOK, Steered, Sound, Followed
<1> QED
  BY <1>1, <1>3, <1>6 DEF SteersTo, Setup, Go

(* The socket or the session is torn down. *)
LEMMA DownSteers ==
    ASSUME HoldsInv, NEW c \in Conns, NEW T, SteerOK(sess[c], T), Settled(sess[c]),
           BadHandshake(c) \/ LoseSocket(c) \/ OnClose(c)
    PROVE  SteersTo(c, T)
<1>1. PICK s : s = sess[c]
  OBVIOUS
<1>2. s \in SessType
  BY <1>1, SessIs
<1>3. PICK t : /\ sess' = [sess EXCEPT ![c] = t]
               /\ \/ t = Closed(s)
                  \/ t = Torn(s) /\ s.socket = "open"
                  \/ t = Destroyed(s) /\ s.socket = "destroyed"
  BY <1>1 DEF BadHandshake, LoseSocket, OnClose, Go
<1>4. CASE t = Closed(s) \/ (t = Destroyed(s) /\ s.socket = "destroyed")
  <2>1. t = Closed(s)
    BY <1>4 DEF Closed
  <2> QED
    BY <1>1, <1>2, <1>3, <2>1, ClosedOfOK DEF SteersTo
<1>5. CASE t = Torn(s) /\ s.socket = "open"
  BY <1>1, <1>2, <1>3, <1>5, LoseSocketSteers DEF SteersTo
<1> QED
  BY <1>3, <1>4, <1>5

(* A frame is refused, or no prefix is left. *)
LEMMA RefuseSteers ==
    ASSUME HoldsInv, NEW c \in Conns, NEW T, SteerOK(sess[c], T), Settled(sess[c]),
           Refuse(c) \/ OpenExhausted(c)
    PROVE  SteersTo(c, T)
<1>1. PICK r : r = Reading(c)
  OBVIOUS
<1>2. r \in SessType /\ Settled(r)
  BY <1>1, ReadIs
<1>3. SteerOK(r, T)
  BY <1>1, ReadSteers
<1>4. PICK t : t = Closed(r)
  OBVIOUS
<1>5. SteerOK(t, T) /\ SteerOK([t EXCEPT !.more = TRUE], T)
  BY <1>2, <1>3, <1>4, ClosedOfOK
<1> QED
  BY <1>1, <1>4, <1>5 DEF SteersTo, Refuse, Handle, Go, OpenExhausted

LEMMA OpenSteers ==
    ASSUME HoldsInv, NEW c \in Conns, NEW T, SteerOK(sess[c], T), Settled(sess[c]),
           NEW d \in OpeningDifficulties, OpenStandard(c, d) \/ OpenExtended(c, d)
    PROVE  SteersTo(c, T)
<1>1. PICK r : r = Reading(c)
  OBVIOUS
<1>2. r \in SessType /\ Settled(r) /\ Stays(sess[c], r)
  BY <1>1, ReadIs
<1>3. SteerOK(r, T)
  BY <1>1, ReadSteers
<1>4. nextChannel \in Nat \ {0} /\ Known(r, nextChannel)
  BY <1>2 DEF HoldsInv, Typed, SessionOK, Stays
<1>5. PICK type, t :
         /\ type \in {"standard", "extended"}
         /\ t = WithChannel(r, type, d) /\ sess' = [sess EXCEPT ![c] = t]
  BY <1>1 DEF OpenStandard, OpenExtended, Go
<1>6. d \in Nat
  BY StratumV2SessionAssumption
<1>7. SteerOK(t, T)
  BY <1>2, <1>3, <1>4, <1>5, <1>6, WithChannelSteers
<1> QED
  BY <1>5, <1>7 DEF SteersTo

LEMMA UpdateChannelSteers ==
    ASSUME HoldsInv, NEW c \in Conns, NEW T, SteerOK(sess[c], T), NEW ch, About(c, ch),
           NEW d, UpdateChannel(c, ch, d)
    PROVE  SteersTo(c, T)
<1>1. PICK r : r = Reading(c)
  OBVIOUS
<1>2. r \in SessType /\ ch \in Open(r)
  BY <1>1, ReadIs, AboutHasRow
<1>3. SteerOK(r, T)
  BY <1>1, ReadSteers
<1>4. PICK a \in ChanType : a = r.chans[ch]
  BY <1>2, ChansOf
<1>5. PICK x : x = Clamp(d)
  OBVIOUS
<1>6. PICK chan : chan = [a EXCEPT !.diff = x, !.told = @ \cup {x}]
  OBVIOUS
<1>7. chan.works = a.works /\ chan.prev = a.prev
  BY ONLY a \in ChanType, <1>6 DEF ChanType
<1>8. PICK t : t = With(r, ch, chan)
  OBVIOUS
<1>9. Calm(r, t)
  BY <1>2, <1>4, <1>7, <1>8, WithCalm
<1>10. SteerOK(t, T)
  BY <1>3, <1>9, CalmOK
<1>11. sess' = [sess EXCEPT ![c] = t]
  BY <1>1, <1>4, <1>5, <1>6, <1>8 DEF UpdateChannel, Handle, Go
<1> QED
  BY <1>10, <1>11 DEF SteersTo

LEMMA CloseChannelSteers ==
    ASSUME HoldsInv, NEW c \in Conns, NEW T, SteerOK(sess[c], T), Settled(sess[c]),
           NEW ch, CloseChannel(c, ch)
    PROVE  SteersTo(c, T)
<1>1. PICK r : r = Reading(c)
  OBVIOUS
<1>2. /\ r \in SessType /\ Settled(r) /\ Open(r) = Open(sess[c]) /\ r.writes = sess[c].writes
  BY <1>1, ReadIs
<1>3. SteerOK(r, T)
  BY <1>1, ReadSteers
<1>4. PICK o \in BOOLEAN : o = (r.overtaken \/ r.writes # << >>)
  <2>1. (r.overtaken \/ r.writes # << >>) \in BOOLEAN
    OBVIOUS
  <2> QED
    BY <2>1, Zenon
<1>5. PICK D \in SUBSET Open(r) : D = Open(r) \ {ch}
  OBVIOUS
<1>6. PICK f : f = Restrict(r.chans, D)
  OBVIOUS
<1>7. PICK x : x = [r EXCEPT !.chans = f, !.overtaken = o]
  OBVIOUS
<1>8. x = [r EXCEPT !.chans = Restrict(@, D), !.overtaken = o]
  BY <1>6, <1>7
<1>9. SteerOK(x, T)
  BY ONLY <1>2, <1>3, <1>4, <1>5, <1>8, o \in BOOLEAN, D \in SUBSET Open(r), ClosedChannelSteers
<1>10. x \in SessType /\ Settled(x)
  <2>1. f \in [D -> ChanType] /\ D \in SUBSET Nat
    BY <1>2, <1>6, ChansOf DEF Restrict
  <2>2. f \in ChansType
    BY <2>1, IsChans
  <2>3. x \in SessType /\ x.socket = r.socket /\ x.writes = r.writes
    BY ONLY <1>2, <1>7, <2>2, o \in BOOLEAN, ZenonT(60) DEF SessType
  <2> QED
    BY <1>2, <2>3 DEF Settled
<1>11. PICK y : y = Closed(x)
  OBVIOUS
<1>12. SteerOK([y EXCEPT !.more = TRUE], T)
  BY <1>9, <1>10, <1>11, ClosedOfOK
<1>13. PICK t : t = IF Open(x) = {} THEN [y EXCEPT !.more = TRUE] ELSE x
  OBVIOUS
<1>14. sess' = [sess EXCEPT ![c] = t]
  <2>1. x = [r EXCEPT !.chans = Restrict(@, Open(sess[c]) \ {ch}),
                      !.overtaken = @ \/ sess[c].writes # << >>]
    BY <1>2, <1>4, <1>5, <1>8
  <2> QED
    BY <1>1, <1>11, <1>13, <2>1 DEF CloseChannel, Handle, Go
<1> QED
  BY <1>9, <1>12, <1>13, <1>14 DEF SteersTo

(* A custom job, and a submission that is remembered.                       *)
LEMMA WithFieldsCalm ==
    ASSUME NEW s \in SessType, NEW ch \in Open(s), NEW chan,
           chan.works = s.chans[ch].works, chan.prev = s.chans[ch].prev, NEW x, NEW y
    PROVE  /\ Calm(s, [With(s, ch, chan) EXCEPT !.made = x, !.jobs = y])
           /\ Calm(s, [With(s, ch, chan) EXCEPT !.forgot = x])
<1>1. PICK f : f = [s.chans EXCEPT ![ch] = chan]
  OBVIOUS
<1>2. DOMAIN f = Open(s) /\ f[ch] = chan /\ \A d \in Open(s) : d # ch => f[d] = s.chans[d]
  BY <1>1, ChansOf
<1>3. With(s, ch, chan) = [s EXCEPT !.chans = f]
  BY <1>1 DEF With
<1>4. PICK t, u : /\ t = [[s EXCEPT !.chans = f] EXCEPT !.made = x, !.jobs = y]
                  /\ u = [[s EXCEPT !.chans = f] EXCEPT !.forgot = x]
  OBVIOUS
<1>5. Kin(s, t) /\ t.writes = s.writes /\ t.chans = f
  BY ONLY s \in SessType, <1>4, ZenonT(60) DEF SessType, Kin, Flags
<1>6. Kin(s, u) /\ u.writes = s.writes /\ u.chans = f
  BY ONLY s \in SessType, <1>4, ZenonT(60) DEF SessType, Kin, Flags
<1>7. Calm(s, t) /\ Calm(s, u)
  BY <1>2, <1>5, <1>6 DEF Calm, Open
<1> QED
  BY <1>3, <1>4, <1>7

LEMMA SetCustomJobSteers ==
    ASSUME HoldsInv, NEW c \in Conns, NEW T, SteerOK(sess[c], T), NEW ch, About(c, ch),
           SetCustomJob(c, ch)
    PROVE  SteersTo(c, T)
<1>1. PICK r : r = Reading(c)
  OBVIOUS
<1>2. r \in SessType /\ ch \in Open(r)
  BY <1>1, ReadIs, AboutHasRow
<1>3. SteerOK(r, T)
  BY <1>1, ReadSteers
<1>4. PICK a \in ChanType : a = r.chans[ch]
  BY <1>2, ChansOf
<1>5. PICK chan, x, y :
         /\ \E held, sent : chan = [a EXCEPT !.held = held, !.sent = sent]
         /\ sess' = [sess EXCEPT ![c] = [With(r, ch, chan) EXCEPT !.made = x, !.jobs = y]]
  BY <1>1, <1>4, Zenon DEF SetCustomJob, Handle, Go
<1>6. chan.works = a.works /\ chan.prev = a.prev
  BY ONLY a \in ChanType, <1>5 DEF ChanType
<1>7. PICK t : t = [With(r, ch, chan) EXCEPT !.made = x, !.jobs = y]
  OBVIOUS
<1>8. Calm(r, t)
  BY <1>2, <1>4, <1>6, <1>7, WithFieldsCalm
<1>9. SteerOK(t, T)
  BY <1>3, <1>8, CalmOK
<1> QED
  BY <1>5, <1>7, <1>9 DEF SteersTo

LEMMA RememberCalm ==
    ASSUME NEW s \in SessType, NEW ch \in Open(s), NEW key, NEW t, t = Remember(s, ch, key)
    PROVE  Calm(s, t)
<1>1. PICK a \in ChanType : a = s.chans[ch]
  BY ChansOf
<1>2. PICK chan, x : /\ \E hashes : chan = [a EXCEPT !.hashes = hashes]
                     /\ t = [With(s, ch, chan) EXCEPT !.forgot = x]
  BY <1>1, Zenon DEF Remember
<1>3. chan.works = a.works /\ chan.prev = a.prev
  BY ONLY a \in ChanType, <1>2 DEF ChanType
<1>4. PICK u : u = [With(s, ch, chan) EXCEPT !.forgot = x]
  OBVIOUS
<1>5. Calm(s, u)
  BY <1>1, <1>3, <1>4, WithFieldsCalm
<1> QED
  BY <1>2, <1>4, <1>5

LEMMA SubmitSteers ==
    ASSUME HoldsInv, NEW c \in Conns, NEW T, SteerOK(sess[c], T), NEW ch, About(c, ch),
           Submit(c, ch)
    PROVE  SteersTo(c, T)
<1>1. PICK r : r = Reading(c)
  OBVIOUS
<1>2. r \in SessType /\ ch \in Open(r) /\ SessOK(r, infos) /\ BlocksOK /\ Chain(infos)
      /\ r.chans = sess[c].chans
  BY <1>1, ReadIs, AboutHasRow DEF HoldsInv, Typed
<1>3. SteerOK(r, T)
  BY <1>1, ReadSteers
<1>4. PICK n \in r.chans[ch].sent, work \in Work :
         LET t == Remember(r, ch, <<n, work>>)
         IN  IF <<n, work>> \in r.chans[ch].hashes THEN Handle(c, r)
             ELSE IF \A j \in Found(r, ch, n) : work < j.diff THEN Handle(c, t)
             ELSE \E j \in Found(r, ch, n) :
                     LET share == [conn |-> c, job |-> j, work |-> work]
                     IN  Handle(c, Write(
                           [t EXCEPT !.accepted = @ \cup {share},
                                     !.stale = @ \cup {x \in {share} : Stale(j.on)}],
                           [at |-> "replied", share |-> share]))
  BY <1>1, <1>2, Zenon DEF Submit
<1>5. PICK key : key = <<n, work>>
  OBVIOUS
<1>6. key \in (Nat \ {0}) \X Work
  <2>1. r.chans[ch].sent \in SUBSET (Nat \ {0})
    BY <1>2, ChansOf DEF ChanType
  <2> QED
    BY <1>5, <2>1
<1>7. PICK u : u = Remember(r, ch, key)
  OBVIOUS
<1>8. u \in SessType
  BY <1>2, <1>6, <1>7, RememberEffect
<1>9. Calm(r, u)
  BY <1>2, <1>7, RememberCalm
<1>10. SteerOK(u, T)
  BY <1>3, <1>9, CalmOK
<1>11. CASE Handle(c, r) \/ Handle(c, u)
  BY <1>3, <1>10, <1>11 DEF SteersTo, Handle, Go
<1>12. CASE \E j \in Found(r, ch, n) :
               LET share == [conn |-> c, job |-> j, work |-> work]
               IN  Handle(c, Write(
                     [u EXCEPT !.accepted = @ \cup {share},
                               !.stale = @ \cup {x \in {share} : Stale(j.on)}],
                     [at |-> "replied", share |-> share]))
  <2>1. PICK j \in Found(r, ch, n) :
               LET share == [conn |-> c, job |-> j, work |-> work]
               IN  Handle(c, Write(
                     [u EXCEPT !.accepted = @ \cup {share},
                               !.stale = @ \cup {x \in {share} : Stale(j.on)}],
                     [at |-> "replied", share |-> share]))
    BY <1>12, Zenon
  <2>2. j \in JobType
    BY <1>2, FoundIs
  <2>3. PICK share : share = [conn |-> c, job |-> j, work |-> work]
    OBVIOUS
  <2>4. share \in ShareType
    BY <2>2, <2>3 DEF ShareType
  <2>5. PICK acc \in SUBSET ShareType, stale \in SUBSET ShareType :
           /\ acc = u.accepted \cup {share}
           /\ stale = u.stale \cup {x \in {share} : Stale(j.on)}
    BY <1>8, <2>4 DEF SessType
  <2>6. PICK v : v = [u EXCEPT !.accepted = acc, !.stale = stale]
    OBVIOUS
  <2>7. v \in SessType
    BY ONLY <1>8, <2>6, acc \in SUBSET ShareType, stale \in SUBSET ShareType, ZenonT(60)
       DEF SessType
  <2>8. Calm(u, v)
    BY ONLY <1>8, <2>6, FieldsCalm
  <2>9. SteerOK(v, T)
    BY <1>10, <2>8, CalmOK
  <2>10. PICK task : task = [at |-> "replied", share |-> share]
    OBVIOUS
  <2>11. task \in TaskType /\ Fits(task, Open(v), T)
    BY <2>4, <2>10 DEF TaskType, ReplyTask, Fits, IsLoop, IsJob
  <2>12. PICK t : t = Write(v, task)
    OBVIOUS
  <2>13. SteerOK(t, T)
    BY <2>7, <2>9, <2>11, <2>12, WriteOK
  <2>14. Handle(c, t)
    BY <2>1, <2>3, <2>5, <2>6, <2>10, <2>12
  <2> QED
    BY <2>13, <2>14 DEF SteersTo, Handle, Go
<1> QED
  BY <1>4, <1>5, <1>7, <1>11, <1>12, Zenon

LEMMA OpenTooLargeSteers ==
    ASSUME HoldsInv, NEW c \in Conns, NEW T, SteerOK(sess[c], T), OpenTooLarge(c)
    PROVE  SteersTo(c, T)
<1>1. PICK r : r = Reading(c)
  OBVIOUS
<1>2. SteerOK(r, T)
  BY <1>1, ReadSteers
<1> QED
  BY <1>1, <1>2 DEF SteersTo, OpenTooLarge, Go

(* What a client sends. *)
LEMMA ReceiveSteers ==
    ASSUME HoldsInv, NEW c \in Conns, NEW T, SteerOK(sess[c], T), Settled(sess[c]), Receive(c)
    PROVE  SteersTo(c, T)
<1>1. ASSUME NEW ch \in Open(sess[c]), sess[c].chans[ch].told # {},
             \/ \E d \in Difficulties : UpdateChannel(c, ch, d)
             \/ CloseChannel(c, ch)
             \/ SetCustomJob(c, ch)
             \/ Submit(c, ch)
      PROVE  SteersTo(c, T)
  <2>1. About(c, ch)
    BY <1>1 DEF About
  <2> QED
    BY <1>1, <2>1, UpdateChannelSteers, CloseChannelSteers, SetCustomJobSteers, SubmitSteers
<1> QED
  BY <1>1, HandshakeSteers, DownSteers, SetupSteers, RefuseSteers, OpenSteers, OpenTooLargeSteers
     DEF Receive

(* The timer, and the row. *)
LEMMA CheckDifficultySteers ==
    ASSUME HoldsInv, NEW c \in Conns, NEW T, T = Tips(infos), SteerOK(sess[c], T),
           NEW d \in Difficulties, CheckDifficulty(c, d)
    PROVE  SteersTo(c, T)
<1>1. PICK s : s = sess[c]
  OBVIOUS
<1>2. s \in SessType /\ Chain(infos)
  BY <1>1, SessIs
<1>3. PICK x \in Nat, y \in Nat : x = Clamp(d) /\ y = s.msgs + 1
  <2>1. d \in Nat /\ s.msgs + 1 \in Nat
    BY <1>2, StratumV2SessionAssumption DEF SessType
  <2>2. Clamp(d) \in Nat
    BY <2>1, ClampNat
  <2> QED
    BY <2>1, <2>2
<1>4. PICK u : u = [s EXCEPT !.diff = x, !.msgs = y]
  OBVIOUS
<1>5. u \in SessType
  BY ONLY <1>2, <1>4, x \in Nat, y \in Nat, ZenonT(60) DEF SessType
<1>6. Calm(s, u)
  BY ONLY <1>2, <1>4, FieldsCalm
<1>7. SteerOK(u, T)
  BY <1>1, <1>6, CalmOK
<1>8. PICK z \in Nat : z = 0
  OBVIOUS
<1>9. PICK t : t = SetTargets(u, z)
  OBVIOUS
<1>10. Steered(Slots(t), t, T) /\ Sound(t)
  BY <1>2, <1>5, <1>7, <1>9, SetTargetsSteers DEF SteerOK
<1>11. sess' = [sess EXCEPT ![c] = t]
  BY <1>1, <1>3, <1>4, <1>8, <1>9 DEF CheckDifficulty, Go
<1> QED
  BY <1>10, <1>11 DEF SteersTo, SteerOK

LEMMA FailRowSteers ==
    ASSUME HoldsInv, NEW c \in Conns, NEW T, SteerOK(sess[c], T), Settled(sess[c]), FailRow(c)
    PROVE  SteersTo(c, T)
<1>1. PICK s : s = sess[c]
  OBVIOUS
<1>2. s \in SessType
  BY <1>1, SessIs
<1>3. PICK x \in RowStates, q \in Seq(OpeningType) : x = "failed" /\ q = << >>
  BY EmptySeq DEF RowStates
<1>4. PICK u : u = [s EXCEPT !.row = x, !.openings = q]
  OBVIOUS
<1>5. /\ u \in SessType /\ u.row = x /\ u.writes = s.writes /\ u.socket = s.socket
      /\ u.destroyed = s.destroyed
  BY ONLY <1>2, <1>4, x \in RowStates, q \in Seq(OpeningType), ZenonT(60) DEF SessType
<1>6. Settled(u) /\ (u.socket = "open" => ~u.destroyed)
  BY <1>1, <1>5 DEF Settled, SteerOK, Sound
<1>7. ASSUME u.destroyed PROVE SteerOK(u, T)
  <2>1. u.socket # "open" /\ \A i \in DOMAIN u.writes : u.writes[i].fails
    BY <1>5, <1>6, <1>7 DEF Settled, SessType, Sockets
  <2>2. Slots(u) = {} /\ ~Followed(u)
    BY <1>3, <1>5, <2>1, NoSlots DEF Followed
  <2> QED
    BY <2>1, <2>2 DEF SteerOK, Sound, Steered, LoopsGoOn, TipsOnly, LoopsIn
<1>8. PICK t : t = Closed(u)
  OBVIOUS
<1>9. SteerOK(t, T)
  BY <1>5, <1>6, <1>7, <1>8, ClosedSteers
<1>10. sess' = [sess EXCEPT ![c] = t]
  BY <1>1, <1>3, <1>4, <1>8 DEF FailRow, Go
<1> QED
  BY <1>9, <1>10 DEF SteersTo

(* The row is there: the openings that waited for it go on.                 *)
LEMMA OpenAllSteers ==
    ASSUME NEW s \in SessType, NEW T, SteerOK(s, T), s.row = "inserting",
           NEW t, t = OpenAll([s EXCEPT !.row = "have"])
    PROVE  SteerOK(t, T)
<1>1. PICK x : x = [ch \in Open(s) |->
                      [s.chans[ch] EXCEPT !.told = IF \E o \in Range(s.openings) : o.ch = ch
                                                   THEN s.chans[ch].told \cup {s.chans[ch].diff}
                                                   ELSE s.chans[ch].told]]
  OBVIOUS
<1>2. PICK opened : opened = [k \in DOMAIN s.openings |->
                                [task |-> [at |-> "opened", ch |-> s.openings[k].ch,
                                           first |-> s.openings[k].first],
                                 fails |-> FALSE]]
  OBVIOUS
<1>3. /\ s.openings \in Seq(OpeningType) /\ DOMAIN s.openings = 1..Len(s.openings)
      /\ Len(s.openings) \in Nat /\ \A k \in DOMAIN s.openings : s.openings[k] \in OpeningType
  <2>1. s.openings \in Seq(OpeningType)
    BY DEF SessType
  <2> QED
    BY <2>1, LenProperties, ElementOfSeq
<1>4. \A k \in DOMAIN s.openings :
         /\ opened[k] \in WriteType /\ opened[k].task.at = "opened"
         /\ opened[k].task.ch = s.openings[k].ch /\ ~opened[k].fails
  BY <1>2, <1>3 DEF WriteType, TaskType, OpenedTask, OpeningType
<1>5. opened \in Seq(WriteType) /\ DOMAIN opened = DOMAIN s.openings
  <2>1. opened \in [1..Len(s.openings) -> WriteType]
    BY <1>2, <1>3, <1>4
  <2> QED
    BY <1>2, <1>3, <2>1, SeqDef
<1>6. \A ch \in Open(s) : x[ch].works = s.chans[ch].works /\ x[ch].prev = s.chans[ch].prev
  <2> SUFFICES ASSUME NEW ch \in Open(s)
               PROVE  x[ch].works = s.chans[ch].works /\ x[ch].prev = s.chans[ch].prev
    OBVIOUS
  <2>1. PICK a \in ChanType : a = s.chans[ch]
    BY ChansOf
  <2>2. PICK told : x[ch] = [a EXCEPT !.told = told]
    BY <1>1, <2>1
  <2>3. x[ch].works = a.works /\ x[ch].prev = a.prev
    BY ONLY a \in ChanType, <2>2 DEF ChanType
  <2> QED
    BY <2>1, <2>3
<1>7. DOMAIN x = Open(s)
  BY <1>1
<1>8. /\ s.writes \in Seq(WriteType) /\ DOMAIN s.writes = 1..Len(s.writes)
      /\ Len(s.writes) \in Nat
  BY WritesTyped
<1>9. PICK q \in Seq(WriteType) : q = s.writes \o opened
  BY <1>5, <1>8, ConcatProperties
<1>10. PICK a \in Nat, b \in Nat :
          /\ a = Len(s.writes) /\ b = Len(opened)
          /\ DOMAIN q = 1 .. a + b /\ DOMAIN s.writes = 1..a /\ DOMAIN s.openings = 1..b
          /\ \A i \in 1 .. a + b : q[i] = IF i <= a THEN s.writes[i] ELSE opened[i - a]
  <2>1. Len(opened) = Len(s.openings)
    BY <1>3, <1>5, LenProperties
  <2>2. /\ Len(q) = Len(s.writes) + Len(opened) /\ DOMAIN q = 1..Len(q)
        /\ \A i \in 1 .. Len(s.writes) + Len(opened) :
              q[i] = IF i <= Len(s.writes) THEN s.writes[i] ELSE opened[i - Len(s.writes)]
    BY <1>5, <1>8, <1>9, ConcatProperties, LenProperties
  <2> QED
    BY <1>3, <1>8, <2>1, <2>2
<1>11. /\ \A i \in DOMAIN s.writes : i \in DOMAIN q /\ q[i] = s.writes[i]
       /\ \A i \in DOMAIN q : \/ i \in DOMAIN s.writes
                              \/ \E k \in DOMAIN s.openings : q[i] = opened[k]
       /\ \A k \in DOMAIN s.openings : \E i \in DOMAIN q : q[i] = opened[k]
  <2>1. \A i \in DOMAIN s.writes : i \in DOMAIN q /\ q[i] = s.writes[i]
    BY ONLY <1>10, a \in Nat, b \in Nat
  <2>2. ASSUME NEW i \in DOMAIN q, i \notin DOMAIN s.writes
        PROVE  \E k \in DOMAIN s.openings : q[i] = opened[k]
    <3>0. /\ DOMAIN q = 1 .. a + b /\ DOMAIN s.writes = 1..a
          /\ \A j \in 1 .. a + b : q[j] = IF j <= a THEN s.writes[j] ELSE opened[j - a]
      BY <1>10
    <3>1. i - a \in 1..b /\ q[i] = opened[i - a]
      BY ONLY <2>2, <3>0, a \in Nat, b \in Nat, i \in DOMAIN q
    <3> QED
      BY <1>10, <3>1
  <2>3. ASSUME NEW k \in DOMAIN s.openings PROVE \E i \in DOMAIN q : q[i] = opened[k]
    <3>1. a + k \in 1 .. a + b /\ ~(a + k <= a) /\ (a + k) - a = k
      BY ONLY <1>10, a \in Nat, b \in Nat, k \in DOMAIN s.openings
    <3>2. a + k \in DOMAIN q /\ q[a + k] = opened[k]
      BY <1>10, <3>1
    <3> QED
      BY <3>2
  <2> QED
    BY <2>1, <2>2, <2>3
<1>12. PICK row : row = "have"
  OBVIOUS
<1>13. PICK u : u = [s EXCEPT !.row = row]
  OBVIOUS
<1>14. /\ u.chans = s.chans /\ u.openings = s.openings /\ u.writes = s.writes
       /\ \A y, w, o : [u EXCEPT !.chans = y, !.writes = w, !.openings = o]
                       = [s EXCEPT !.row = row, !.chans = y, !.writes = w, !.openings = o]
  BY ONLY s \in SessType, <1>13, ZenonT(60) DEF SessType
<1>15. t = [u EXCEPT !.chans = x, !.writes = q, !.openings = << >>]
  <2>1. Open(u) = Open(s)
    BY <1>14 DEF Open
  <2>2. [ch \in Open(u) |->
           [u.chans[ch] EXCEPT !.told = IF \E o \in Range(u.openings) : o.ch = ch
                                        THEN u.chans[ch].told \cup {u.chans[ch].diff}
                                        ELSE u.chans[ch].told]] = x
    BY <1>1, <1>14, <2>1
  <2>3. [k \in DOMAIN u.openings |->
           [task |-> [at |-> "opened", ch |-> u.openings[k].ch,
                      first |-> u.openings[k].first],
            fails |-> FALSE]] = opened
    BY <1>2, <1>14
  <2>4. u.writes \o opened = q
    BY <1>9, <1>14
  <2>5. t = OpenAll(u)
    BY <1>12, <1>13
  <2> QED
    BY <2>2, <2>3, <2>4, <2>5 DEF OpenAll
<1>16. PICK none : none = << >>
  OBVIOUS
<1>17. t = [s EXCEPT !.row = row, !.chans = x, !.writes = q, !.openings = none]
  BY <1>14, <1>15, <1>16
<1>18. /\ t.socket = s.socket /\ t.destroyed = s.destroyed /\ t.overtaken = s.overtaken
       /\ t.workSelection = s.workSelection /\ Flags(s, t)
       /\ t.chans = x /\ t.writes = q
  BY ONLY s \in SessType, <1>17, ZenonT(60) DEF SessType, Flags
<1>19. Open(t) = Open(s)
  BY <1>7, <1>18 DEF Open
<1>20. Slots(s) \subseteq Slots(t)
  <2> SUFFICES ASSUME NEW i \in DOMAIN s.writes, ~s.writes[i].fails
               PROVE  <<i, Task(s, i)>> \in Slots(t)
    BY DEF Slots
  <2>1. i \in DOMAIN t.writes /\ t.writes[i] = s.writes[i]
    BY <1>11, <1>18
  <2>2. i \in {j \in DOMAIN t.writes : ~t.writes[j].fails} /\ Task(t, i) = Task(s, i)
    BY <2>1 DEF Task
  <2> QED
    BY <2>2 DEF Slots
<1>21. ASSUME NEW w \in Slots(t) PROVE w \in Slots(s) \/ w[2].at = "opened"
  <2>1. PICK i \in DOMAIN t.writes : ~t.writes[i].fails /\ w = <<i, Task(t, i)>>
    BY DEF Slots
  <2>2. w[2] = t.writes[i].task
    BY <2>1 DEF Task
  <2>3. CASE i \in DOMAIN s.writes
    <3>1. t.writes[i] = s.writes[i]
      BY <1>11, <1>18, <2>3
    <3>2. i \in {j \in DOMAIN s.writes : ~s.writes[j].fails} /\ Task(t, i) = Task(s, i)
      BY <2>1, <2>3, <3>1 DEF Task
    <3> QED
      BY <2>1, <3>2 DEF Slots
  <2>4. CASE i \notin DOMAIN s.writes
    <3>1. PICK k \in DOMAIN s.openings : t.writes[i] = opened[k]
      BY <1>11, <1>18, <2>1, <2>4
    <3> QED
      BY <1>4, <2>2, <3>1
  <2> QED
    BY <2>3, <2>4
<1>22. Failing(t) <=> Failing(s)
  BY <1>4, <1>11, <1>18 DEF Failing
<1>23. ASSUME NEW k \in DOMAIN s.openings PROVE Reached(Slots(t), T, s.openings[k].ch)
  <2>1. PICK i \in DOMAIN t.writes : t.writes[i] = opened[k]
    BY <1>11, <1>18
  <2>2. i \in {j \in DOMAIN t.writes : ~t.writes[j].fails}
    BY <1>4, <2>1
  <2>3. PICK w : w = <<i, Task(t, i)>>
    OBVIOUS
  <2>4. w \in Slots(t) /\ w[2] = opened[k].task
    BY <2>1, <2>2, <2>3 DEF Slots, Task
  <2> QED
    BY <1>4, <2>4 DEF Reached, Reaches
<1>24. Steered(Slots(s), s, T) /\ Sound(s)
  BY DEF SteerOK
<1>25. \A w \in Slots(t) : IsJob(w[2]) => w \in Slots(s)
  BY <1>21 DEF IsJob
<1>26. Followed(t) => Followed(s)
  BY <1>18, <1>22 DEF Followed, Flags
<1>27. ASSUME Followed(t), NEW ch \in Open(t) PROVE Well(Slots(t), t, T, ch)
  <2>1. Well(Slots(s), s, T, ch)
    BY <1>19, <1>24, <1>26, <1>27 DEF Steered
  <2>2. CASE Reached(Slots(s), T, ch)
    BY <1>20, <2>2 DEF Well, Reached
  <2>3. CASE Tipped(s, T, ch)
    BY <1>6, <1>18, <1>19, <2>3 DEF Well, Tipped
  <2>4. CASE \E k \in DOMAIN s.openings : s.openings[k].ch = ch
    BY <1>23, <2>4 DEF Well
  <2> QED
    BY <2>1, <2>2, <2>3, <2>4 DEF Well, Tipped
<1>28. ASSUME Followed(t) PROVE Ordered(Slots(t), Open(t), T)
  <2>1. Ordered(Slots(s), Open(t), T)
    BY <1>19, <1>24, <1>26, <1>28 DEF Steered
  <2>2. \A v \in Slots(t) : v \in Slots(s) \/ ~Late(v[2], Open(t), T)
    BY <1>25 DEF Late, IsLoop, IsJob
  <2> QED
    BY <1>20, <2>1, <2>2, OrderedWith
<1>29. /\ LoopsGoOn(Slots(t)) /\ (t.socket = "destroyed" => TipsOnly(Slots(t), T))
       /\ (t.socket = "open" /\ ~t.overtaken => LoopsIn(Slots(t), Open(t)))
  BY <1>18, <1>19, <1>24, <1>25 DEF Steered, LoopsGoOn, TipsOnly, LoopsIn, IsLoop
<1>30. Sound(t)
  BY <1>18, <1>22, <1>24 DEF Sound
<1> QED
  BY <1>27, <1>28, <1>29, <1>30 DEF SteerOK, Steered

LEMMA InsertRowSteers ==
    ASSUME HoldsInv, NEW c \in Conns, NEW T, SteerOK(sess[c], T), InsertRow(c)
    PROVE  SteersTo(c, T)
<1>1. PICK s : s = sess[c]
  OBVIOUS
<1>2. s \in SessType
  BY <1>1, SessIs
<1>3. PICK t : t = OpenAll([s EXCEPT !.row = "have"])
  OBVIOUS
<1>4. s.row = "inserting" /\ sess' = [sess EXCEPT ![c] = t]
  BY <1>1, <1>3 DEF InsertRow, Go
<1>5. SteerOK(t, T)
  BY <1>1, <1>2, <1>3, <1>4, OpenAllSteers
<1> QED
  BY <1>4, <1>5 DEF SteersTo

(* A call ends. *)
LEMMA ContinueSteers ==
    ASSUME HoldsInv, NEW c \in Conns, NEW T, SteerOK(sess[c], T), Settled(sess[c]),
           NEW i \in DOMAIN sess[c].calls, Continue(c, i)
    PROVE  SteersTo(c, T)
<1>1. PICK s : s = sess[c]
  OBVIOUS
<1>2. s \in SessType /\ SessOK(s, infos) /\ infos \in Seq(Nat) /\ Ended(s, c \in live)
  BY <1>1, SessIs
<1>3. PICK r : r = Finished(s, i)
  OBVIOUS
<1>4. PICK x : x = RemoveAt(s.calls, i)
  OBVIOUS
<1>5. r = [s EXCEPT !.calls = x]
  BY <1>3, <1>4 DEF Finished
<1>6. Calm(s, r)
  BY ONLY <1>2, <1>5, FieldsCalm
<1>7. SteerOK(r, T)
  BY <1>1, <1>6, CalmOK
<1>8. CASE Go(c, r)
  BY <1>7, <1>8 DEF SteersTo, Go
<1>9. ASSUME NEW at, Go(c, CallGoes(s, i, at)) PROVE SteersTo(c, T)
  <2>1. PICK y : y = [s.calls EXCEPT ![i].at = at]
    OBVIOUS
  <2>2. PICK t : t = [s EXCEPT !.calls = y]
    OBVIOUS
  <2>3. t = CallGoes(s, i, at)
    BY <2>1, <2>2 DEF CallGoes
  <2>4. Calm(s, t)
    BY ONLY <1>2, <2>2, FieldsCalm
  <2>5. SteerOK(t, T)
    BY <1>1, <2>4, CalmOK
  <2> QED
    BY <1>9, <2>3, <2>5 DEF SteersTo, Go
<1>10. CASE Go(c, Closed(r))
  <2>1. r \in SessType
    BY <1>2, <1>1, <1>3, FinishedOK
  <2>2. Settled(r)
    BY <1>1, <1>6 DEF Settled, Calm, Kin
  <2>3. PICK t : t = Closed(r)
    OBVIOUS
  <2>4. SteerOK(t, T)
    BY <1>7, <2>1, <2>2, <2>3, ClosedOfOK
  <2> QED
    BY <1>10, <2>3, <2>4 DEF SteersTo, Go
<1>11. \/ Go(c, r)
       \/ \E at : Go(c, CallGoes(s, i, at))
       \/ Go(c, Closed(r))
  BY <1>1, <1>3 DEF Continue, SubmitBlock, SaveBlock, CallFails, Record, TouchRow, DeleteRow
<1> QED
  BY <1>8, <1>9, <1>10, <1>11

(* A write ends, or fails. *)
LEMMA WriteEndsSteers ==
    ASSUME HoldsInv, NEW c \in Conns, NEW T, T = Tips(infos), SteerOK(sess[c], T),
           NEW i \in DOMAIN sess[c].writes, WriteEnds(c, i)
    PROVE  SteersTo(c, T)
<1>1. PICK s : s = sess[c]
  OBVIOUS
<1>2. /\ s \in SessType /\ SessOK(s, infos) /\ Known(s, nextChannel) /\ Chain(infos)
      /\ i \in DOMAIN s.writes
  BY <1>1, SessIs
<1>3. PICK r : r = Done(s, i)
  OBVIOUS
<1>4. PICK old \in TaskType : old = Task(s, i)
  BY <1>2, WritesTyped
<1>5. PICK t : t = After(r, old)
  OBVIOUS
<1>6. /\ ~s.writes[i].fails /\ (i = 1 \/ s.socket = "destroyed")
      /\ sess' = [sess EXCEPT ![c] = t]
  BY <1>1, <1>3, <1>4, <1>5 DEF WriteEnds, Go, Task
<1>7. /\ r \in SessType /\ SessOK(r, infos) /\ r.row = s.row
      /\ old.at = "job" => Free(r, old)
  BY <1>1, <1>2, <1>3, <1>4, DoneIs
<1>8. Open(r) = Open(s)
  BY <1>2, <1>3, DoneEffect
<1>9. 0 \notin Open(r)
  <2>1. nextChannel \in Nat
    BY DEF HoldsInv, Typed
  <2> QED
    BY <1>2, <1>8, <2>1 DEF Known
<1>10. old.at # "act2" => r.row = "have"
  BY <1>2, <1>4, <1>7 DEF SessOK, RowOK
<1>11. old.at = "job" => old.template <= Len(infos)
  BY <1>2, <1>4 DEF SessOK, CurrentOK
<1>12. Steered(At0(old, r), r, T) /\ Sound(r)
  BY <1>1, <1>2, <1>3, <1>4, <1>6, DoneSteers
<1>13. Steered(Slots(t), t, T) /\ Sound(t)
  BY <1>2, <1>5, <1>7, <1>9, <1>10, <1>11, <1>12, AfterSteers
<1> QED
  BY <1>6, <1>13 DEF SteersTo, SteerOK

LEMMA WriteFailsKeeps ==
    ASSUME HoldsInv, NEW c \in Conns, NEW T, SteerOK(sess[c], T), Settled(sess[c]),
           NEW i \in DOMAIN sess[c].writes, WriteFails(c, i)
    PROVE  SteersTo(c, T)
<1>1. PICK s, t : s = sess[c] /\ t = Closed(Done(s, i))
  OBVIOUS
<1>2. s \in SessType
  BY <1>1, SessIs
<1>3. s.writes[i].fails /\ sess' = [sess EXCEPT ![c] = t]
  BY <1>1, Zenon DEF WriteFails, Go
<1>4. SteerOK(t, T)
  BY <1>1, <1>2, <1>3, WriteFailsSteers
<1> QED
  BY <1>3, <1>4 DEF SteersTo

LEMMA SessionSteers ==
    ASSUME HoldsInv, NEW c \in Conns, NEW T, T = Tips(infos), SteerOK(sess[c], T),
           Settled(sess[c]), Session(c)
    PROVE  SteersTo(c, T)
<1>1. CASE Receive(c)
  BY <1>1, ReceiveSteers
<1>2. CASE AnyWrite(c)
  BY <1>2, WriteEndsSteers, WriteFailsKeeps DEF AnyWrite
<1>3. CASE AnyCall(c)
  BY <1>3, ContinueSteers DEF AnyCall
<1>4. CASE InsertRow(c) \/ FailRow(c)
  BY <1>4, InsertRowSteers, FailRowSteers
<1>5. CASE \E d \in Difficulties : CheckDifficulty(c, d)
  BY <1>5, CheckDifficultySteers
<1>6. CASE LoseSocket(c) \/ OnClose(c)
  BY <1>6, DownSteers
<1> QED
  BY <1>1, <1>2, <1>3, <1>4, <1>5, <1>6 DEF Session

-----------------------------------------------------------------------------
(* A template is emitted. *)

(* More templates are of the tip. *)
LEMMA SteeredMore ==
    ASSUME NEW W, NEW s, NEW T, NEW V, T \subseteq V, Steered(W, s, T)
    PROVE  Steered(W, s, V)
<1>1. LoopsGoOn(W) /\ (s.socket = "destroyed" => TipsOnly(W, V))
  BY DEF Steered, TipsOnly
<1>2. s.socket = "open" /\ ~s.overtaken => LoopsIn(W, Open(s))
  BY DEF Steered
<1>3. ASSUME Followed(s) PROVE Ordered(W, Open(s), V)
  <2>1. Ordered(W, Open(s), T)
    BY <1>3 DEF Steered
  <2>2. \A task : (Late(task, Open(s), V) => Late(task, Open(s), T))
                  /\ (Leads(task, T) => Leads(task, V))
    BY DEF Late, Leads
  <2> QED
    BY <2>1, <2>2 DEF Ordered
<1>4. ASSUME Followed(s), NEW ch \in Open(s) PROVE Well(W, s, V, ch)
  <2>1. Well(W, s, T, ch)
    BY <1>4 DEF Steered
  <2>2. \A task : Reaches(task, T, ch) => Reaches(task, V, ch)
    BY DEF Reaches, Leads
  <2> QED
    BY <2>1, <2>2 DEF Well, Reached
<1> QED
  BY <1>1, <1>2, <1>3, <1>4 DEF Steered

(* The subscriber starts a loop with it; a session that has not subscribed  *)
(* is followed on only if it has no channel yet, or no block came.          *)
LEMMA EmittedSteers ==
    ASSUME NEW s \in SessType, 0 \notin Open(s), Settled(s), NEW clear \in BOOLEAN,
           Latest + 1 \in 1..MaxTemplates, NEW jobs \in SUBSET s.jobs, NEW early \in BOOLEAN,
           early = (s.early \/ (clear /\ ~s.stream /\ Open(s) # {})),
           NEW T, NEW V, SteerOK(s, T), Latest + 1 \in V, ~clear => T \subseteq V,
           NEW t, t = Emitted(s, jobs, early, clear)
    PROVE  SteerOK(t, V)
<1>1. PICK u : u = [s EXCEPT !.jobs = jobs, !.early = early]
  OBVIOUS
<1>2. t = IF s.stream THEN OnTemplate(u, Latest + 1, clear) ELSE u
  BY <1>1 DEF Emitted
<1>3. /\ u \in SessType /\ u.socket = s.socket /\ u.destroyed = s.destroyed /\ u.row = s.row
      /\ u.workSelection = s.workSelection /\ u.overtaken = s.overtaken
      /\ u.openings = s.openings /\ u.writes = s.writes /\ u.chans = s.chans
      /\ u.stream = s.stream /\ u.missed = s.missed /\ u.early = early
  <2>1. jobs \in SUBSET Registered
    BY DEF SessType
  <2> QED
    BY ONLY s \in SessType, early \in BOOLEAN, <1>1, <2>1, ZenonT(60) DEF SessType
<1>4. /\ Slots(u) = Slots(s) /\ (Failing(u) <=> Failing(s)) /\ Open(u) = Open(s)
  BY <1>3, SlotsSame DEF Open
<1>5. Sound(u)
  BY <1>3, <1>4 DEF SteerOK, Sound
<1>6. s.socket = "destroyed" => Slots(s) = {}
  BY NoSlots DEF Settled
<1>7. Steered(Slots(s), s, T)
  BY DEF SteerOK
<1>8. ASSUME ~clear PROVE Steered(Slots(u), u, V)
  <2>1. early <=> s.early
    BY <1>8
  <2>2. Followed(u) => Followed(s)
    BY <1>3, <1>4, <2>1 DEF Followed
  <2>3. Steered(Slots(s), s, V)
    BY <1>7, <1>8, SteeredMore
  <2>4. \A ch \in Open(s) : Well(Slots(s), s, V, ch) => Well(Slots(u), u, V, ch)
    BY <1>3, <1>4 DEF Well
  <2> QED
    BY <1>3, <1>4, <2>2, <2>3, <2>4 DEF Steered
<1>9. Based(Slots(u), u, V)
  <2>1. LoopsGoOn(Slots(u)) /\ (u.socket = "open" /\ ~u.overtaken => LoopsIn(Slots(u), Open(u)))
    BY <1>3, <1>4, <1>7 DEF Steered
  <2>2. u.socket = "destroyed" => TipsOnly(Slots(u), V)
    BY <1>3, <1>4, <1>6 DEF TipsOnly
  <2> QED
    BY <2>1, <2>2 DEF Based
<1>10. CASE s.stream
  <2>1. PICK template \in 1..MaxTemplates : template = Latest + 1
    OBVIOUS
  <2>2. t = OnTemplate(u, template, clear)
    BY <1>2, <1>10, <2>1
  <2>3. IF clear THEN Based(Slots(u), u, V) ELSE Steered(Slots(u), u, V)
    BY <1>8, <1>9
  <2>4. 0 \notin Open(u) /\ template \in V /\ u \in SessType
    BY <1>3, <1>4, <2>1
  <2>5. Steered(Slots(t), t, V) /\ Sound(t)
    BY <1>5, <2>2, <2>3, <2>4, OnTemplateSteers
  <2> QED
    BY <2>5 DEF SteerOK
<1>11. CASE ~s.stream /\ clear
  <2>1. t = u
    BY <1>2, <1>11
  <2>2. Followed(u) => Open(u) = {}
    BY <1>3, <1>4, <1>11 DEF Followed
  <2>3. Open(u) = {} => Ordered(Slots(u), Open(u), V)
    BY DEF Ordered, Late
  <2> QED
    BY <1>5, <1>9, <2>1, <2>2, <2>3 DEF SteerOK, Steered, Based
<1>12. CASE ~s.stream /\ ~clear
  <2>1. t = u
    BY <1>2, <1>12
  <2> QED
    BY <1>5, <1>8, <1>12, <2>1 DEF SteerOK
<1> QED
  BY <1>10, <1>11, <1>12

LEMMA EmitTips ==
    ASSUME Chain(infos), NEW x \in Nat, NEW g, g = Append(infos, x)
    PROVE  /\ Latest + 1 \in Tips(g)
           /\ x = LastBlock => Tips(infos) \subseteq Tips(g)
<1>1. infos \in Seq(Nat) /\ Latest \in 1..MaxTemplates /\ Latest = Len(infos)
  BY DEF Chain, Latest
<1>2. /\ g \in Seq(Nat) /\ Len(g) = Len(infos) + 1
      /\ \A t \in 1..Len(infos) : g[t] = infos[t] /\ g[Len(g)] = x
  <2>1. infos # << >>
    BY <1>1, EmptySeq
  <2> QED
    BY <1>1, <2>1, GrownHeights
<1>3. PICK n \in Nat \ {0} : n = Len(infos) /\ Latest = n /\ Len(g) = n + 1
  BY <1>1, <1>2, StratumV2SessionAssumption
<1>4. n \in 1..n /\ n + 1 \in 1 .. n + 1 /\ 1..n \subseteq 1 .. n + 1
  OBVIOUS
<1>5. g[n + 1] = x
  BY <1>2, <1>3, <1>4
<1>6. Latest + 1 \in Tips(g)
  BY <1>3, <1>4 DEF Tips
<1>7. ASSUME x = LastBlock PROVE Tips(infos) \subseteq Tips(g)
  <2>1. x = infos[n]
    BY <1>3, <1>7 DEF LastBlock
  <2> SUFFICES ASSUME NEW t \in Tips(infos) PROVE t \in Tips(g)
    OBVIOUS
  <2>2. t \in 1..n /\ infos[t] = infos[n]
    BY <1>3 DEF Tips
  <2>3. g[t] = infos[t] /\ t \in 1 .. n + 1
    BY <1>2, <1>3, <1>4, <2>2
  <2> QED
    BY <1>3, <1>5, <2>1, <2>2, <2>3 DEF Tips
<1> QED
  BY <1>6, <1>7

-----------------------------------------------------------------------------
(* The invariant.                                                           *)

SteerInv == \A c \in Conns : SteerOK(sess[c], Tips(infos))

LEMMA EmitSteers ==
    ASSUME HoldsInv, SteerInv, \A c \in Conns : Settled(sess[c]),
           NEW info \in {LastBlock, LastBlock + 1}, NEW height, NEW old \in 0..Latest,
           EmitTemplate(info, height, old)
    PROVE  SteerInv'
<1>1. /\ infos \in Seq(Nat) /\ Latest \in 1..MaxTemplates /\ Latest = Len(infos)
      /\ infos # << >> /\ Chain(infos) /\ nextChannel \in Nat \ {0}
  BY EmptySeq DEF HoldsInv, Typed, Chain, Latest
<1>2. info \in Nat
  <2>1. infos[Len(infos)] \in Nat
    BY <1>1, ElementOfSeq
  <2> QED
    BY <2>1 DEF LastBlock, Latest
<1>3. PICK clear \in BOOLEAN : clear = (info # LastBlock)
  OBVIOUS
<1>4. PICK g : g = Append(infos, info)
  OBVIOUS
<1>5. infos' = g /\ Latest < MaxTemplates
  BY <1>4 DEF EmitTemplate
<1>6. Latest + 1 \in 1..MaxTemplates
  BY <1>1, <1>5, StratumV2SessionAssumption
<1>7. PICK V : V = Tips(g)
  OBVIOUS
<1>8. Latest + 1 \in V /\ (~clear => Tips(infos) \subseteq V)
  BY <1>1, <1>2, <1>3, <1>4, <1>7, EmitTips
<1>9. PICK jobs : jobs = [c \in Conns |-> {j \in sess[c].jobs : ~clear /\ j.template > old}]
  OBVIOUS
<1>10. PICK early : early = [c \in Conns |-> sess[c].early \/ (clear /\ ~sess[c].stream
                                                              /\ Open(sess[c]) # {})]
  OBVIOUS
<1>11. sess' = [c \in Conns |->
             IF sess[c].stream
             THEN OnTemplate([sess[c] EXCEPT !.jobs = jobs[c], !.early = early[c]],
                             Latest + 1, clear)
             ELSE [sess[c] EXCEPT !.jobs = jobs[c], !.early = early[c]]]
  BY <1>3, <1>9, <1>10 DEF EmitTemplate
<1>12. ASSUME NEW c \in Conns PROVE SteerOK(sess'[c], V)
  <2>1. PICK s : s = sess[c]
    OBVIOUS
  <2>2. s \in SessType /\ Known(s, nextChannel) /\ Settled(s)
    BY <2>1, SessIs
  <2>3. 0 \notin Open(s)
    BY <1>1, <2>2 DEF Known
  <2>4. PICK js : js = jobs[c]
    OBVIOUS
  <2>5. PICK e : e = (s.early \/ (clear /\ ~s.stream /\ Open(s) # {}))
    OBVIOUS
  <2>6. js \in SUBSET s.jobs
    BY <1>9, <2>1, <2>4
  <2>7. e \in BOOLEAN
    <3>1. (s.early \/ (clear /\ ~s.stream /\ Open(s) # {})) \in BOOLEAN
      OBVIOUS
    <3> QED
      BY <2>5, <3>1, Zenon
  <2>8. e = early[c]
    BY <1>10, <2>1, <2>5, Zenon
  <2>9. PICK t : t = Emitted(s, js, e, clear)
    OBVIOUS
  <2>10. sess'[c] = t
    BY <1>11, <2>1, <2>4, <2>8, <2>9 DEF Emitted
  <2>11. PICK T : T = Tips(infos)
    OBVIOUS
  <2>12. SteerOK(s, T) /\ (~clear => T \subseteq V)
    BY <1>8, <2>1, <2>11 DEF SteerInv
  <2>13. SteerOK(t, V)
    BY ONLY <1>3, <1>6, <1>8, <2>2, <2>3, <2>5, <2>6, <2>7, <2>9, <2>12, EmittedSteers
  <2> QED
    BY <2>10, <2>13
<1> QED
  BY <1>5, <1>7, <1>12 DEF SteerInv

LEMMA OneSteers ==
    ASSUME HoldsInv, SteerInv, NEW c \in Conns, SteersTo(c, Tips(infos)), infos' = infos
    PROVE  SteerInv'
<1>1. PICK t : sess' = [sess EXCEPT ![c] = t] /\ SteerOK(t, Tips(infos))
  BY DEF SteersTo
<1>2. sess \in [Conns -> SessType]
  BY SessIs
<1>3. ASSUME NEW d \in Conns PROVE SteerOK(sess'[d], Tips(infos))
  <2>1. CASE d = c
    BY <1>1, <1>2, <2>1
  <2>2. CASE d # c
    BY <1>1, <1>2, <2>2 DEF SteerInv
  <2> QED
    BY <2>1, <2>2
<1> QED
  BY <1>3 DEF SteerInv

LEMMA SteerInit == Init => SteerInv
<1> SUFFICES ASSUME Init, NEW c \in Conns PROVE SteerOK(sess[c], Tips(infos))
  BY DEF SteerInv
<1>1. PICK mode \in PayoutModes : sess[c] = NewSession(mode)
  BY DEF Init
<1>2. PICK s : s = NewSession(mode)
  OBVIOUS
<1>3. << >> \in Seq(Nat)
  OBVIOUS
<1>4. Open(s) = {} /\ DOMAIN s.writes = {}
  BY <1>2, <1>3, NewSessionOK
<1>5. ~s.destroyed
  BY <1>2 DEF NewSession
<1>6. Slots(s) = {} /\ ~Failing(s)
  BY <1>4 DEF Slots, Failing
<1>7. Steered(Slots(s), s, Tips(infos))
  BY <1>4, <1>6 DEF Steered, LoopsGoOn, TipsOnly, LoopsIn, Ordered
<1>8. Sound(s)
  BY <1>5, <1>6 DEF Sound
<1> QED
  BY <1>1, <1>2, <1>7, <1>8 DEF SteerOK

LEMMA SteerNext == HoldsInv /\ SteerInv /\ [Next]_vars => SteerInv'
<1> SUFFICES ASSUME HoldsInv, SteerInv, [Next]_vars PROVE SteerInv'
  OBVIOUS
<1>1. CASE UNCHANGED vars
  <2>1. UNCHANGED <<sess, infos>>
    BY <1>1 DEF vars, chain
  <2> QED
    BY <2>1 DEF SteerInv
<1>2. ASSUME NEW c \in Conns, NEW i \in Unwritten(c), WriteEnds(c, i) PROVE SteerInv'
  <2>1. i \in DOMAIN sess[c].writes
    BY DEF Unwritten
  <2>2. SteersTo(c, Tips(infos))
    BY <1>2, <2>1, WriteEndsSteers DEF SteerInv
  <2> QED
    BY <1>2, <2>2, OneSteers, ChainStays
<1>3. ASSUME NEW c \in Conns PROVE Unwritten(c) = {} => Settled(sess[c])
  BY DEF Unwritten, Settled
<1>4. ASSUME NEW c \in Conns, Unwritten(c) = {}, Session(c) PROVE SteerInv'
  <2>1. SteersTo(c, Tips(infos))
    BY <1>3, <1>4, SessionSteers DEF SteerInv
  <2> QED
    BY <1>4, <2>1, OneSteers, ChainStays
<1>5. ASSUME NEW info \in {LastBlock, LastBlock + 1}, NEW height \in Heights,
             NEW old \in 0..Latest, \A c \in Conns : Unwritten(c) = {},
             EmitTemplate(info, height, old)
      PROVE  SteerInv'
  BY <1>3, <1>5, EmitSteers
<1> QED
  BY <1>1, <1>2, <1>4, <1>5 DEF Next

LEMMA SteersAlways == Spec => [](HoldsInv /\ SteerInv)
<1>1. Init => HoldsInv /\ SteerInv
  BY HoldsInit, SteerInit
<1>2. HoldsInv /\ SteerInv /\ [Next]_vars => (HoldsInv /\ SteerInv)'
  BY HoldsNext, SteerNext
<1> QED
  BY <1>1, <1>2, PTL DEF Spec

(* At rest no frame waits, so no channel's work is stale.                   *)
LEMMA RestIsOnTip == HoldsInv /\ SteerInv => WorksOnTip
<1> SUFFICES ASSUME HoldsInv, SteerInv, NEW c \in Conns, Quiet(c), sess[c].stream,
                    ~sess[c].overtaken, ~sess[c].missed, NEW ch \in Open(sess[c])
             PROVE  ~Stale(sess[c].chans[ch].works) /\ ~Stale(sess[c].chans[ch].prev)
  BY DEF WorksOnTip
<1>1. PICK s : s = sess[c]
  OBVIOUS
<1>2. /\ RowOK(s) /\ Ended(s, c \in live) /\ SteerOK(s, Tips(infos)) /\ Chain(infos)
  BY <1>1, SessIs DEF SessOK, SteerInv
<1>3. s.openings = << >> /\ s.writes = << >> /\ s.stream /\ ~s.overtaken /\ ~s.missed
  BY <1>1 DEF Quiet
<1>4. DOMAIN s.openings = {} /\ DOMAIN s.writes = {}
  BY <1>3
<1>5. Slots(s) = {} /\ ~Failing(s)
  BY <1>4 DEF Slots, Failing
<1>6. ~s.workSelection /\ s.row # "failed"
  BY <1>2, <1>3 DEF RowOK, Ended
<1>7. Followed(s)
  BY <1>3, <1>5, <1>6 DEF Followed
<1>8. Well(Slots(s), s, Tips(infos), ch)
  BY <1>1, <1>2, <1>7 DEF SteerOK, Steered
<1>9. s.chans[ch].works \in Tips(infos) /\ s.chans[ch].prev \in Tips(infos)
  BY <1>4, <1>5, <1>8 DEF Well, Reached
<1>10. ASSUME NEW t \in Tips(infos) PROVE ~Stale(t)
  <2>1. infos \in Seq(Nat) /\ Len(infos) \in Nat
    BY <1>2 DEF Chain
  <2>2. t \in 1..Len(infos) /\ infos[t] = infos[Len(infos)]
    BY DEF Tips
  <2>3. t \in 1..Latest /\ OfBlock(t)
    BY <2>1, <2>2 DEF OfBlock, LastBlock, Latest
  <2> QED
    BY <2>3, OfBlockIsNotStale
<1> QED
  BY <1>1, <1>9, <1>10

(* A miner that nothing is under way for works on a template of the tip on   *)
(* every channel, with the tip's previous hash, in whatever order the loops  *)
(* of the subscriber of newMiningJob$ and of checkDifficulty and the opening *)
(* handlers went through the channels, unless a loop's channel was closed or *)
(* a block came before the subscription; while templates of two blocks are   *)
(* mixed (Misfiled), on ones that came since the last clearJobs.  And each   *)
(* job's difficulty was told.                                                *)
THEOREM ChannelsStayCurrent == Spec => []ChannelsAreCurrent
<1>1. HoldsInv /\ SteerInv => ChannelsAreCurrent
  BY RestIsOnTip, ToldHolds DEF ChannelsAreCurrent
<1> QED
  BY <1>1, SteersAlways, PTL
=============================================================================
