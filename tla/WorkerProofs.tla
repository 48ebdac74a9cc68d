----------------------------- MODULE WorkerProofs -----------------------------
(***************************************************************************)
(* Proofs about the worker processes: the safety of StratumServers, for    *)
(* any ports, connections, callers, limits and numbers of checks, and of   *)
(* TemplateBroadcast, for any workers, chain, queues and faults.           *)
(*                                                                         *)
(* PortsInv speaks of the ports and the monitor, KeysInv of the Noise      *)
(* configuration, GoneInv of the connections; each is inductive beside     *)
(* TypeOK.  BroadcastInv follows the last message to a worker: before it,  *)
(* in its last load, or in the template it works on.                       *)
(***************************************************************************)
EXTENDS StratumServers, TemplateBroadcast, FiniteSetTheorems, SequenceTheorems, TLAPS

(* A watched port has a server from the start of the listeners on, unless it *)
(* is paused.                                                                *)
Served == \A p \in Watched : server[p] = "none" <=> paused[p] \/ ~started

(* Healthy checks are counted only while ports are paused, and never more    *)
(* than there were in a row.                                                 *)
CountIsStreak ==
    /\ healthy <= streak
    /\ (\A p \in Watched : ~paused[p]) => healthy = 0

(* Before the listeners exist nothing is paused, and nothing trips.          *)
Untripped ==
    ~started => ~tripped /\ \A p \in Watched : ~paused[p]

PortsInv == Served /\ CountIsStreak /\ Untripped /\ PausedTogether /\ TrippedIsQuiet

(* A client that is live on a connection already cleaned up, or one that may *)
(* come, is of a connection that had to wait.                                *)
GoneOK(conn, asks) ==
    /\ conn.destroys <= 1
    /\ ~conn.cleaned => conn.destroys = 0
    /\ asks = "generating" => conn.late
    /\ conn.client = "live" /\ (conn.cleaned \/ conn.socket = "closed") => conn.late

GoneInv == \A c \in Conns : GoneOK(conns[c], asking[c])

ServersInv == TypeOK /\ PortsInv /\ CertificateVerifies /\ GoneInv

-----------------------------------------------------------------------------
LEMMA InitServers == Init => ServersInv
<1> SUFFICES ASSUME Init PROVE ServersInv
    OBVIOUS
<1> USE StratumServersAssumption DEF Init
<1>1. TypeOK
  <2>1. conns \in [Conns -> ConnType]
      BY DEF ConnType, Idle
  <2>2. healthy \in 0..HealthyChecks - 1 /\ streak \in 0..HealthyChecks
        /\ authority \in Nat /\ noise \in 0..authority
      OBVIOUS
  <2> QED BY <2>1, <2>2 DEF TypeOK
<1>2. PortsInv
    BY DEF PortsInv, Served, CountIsStreak, Untripped, PausedTogether,
           TrippedIsQuiet, Watched
<1>3. CertificateVerifies
    BY DEF CertificateVerifies
<1>4. GoneInv
    BY DEF GoneInv, GoneOK, Idle
<1> QED BY <1>1, <1>2, <1>3, <1>4 DEF ServersInv

(* The ports and the monitor do not look at connections or keys.             *)
LEMMA PortsUnchanged ==
    ASSUME PortsInv, UNCHANGED listening
    PROVE  PortsInv'
BY DEF PortsInv, listening, Served, CountIsStreak, Untripped, PausedTogether,
       TrippedIsQuiet

-----------------------------------------------------------------------------
(* The listeners and the monitor *)

LEMMA StartListenersStep ==
    ASSUME ServersInv, StartListeners
    PROVE  ServersInv'
<1> USE StratumServersAssumption DEF ServersInv, StartListeners, Listen
<1>1. TypeOK'
    BY DEF TypeOK, Watched, keys
<1>2. \A p \in Watched : ~paused'[p] /\ server'[p] # "none"
    BY DEF TypeOK, Watched
<1>3. PortsInv'
    BY <1>2 DEF PortsInv, Served, CountIsStreak, Untripped, PausedTogether,
                TrippedIsQuiet, TypeOK, Watched
<1>4. CertificateVerifies' /\ GoneInv'
    BY DEF CertificateVerifies, GoneInv, keys
<1> QED BY <1>1, <1>3, <1>4

(* What the monitor does to the ports: none is paused, all are, or no change. *)
LEMMA PausePorts ==
    ASSUME ServersInv, PauseAccepting, \A p \in Watched : ~paused[p]
    PROVE  /\ server' \in [Ports -> {"none", "listening", "failed"}]
           /\ paused' \in [Ports -> BOOLEAN]
           /\ \A p \in Ports : paused'[p] => p \in Watched /\ server'[p] = "none"
           /\ \A p \in Watched : server'[p] = "none"
           /\ \A p \in Watched : paused'[p] <=> started
<1> USE DEF ServersInv, PauseAccepting, Pausable
<1>1. \A p \in Watched : p \in Pausable <=> started
    BY DEF PortsInv, Served, TypeOK
<1> QED BY <1>1 DEF TypeOK, Watched, PortsInv, Served

LEMMA ResumePorts ==
    ASSUME ServersInv, Listen(Resumable)
    PROVE  /\ server' \in [Ports -> {"none", "listening", "failed"}]
           /\ paused' \in [Ports -> BOOLEAN]
           /\ \A p \in Ports : ~paused'[p]
           /\ \A p \in Watched : server'[p] = "none" <=> ~started
<1> USE DEF ServersInv, Listen
<1>1. \A p \in Ports : p \in Resumable <=> paused[p]
    BY DEF Resumable, TypeOK, Watched
<1>2. PICK bound \in [Resumable -> {"listening", "failed"}] :
        server' = [p \in Ports |-> IF p \in Resumable THEN bound[p] ELSE server[p]]
    OBVIOUS
<1>3. \A p \in Resumable : bound[p] \in {"listening", "failed"}
    BY <1>2
<1> QED BY <1>1, <1>2, <1>3 DEF TypeOK, Watched, PortsInv, Served, Untripped

(* checkBackpressure, with the count it keeps.                               *)
LEMMA CheckBackpressureStep ==
    ASSUME ServersInv, CheckBackpressure
    PROVE  ServersInv'
<1> USE StratumServersAssumption DEF ServersInv
<1>0. /\ HealthyChecks \in Nat \ {0} /\ healthy \in Nat /\ healthy < HealthyChecks
      /\ streak \in Nat /\ streak <= HealthyChecks /\ healthy <= streak
      /\ load \in Loads /\ UNCHANGED <<started, keys, load, asking>>
      /\ (\A p \in Watched : ~paused[p]) => healthy = 0
    BY DEF TypeOK, CheckBackpressure, PortsInv, CountIsStreak
<1>1. /\ streak' \in 0..HealthyChecks
      /\ load # "healthy" => streak' = 0
      /\ load = "healthy" => streak' > streak \/ streak' = HealthyChecks
    BY <1>0 DEF CheckBackpressure
<1>2. CertificateVerifies'
    BY <1>0 DEF CertificateVerifies, keys
<1>3. CASE load = "overloaded" /\ (\A p \in Watched : ~paused[p]) /\ PauseAccepting
           /\ healthy' = Counted /\ tripped' = (\E p \in Watched : server[p] # "none")
  <2>1. healthy' = 0
      BY <1>3 DEF Counted
  <2>2. conns' \in [Conns -> ConnType]
      <3>1. conns' = Uncounted(Pausable) /\ conns \in [Conns -> ConnType]
          BY <1>3 DEF PauseAccepting, TypeOK
      <3>2. ASSUME NEW c \in Conns PROVE Uncounted(Pausable)[c] \in ConnType
        <4>1. conns[c] \in ConnType
            BY <3>1
        <4>2. [conns[c] EXCEPT !.counted = FALSE] \in ConnType
            BY <4>1 DEF ConnType
        <4> QED BY <4>1, <4>2 DEF Uncounted
      <3> QED BY <3>1, <3>2 DEF Uncounted
  <2>3. GoneInv'
      <3>1. conns' = Uncounted(Pausable) /\ asking' = asking
          BY <1>0, <1>3 DEF PauseAccepting
      <3>2. \A c \in Conns :
              /\ conns'[c].destroys = conns[c].destroys
              /\ conns'[c].cleaned = conns[c].cleaned
              /\ conns'[c].late = conns[c].late
              /\ conns'[c].client = conns[c].client
              /\ conns'[c].socket = conns[c].socket
          BY <3>1 DEF Uncounted, TypeOK, ConnType
      <3> QED BY <3>1, <3>2 DEF GoneInv, GoneOK
  <2>4. TypeOK'
    <3>1. tripped' \in BOOLEAN
        BY <1>3
    <3>2. /\ server' \in [Ports -> {"none", "listening", "failed"}]
          /\ paused' \in [Ports -> BOOLEAN]
          /\ \A p \in Ports : paused'[p] => p \in Watched /\ server'[p] = "none"
        BY <1>3, PausePorts
    <3>3. healthy' \in 0..HealthyChecks - 1
        BY <1>0, <2>1
    <3> QED BY <1>0, <1>1, <2>2, <3>1, <3>2, <3>3 DEF TypeOK, keys, Watched
  <2>5. PortsInv'
    <3>1. /\ \A p \in Watched : server'[p] = "none"
          /\ \A p \in Watched : paused'[p] <=> started
          /\ started' = started /\ started \in BOOLEAN /\ paused' \in [Ports -> BOOLEAN]
        BY <1>0, <1>3, PausePorts DEF TypeOK
    <3>2. Served' /\ PausedTogether' /\ TrippedIsQuiet'
        BY <3>1 DEF Served, PausedTogether, TrippedIsQuiet, Watched
    <3>3. CountIsStreak'
        BY <1>1, <2>1 DEF CountIsStreak
    <3>4. Untripped'
        BY <1>3, <3>1 DEF Untripped, PortsInv, Served, Watched
    <3> QED BY <3>2, <3>3, <3>4 DEF PortsInv
  <2> QED BY <1>2, <2>3, <2>4, <2>5
<1>4. CASE Resumes /\ Listen(Resumable) /\ healthy' = 0 /\ UNCHANGED conns
           /\ tripped' = (tripped /\ streak' < HealthyChecks)
  <2>1. ~tripped' /\ tripped' \in BOOLEAN
    <3>1. load = "healthy" /\ Counted >= HealthyChecks
        BY <1>4 DEF Resumes
    <3>2. Counted <= healthy + 1
        BY <1>0 DEF Counted
    <3>3. streak' = HealthyChecks
        BY <1>0, <1>1, <3>1, <3>2 DEF Counted
    <3>4. tripped' = (tripped /\ streak' < HealthyChecks)
        BY <1>4
    <3>5. ~(streak' < HealthyChecks)
        BY <1>0, <3>3
    <3> QED BY <3>4, <3>5, Zenon
  <2>2. GoneInv'
      BY <1>0, <1>4 DEF GoneInv
  <2>3. TypeOK'
      BY <1>0, <1>1, <1>4, <2>1, ResumePorts DEF TypeOK, keys
  <2>4. PortsInv'
      BY <1>0, <1>1, <1>4, <2>1, ResumePorts
         DEF PortsInv, Served, CountIsStreak, Untripped, PausedTogether, TrippedIsQuiet, Watched
  <2> QED BY <1>2, <2>2, <2>3, <2>4
<1>5. CASE /\ ~(load = "overloaded" /\ \A p \in Watched : ~paused[p]) /\ ~Resumes
           /\ healthy' = Counted /\ tripped' = (tripped /\ streak' < HealthyChecks)
           /\ UNCHANGED <<server, paused, conns>>
  <2>1. /\ healthy' \in 0..HealthyChecks - 1
        /\ healthy' <= streak'
        /\ (\A p \in Watched : ~paused[p]) => healthy' = 0
      BY <1>0, <1>1, <1>5 DEF Counted, Resumes, Loads
  <2>2. GoneInv'
      BY <1>0, <1>5 DEF GoneInv
  <2>3. TypeOK'
      BY <1>0, <1>1, <1>5, <2>1 DEF TypeOK, keys
  <2>4. PortsInv'
      BY <1>0, <1>5, <2>1
         DEF PortsInv, Served, CountIsStreak, Untripped, PausedTogether, TrippedIsQuiet
  <2> QED BY <1>2, <2>2, <2>3, <2>4
<1> QED BY <1>3, <1>4, <1>5 DEF CheckBackpressure

-----------------------------------------------------------------------------
(* The Noise configuration *)

(* A key is drawn only while there is no configuration.                      *)
LEMMA AsksKeepsKeys ==
    ASSUME ServersInv, NEW a \in Conns \cup Starters, Asks(a), noise' = noise
    PROVE  /\ asking' \in [Conns \cup Starters -> {"new", "generating", "done"}]
           /\ \A d \in Conns \cup Starters : d # a => asking'[d] = asking[d]
           /\ authority' \in Nat /\ noise' \in 0..authority'
           /\ CertificateVerifies'
<1> USE DEF ServersInv, TypeOK, CertificateVerifies, Asks
<1>1. CASE noise # 0
    BY <1>1
<1>2. CASE noise = 0
    BY <1>2
<1> QED BY <1>1, <1>2

LEMMA GeneratedKeepsKeys ==
    ASSUME ServersInv, NEW a \in Conns \cup Starters, Generated(a)
    PROVE  /\ asking' \in [Conns \cup Starters -> {"new", "generating", "done"}]
           /\ \A d \in Conns \cup Starters : d # a => asking'[d] = asking[d]
           /\ asking'[a] = "done"
           /\ authority' \in Nat /\ noise' \in 0..authority'
           /\ CertificateVerifies'
BY DEF ServersInv, TypeOK, CertificateVerifies, Generated

(* A step that leaves ports and connections alone.                           *)
LEMMA KeysStep ==
    ASSUME ServersInv, UNCHANGED <<listening, load, conns>>,
           asking' \in [Conns \cup Starters -> {"new", "generating", "done"}],
           \A c \in Conns : asking'[c] = asking[c],
           authority' \in Nat, noise' \in 0..authority', CertificateVerifies'
    PROVE  ServersInv'
<1> USE DEF ServersInv
<1>1. PortsInv'
    BY PortsUnchanged
<1>2. TypeOK'
    BY DEF TypeOK, listening
<1>3. GoneInv'
    BY DEF GoneInv
<1> QED BY <1>1, <1>2, <1>3

LEMMA StartersStep ==
    ASSUME ServersInv, NEW a \in Starters, Start(a) \/ Initialized(a)
    PROVE  ServersInv'
<1>1. \A c \in Conns : c # a
    BY StratumServersAssumption
<1>2. CASE Start(a)
    BY <1>1, <1>2, AsksKeepsKeys, KeysStep DEF Start
<1>3. CASE Initialized(a)
    BY <1>1, <1>3, GeneratedKeepsKeys, KeysStep DEF Initialized
<1> QED BY <1>2, <1>3

LEMMA OpenV2PortStep ==
    ASSUME ServersInv, NEW p \in Ports, OpenV2Port(p)
    PROVE  ServersInv'
<1> USE DEF ServersInv, OpenV2Port
<1>1. \A q \in Watched : server'[q] = server[q]
    BY DEF Watched, TypeOK
<1>2. TypeOK'
    BY DEF TypeOK, keys, Watched
<1>3. PortsInv'
    BY <1>1 DEF PortsInv, Served, CountIsStreak, Untripped, PausedTogether, TrippedIsQuiet
<1>4. GoneInv' /\ CertificateVerifies'
    BY DEF GoneInv, CertificateVerifies, keys
<1> QED BY <1>2, <1>3, <1>4

LEMMA LoadChangesStep ==
    ASSUME ServersInv, LoadChanges
    PROVE  ServersInv'
<1> USE DEF ServersInv, LoadChanges
<1>1. PortsInv'
    BY PortsUnchanged
<1>2. TypeOK'
    BY DEF TypeOK, listening, keys
<1>3. GoneInv' /\ CertificateVerifies'
    BY DEF GoneInv, CertificateVerifies, keys
<1> QED BY <1>1, <1>2, <1>3

-----------------------------------------------------------------------------
(* Connections *)

(* One connection changes, in a way that is fit for it, and at most it asks. *)
LEMMA ConnKeeps ==
    ASSUME ServersInv, NEW c \in Conns, NEW conn, Become(c, conn),
           UNCHANGED <<listening, load>>,
           conn \in ConnType, GoneOK(conn, asking'[c]),
           asking' \in [Conns \cup Starters -> {"new", "generating", "done"}],
           \A d \in Conns : d # c => asking'[d] = asking[d],
           authority' \in Nat, noise' \in 0..authority', CertificateVerifies'
    PROVE  ServersInv'
<1> USE DEF ServersInv
<1>1. PortsInv'
    BY PortsUnchanged
<1>2. /\ conns' \in [Conns -> ConnType] /\ conns'[c] = conn
      /\ \A d \in Conns : d # c => conns'[d] = conns[d]
    BY DEF Become, TypeOK
<1>3. TypeOK'
    BY <1>2 DEF TypeOK, listening
<1>4. GoneInv'
    BY <1>2 DEF GoneInv
<1> QED BY <1>1, <1>3, <1>4

(* Most steps of a connection touch nothing else.                            *)
LEMMA OnlyConnKeeps ==
    ASSUME ServersInv, NEW c \in Conns, NEW conn, Become(c, conn), OnlyConns,
           conn \in ConnType, GoneOK(conn, asking[c])
    PROVE  ServersInv'
<1>1. /\ UNCHANGED <<listening, load, asking, authority, noise>>
      /\ CertificateVerifies'
    BY DEF OnlyConns, keys, ServersInv, CertificateVerifies
<1> QED BY <1>1, ConnKeeps DEF ServersInv, TypeOK

(* What the clean-up makes of a connection is fit for it, if the socket is   *)
(* open or the event of its close comes.                                     *)
LEMMA HandledIsFit ==
    ASSUME NEW conn \in ConnType, NEW asks, GoneOK(conn, asks)
    PROVE  Handled(conn) \in ConnType /\ GoneOK(Handled(conn), asks)
<1>1. CASE Handled(conn) = CloseSocket(conn)
    BY <1>1 DEF CloseSocket, ConnType, GoneOK
<1>2. CASE Handled(conn) = Clean(conn)
  <2>1. CASE conn.cleaned
      BY <1>2, <2>1 DEF Clean
  <2>2. CASE ~conn.cleaned /\ conn.client = "live"
    <3> DEFINE told == [conn EXCEPT !.cleaned = TRUE, !.client = "destroying",
                                    !.destroys = @ + 1]
    <3>1. Handled(conn) = told
        BY <1>2, <2>2 DEF Clean
    <3>2. told \in ConnType
      <4>1. conn.destroys + 1 \in Nat
          BY DEF ConnType
      <4>2. \A n \in Nat : [conn EXCEPT !.destroys = n] \in ConnType
          BY DEF ConnType
      <4>3. [conn EXCEPT !.destroys = conn.destroys + 1] \in ConnType
          BY <4>1, <4>2
      <4>4. \A x \in ConnType :
              [x EXCEPT !.cleaned = TRUE, !.client = "destroying"] \in ConnType
          BY DEF ConnType
      <4>5. told = [[conn EXCEPT !.destroys = conn.destroys + 1]
                       EXCEPT !.cleaned = TRUE, !.client = "destroying"]
          BY DEF ConnType
      <4> QED BY <4>3, <4>4, <4>5
    <3>3. told.cleaned /\ told.client = "destroying" /\ told.late = conn.late
        BY DEF ConnType
    <3>4. told.destroys = 1
        BY <2>2 DEF ConnType, GoneOK
    <3> HIDE DEF told
    <3>5. GoneOK(told, asks)
        BY <3>3, <3>4 DEF GoneOK
    <3> QED BY <3>1, <3>2, <3>5
  <2>3. CASE ~conn.cleaned /\ conn.client # "live"
      BY <1>2, <2>3 DEF Clean, ConnType, GoneOK
  <2> QED BY <2>1, <2>2, <2>3
<1> QED BY <1>1, <1>2 DEF Handled

LEMMA ClosedIsFit ==
    ASSUME NEW conn \in ConnType, NEW asks, GoneOK(conn, asks),
           conn.client = "live" /\ ~conn.late => ~conn.cleaned
    PROVE  /\ [Handled(conn) EXCEPT !.socket = "closed"] \in ConnType
           /\ GoneOK([Handled(conn) EXCEPT !.socket = "closed"], asks)
<1>1. Handled(conn) \in ConnType /\ GoneOK(Handled(conn), asks)
    BY HandledIsFit
<1>2. Handled(conn).client = "live" => Handled(conn).cleaned
  <2>1. CASE Handled(conn) = CloseSocket(conn)
      BY <2>1 DEF CloseSocket, ConnType
  <2>2. CASE Handled(conn) = Clean(conn)
      BY <2>2 DEF Clean, ConnType
  <2> QED BY <2>1, <2>2 DEF Handled
<1> QED BY <1>1, <1>2 DEF GoneOK, ConnType

LEMMA ConnSteps ==
    ASSUME ServersInv, NEW c \in Conns, ConnStep(c)
    PROVE  ServersInv'
<1>1. conns[c] \in ConnType /\ GoneOK(conns[c], asking[c])
    BY DEF ServersInv, TypeOK, GoneInv
<1>2. ASSUME NEW p \in Ports, Connect(c, p) PROVE ServersInv'
  <2> DEFINE conn == [Idle EXCEPT !.port = p, !.socket = "open", !.counted = TRUE,
                        !.heard = KindOf[p] = "secure",
                        !.client = IF KindOf[p] = "secure" THEN "live" ELSE "none"]
  <2>1. conn \in ConnType /\ GoneOK(conn, asking[c])
    <3>1. asking[c] = "new" /\ p \in Ports
        BY <1>2 DEF Connect
    <3>2. conn \in ConnType
      <4>1. CASE KindOf[p] = "secure"
          BY <4>1 DEF Idle, ConnType
      <4>2. CASE KindOf[p] # "secure"
          BY <4>2 DEF Idle, ConnType
      <4> QED BY <4>1, <4>2
    <3>3. conn.destroys = 0 /\ ~conn.cleaned /\ conn.socket = "open"
        BY DEF Idle
    <3> HIDE DEF conn
    <3> QED BY <3>1, <3>2, <3>3 DEF GoneOK
  <2>2. Become(c, conn) /\ UNCHANGED <<listening, keys, load, asking>>
      BY <1>2 DEF Connect
  <2>3. CertificateVerifies' /\ UNCHANGED <<authority, noise>>
      BY <2>2 DEF keys, ServersInv, CertificateVerifies
  <2> QED BY <2>1, <2>2, <2>3, ConnKeeps DEF ServersInv, TypeOK
<1>3. CASE HearsV1(c)
  <2>1. CASE Become(c, [conns[c] EXCEPT !.heard = TRUE, !.client = "live"]) /\ OnlyConns
      BY <1>1, <1>3, <2>1, OnlyConnKeeps DEF HearsV1, ConnType, GoneOK
  <2>2. CASE Become(c, [conns[c] EXCEPT !.heard = TRUE, !.socket = "destroyed"]) /\ OnlyConns
      BY <1>1, <1>3, <2>2, OnlyConnKeeps DEF HearsV1, ConnType, GoneOK
  <2> QED BY <1>3, <2>1, <2>2 DEF HearsV1
<1>4. CASE HearsV2(c)
  <2>1. CASE noise # 0
    <3> DEFINE conn == [conns[c] EXCEPT !.heard = TRUE, !.client = "live"]
    <3>1. conn \in ConnType /\ GoneOK(conn, asking[c])
        BY <1>1, <1>4 DEF HearsV2, ConnType, GoneOK
    <3>2. Become(c, conn) /\ UNCHANGED <<listening, load, noise, asking, authority>>
        BY <1>4, <2>1 DEF HearsV2
    <3>3. CertificateVerifies'
        BY <3>2 DEF ServersInv, CertificateVerifies
    <3> QED BY <3>1, <3>2, <3>3, ConnKeeps DEF ServersInv, TypeOK
  <2>2. CASE noise = 0
    <3> DEFINE conn == [conns[c] EXCEPT !.heard = TRUE, !.late = TRUE]
    <3>1. conn \in ConnType /\ GoneOK(conn, asking'[c])
        BY <1>1 DEF ConnType, GoneOK
    <3>2. Become(c, conn) /\ Asks(c) /\ UNCHANGED <<listening, load, noise>>
        BY <1>4, <2>2 DEF HearsV2
    <3> QED BY <3>1, <3>2, AsksKeepsKeys, ConnKeeps
  <2> QED BY <2>1, <2>2
<1>5. CASE GetsClient(c)
  <2> DEFINE conn == [conns[c] EXCEPT !.client = "live"]
  <2>1. conn \in ConnType /\ GoneOK(conn, asking'[c])
      BY <1>1, <1>5 DEF GetsClient, Generated, ConnType, GoneOK
  <2>2. Become(c, conn) /\ Generated(c) /\ UNCHANGED <<listening, load>>
      BY <1>5 DEF GetsClient
  <2> QED BY <2>1, <2>2, GeneratedKeepsKeys, ConnKeeps
<1>6. CASE Timeout(c)
    BY <1>1, <1>6, HandledIsFit, OnlyConnKeeps DEF Timeout
<1>7. CASE Error(c)
  <2> DEFINE conn == [conns[c] EXCEPT !.socket = "destroyed"]
  <2>1. conn \in ConnType /\ GoneOK(conn, asking[c])
      BY <1>1, <1>7 DEF Error, ConnType, GoneOK
  <2>2. Become(c, Handled(conn)) /\ OnlyConns
      BY <1>7 DEF Error
  <2> QED BY <2>1, <2>2, HandledIsFit, OnlyConnKeeps
<1>8. CASE PeerCloses(c)
    BY <1>1, <1>8, OnlyConnKeeps DEF PeerCloses, ConnType, GoneOK
<1>9. CASE CloseEvent(c)
    BY <1>1, <1>9, ClosedIsFit, OnlyConnKeeps DEF CloseEvent, GoneOK
<1>10. CASE Destroyed(c)
    BY <1>1, <1>10, OnlyConnKeeps DEF Destroyed, ConnType, GoneOK
<1>11. CASE Forget(c)
  <2>1. Become(c, Idle) /\ asking' = [asking EXCEPT ![c] = "new"]
        /\ UNCHANGED <<listening, keys, load>>
      BY <1>11 DEF Forget
  <2>2. Idle \in ConnType /\ GoneOK(Idle, asking'[c])
      BY <2>1 DEF Idle, ConnType, GoneOK, ServersInv, TypeOK
  <2>3. CertificateVerifies' /\ UNCHANGED <<authority, noise>>
      BY <2>1 DEF keys, ServersInv, CertificateVerifies
  <2> QED BY <2>1, <2>2, <2>3, ConnKeeps DEF ServersInv, TypeOK
<1> QED BY <1>2, <1>3, <1>4, <1>5, <1>6, <1>7, <1>8, <1>9, <1>10, <1>11 DEF ConnStep

-----------------------------------------------------------------------------
LEMMA NextKeepsServers == ServersInv /\ [Next]_vars => ServersInv'
<1> SUFFICES ASSUME ServersInv, [Next]_vars PROVE ServersInv'
    OBVIOUS
<1>1. CASE UNCHANGED vars
    BY <1>1, KeysStep DEF vars, keys, ServersInv, TypeOK, CertificateVerifies
<1> QED BY <1>1, StartersStep, OpenV2PortStep, StartListenersStep, CheckBackpressureStep,
           LoadChangesStep, ConnSteps DEF Next

LEMMA ServersInvariant == Spec => []ServersInv
BY InitServers, NextKeepsServers, PTL DEF Spec

(* The watched ports always pause and resume together, and from an overload  *)
(* on none takes a connection before the healthy checks it takes, whatever   *)
(* the load does (checkBackpressure, pauseAccepting, resumeAccepting).       *)
THEOREM PortsPauseTogether == Spec => []PauseInv
<1>1. ServersInv => PauseInv
    BY DEF ServersInv, PortsInv, PauseInv
<1> QED BY <1>1, ServersInvariant, PTL

(* However many initializations overlap, the certificate is of the key that  *)
(* the pool gives out (ensureInitialized).                                   *)
THEOREM CertificatesVerify == Spec => []CertificateVerifies
<1>1. ServersInv => CertificateVerifies
    BY DEF ServersInv
<1> QED BY <1>1, ServersInvariant, PTL

(* A client is told to go once, and goes with its socket, except one that    *)
(* came late (cleanup, closeSocket).                                         *)
THEOREM ClientsGoOnce == Spec => []ClientGoesOnce
<1>1. ServersInv => ClientGoesOnce
    BY DEF ServersInv, GoneInv, GoneOK, ClientGoesOnce
<1> QED BY <1>1, ServersInvariant, PTL

-----------------------------------------------------------------------------
(* A refresh that has begun has a height, and a template from the fetch on.  *)
TaskInv ==
    \A r \in Refreshers :
        /\ task[r].step # "idle" => task[r].height \in 0..tip
        /\ task[r].step \notin {"idle", "asked"} => task[r].base \in 0..tip

RedisInv ==
    redis = [info |-> redis.info, templates |-> redis.templates, latest |-> redis.latest]

(* No template was stored that is not published yet. *)
AllPublished == \A r \in Refreshers : task[r].step # "stored"

(* The last load of worker x is of its mining info, and its answer, or what  *)
(* it led to, is the template base. *)
LastLoad(x, base) ==
    IF x.loads = <<>>
    THEN x.source = "database" \/ x.current = base
    ELSE LET answer == x.loads[Len(x.loads)]
         IN  answer.height = x.info /\ (answer.answered => answer.base = base)

(* A worker that got the last message has it, or what it made the worker     *)
(* load, still before it, or agrees with Redis. *)
Heard(w) ==
    ~missed[w] =>
        /\ worker[w].step = "up"
        /\ AllPublished /\ channel[w] = <<>> /\ worker[w].info \in DOMAIN redis.templates
              => LastLoad(worker[w], redis.templates[worker[w].info])

HeardInv == \A w \in Workers : Heard(w)

BroadcastInv == BroadcastTypeOK /\ TaskInv /\ RedisInv /\ HeardInv

-----------------------------------------------------------------------------
Opt(S) == S \cup {None}

(* The types, by part of the system. *)
MasterType ==
    /\ tip \in Heights /\ notices \in 0..tip
    /\ info \in Opt(0..tip)
    /\ task \in [Refreshers -> [step : {"idle", "asked", "fetched", "saved", "told", "stored"},
                                height : Opt(0..tip), base : Opt(0..tip)]]

StoreType ==
    /\ \A map \in {saved, redis.templates} :
          DOMAIN map \subseteq 0..tip /\ \A k \in DOMAIN map : map[k] \in 0..tip
    /\ {redis.info, redis.latest} \subseteq Opt(0..tip)

ChannelType == channel \in [Workers -> Seq(Opt(0..tip))]

WorkersType ==
    /\ worker \in [Workers -> WorkerType]
    /\ \A w \in Workers : worker[w].current # None => worker[w].current \in worker[w].blocks
    /\ missed \in [Workers -> BOOLEAN]

FaultsType == \A f \in Faults : faults[f] \in 0..Budget[f]

LEMMA TypesByPart ==
    BroadcastTypeOK <=> MasterType /\ StoreType /\ ChannelType /\ WorkersType /\ FaultsType
  BY DEF BroadcastTypeOK, MasterType, StoreType, ChannelType, WorkersType, FaultsType, Opt

LEMMA TypesByPartNext ==
    BroadcastTypeOK' <=> MasterType' /\ StoreType' /\ ChannelType' /\ WorkersType' /\ FaultsType'
  BY DEF BroadcastTypeOK, MasterType, StoreType, ChannelType, WorkersType, FaultsType, Opt

LEMMA HeightsGrow ==
    ASSUME MasterType
    PROVE  /\ tip \in Nat /\ MaxTip \in Nat /\ tip <= MaxTip /\ None \notin Nat
           /\ 0..tip \subseteq Heights /\ 0..tip \subseteq Nat
  BY TemplateBroadcastAssumption DEF MasterType, Heights

LEMMA FaultKeepsType ==
    ASSUME FaultsType, NEW f \in Faults, Fault(f)
    PROVE  FaultsType'
  <1> SUFFICES ASSUME NEW g \in Faults PROVE faults'[g] \in 0..Budget'[g]
    BY DEF FaultsType
  <1>1. Budget[f] \in Nat /\ Budget[g] \in Nat
    BY TemplateBroadcastAssumption
  <1>2. faults[f] \in 0..Budget[f] /\ faults[g] \in 0..Budget[g] /\ faults[f] < Budget[f]
    BY DEF FaultsType, Fault
  <1>3. faults'[g] = faults[g] \/ (g = f /\ faults'[g] = faults[f] + 1)
    BY DEF Fault
  <1> QED BY <1>1, <1>2, <1>3

LEMMA BroadcastStart == BroadcastInit => BroadcastInv
  <1> SUFFICES ASSUME BroadcastInit PROVE BroadcastInv
    OBVIOUS
  <1> USE DEF BroadcastInit
  <1>0. 0 \in Heights /\ 0..tip = {0} /\ None \notin Nat /\ \A f \in Faults : Budget[f] \in Nat
    BY TemplateBroadcastAssumption DEF Heights
  <1>1. MasterType /\ FaultsType
    BY <1>0 DEF MasterType, FaultsType, Opt, IdleTask
  <1>2. StoreType
    BY <1>0 DEF StoreType, Opt, NoRedis
  <1>3. ChannelType
    BY DEF ChannelType
  <1>4. WorkersType
    <2>1. FreshWorker \in WorkerType
      BY DEF FreshWorker, WorkerType
    <2>2. FreshWorker.current = None
      BY DEF FreshWorker
    <2> QED BY <2>1, <2>2 DEF WorkersType
  <1>5. TaskInv /\ RedisInv
    BY DEF TaskInv, RedisInv, IdleTask, NoRedis
  <1>6. HeardInv
    BY DEF HeardInv, Heard, FreshWorker, NoRedis
  <1> QED BY <1>1, <1>2, <1>3, <1>4, <1>5, <1>6, TypesByPart DEF BroadcastInv

-----------------------------------------------------------------------------
(* The master's steps that leave workers, messages and stored templates      *)
(* alone, and publish or store nothing.                                      *)
LEMMA WorkersLeftAlone ==
    ASSUME BroadcastInv, UNCHANGED <<channel, worker, redis>>,
           \A w \in Workers : ~missed'[w] => ~missed[w] /\ (AllPublished' => AllPublished)
    PROVE  HeardInv'
  BY DEF BroadcastInv, HeardInv, Heard, LastLoad

(* The chain grows: what was a height is one. *)
LEMMA FindBlockKeeps ==
    ASSUME BroadcastInv, FindBlock
    PROVE  BroadcastInv'
  <1>1. MasterType /\ StoreType /\ ChannelType /\ WorkersType /\ FaultsType /\ TaskInv
    BY TypesByPart DEF BroadcastInv
  <1>2. /\ tip' = tip + 1 /\ tip < MaxTip /\ notices' = notices + 1
        /\ UNCHANGED <<info, task, saved, redis, channel, worker, missed, faults>>
    BY DEF FindBlock
  <1>3. /\ tip \in Nat /\ MaxTip \in Nat /\ 0..tip \subseteq 0..tip' /\ tip' \in Heights
        /\ Opt(0..tip) \subseteq Opt(0..tip')
    BY <1>1, <1>2, HeightsGrow DEF Heights, Opt
  <1>4. MasterType'
    <2>1. notices' \in 0..tip' /\ info' \in Opt(0..tip')
      BY <1>1, <1>2, <1>3 DEF MasterType
    <2>2. task' \in [Refreshers -> [step : {"idle", "asked", "fetched", "saved", "told", "stored"},
                                    height : Opt(0..tip'), base : Opt(0..tip')]]
      BY <1>1, <1>2, <1>3 DEF MasterType
    <2> QED BY <1>3, <2>1, <2>2 DEF MasterType, Opt
  <1>5. StoreType'
    BY <1>1, <1>2, <1>3 DEF StoreType, Opt
  <1>6. ChannelType'
    <2>1. \A w \in Workers : channel[w] \in Seq(Opt(0..tip'))
      BY <1>1, <1>3, SeqMonotonic DEF ChannelType
    <2> QED BY <1>1, <1>2, <2>1 DEF ChannelType, Opt
  <1>7. WorkersType' /\ FaultsType'
    BY <1>1, <1>2 DEF WorkersType, FaultsType, WorkerType, LoadType, Heights
  <1>8. TaskInv' /\ RedisInv'
    BY <1>1, <1>2, <1>3 DEF TaskInv, RedisInv, BroadcastInv
  <1>9. HeardInv'
    BY <1>2, WorkersLeftAlone DEF AllPublished
  <1> QED BY <1>4, <1>5, <1>6, <1>7, <1>8, <1>9, TypesByPartNext DEF BroadcastInv

(* Steps of the master that only change its own variables. *)
LEMMA MasterOnly ==
    ASSUME BroadcastInv, UNCHANGED <<tip, saved, redis, channel, worker, missed>>,
           MasterType', TaskInv', FaultsType', AllPublished' => AllPublished
    PROVE  BroadcastInv'
  <1>1. StoreType' /\ ChannelType' /\ WorkersType'
    BY TypesByPart DEF BroadcastInv, StoreType, ChannelType, WorkersType, Opt
  <1>2. RedisInv'
    BY DEF BroadcastInv, RedisInv
  <1>3. HeardInv'
    BY WorkersLeftAlone
  <1> QED BY <1>1, <1>2, <1>3, TypesByPartNext DEF BroadcastInv

TaskType ==
    [step : {"idle", "asked", "fetched", "saved", "told", "stored"},
     height : Opt(0..tip), base : Opt(0..tip)]

(* One refresh goes on. *)
LEMMA OneTask ==
    ASSUME MasterType, TaskInv, NEW r \in Refreshers, NEW new \in TaskType,
           task' = [task EXCEPT ![r] = new], UNCHANGED tip,
           notices' \in 0..tip, info' \in Opt(0..tip),
           new.step # "idle" => new.height \in 0..tip,
           new.step \notin {"idle", "asked"} => new.base \in 0..tip
    PROVE  MasterType' /\ TaskInv'
  <1>1. task' \in [Refreshers -> TaskType]
    BY DEF MasterType, TaskType
  <1>2. \A q \in Refreshers : task'[q] = IF q = r THEN new ELSE task[q]
    BY DEF MasterType
  <1> QED BY <1>1, <1>2 DEF MasterType, TaskInv, TaskType, Opt

LEMMA AskKeeps ==
    ASSUME BroadcastInv, HearBlock \/ StartRefresh
    PROVE  BroadcastInv'
  <1>1. MasterType /\ FaultsType /\ TaskInv
    BY TypesByPart DEF BroadcastInv
  <1>2. PICK r \in Refreshers, height \in 0..tip :
            /\ task[r].step = "idle" /\ Ask(r, height)
            /\ notices' \in 0..tip /\ info' \in Opt(0..tip)
            /\ UNCHANGED <<tip, saved, redis, channel, worker, missed, faults>>
    <2>1. CASE HearBlock
      <3>1. tip \in 0..tip /\ notices - 1 \in 0..tip
        BY <1>1, <2>1, HeightsGrow DEF HearBlock, MasterType
      <3> QED BY <2>1, <3>1 DEF HearBlock, Refreshers, Opt
    <2>2. CASE StartRefresh
      <3>1. info \in 0..tip
        BY <1>1, <2>2 DEF StartRefresh, MasterType, Opt
      <3> QED BY <1>1, <2>2, <3>1 DEF StartRefresh, Refreshers, MasterType, Opt
    <2> QED BY <2>1, <2>2
  <1>3. PICK new : new = [step |-> "asked", height |-> height, base |-> None]
    OBVIOUS
  <1>4. new \in TaskType /\ new.step = "asked" /\ new.height \in 0..tip
    BY <1>3 DEF TaskType, Opt
  <1>5. task' = [task EXCEPT ![r] = new]
    BY <1>2, <1>3 DEF Ask
  <1>6. MasterType' /\ TaskInv'
    BY <1>1, <1>2, <1>4, <1>5, OneTask
  <1>7. AllPublished' => AllPublished
    BY <1>1, <1>2, <1>4, <1>5 DEF AllPublished, MasterType
  <1> QED BY <1>1, <1>2, <1>6, <1>7, MasterOnly DEF FaultsType

(* A refresh fetches or saves its template, or tells Redis the mining info.  *)
LEMMA OneStep ==
    ASSUME MasterType, TaskInv, NEW r \in Refreshers, NEW step, NEW base \in Opt(0..tip),
           step \in {"fetched", "saved", "told", "stored"}, task[r].step # "idle",
           task[r].step # "asked" => base = task[r].base, base \in 0..tip,
           task' = [task EXCEPT ![r] = [step |-> step, height |-> task[r].height, base |-> base]],
           UNCHANGED <<tip, notices, info>>
    PROVE  MasterType' /\ TaskInv'
  <1>1. PICK new : new = [step |-> step, height |-> task[r].height, base |-> base]
    OBVIOUS
  <1>2. new \in TaskType /\ new.step = step /\ new.height = task[r].height /\ new.base = base
    BY <1>1 DEF MasterType, TaskType
  <1>3. task[r].height \in 0..tip
    BY DEF TaskInv
  <1>4. notices' \in 0..tip /\ info' \in Opt(0..tip)
    BY DEF MasterType
  <1>5. task' = [task EXCEPT ![r] = new]
    BY <1>1
  <1> QED BY <1>2, <1>3, <1>4, <1>5, OneTask

(* Advance in the form of OneStep. *)
LEMMA Advances ==
    ASSUME MasterType, TaskInv, NEW r \in Refreshers, NEW step,
           task[r].step \in {"fetched", "saved", "told"}, Advance(r, step)
    PROVE  /\ task' = [task EXCEPT ![r] = [step |-> step, height |-> task[r].height,
                                           base |-> task[r].base]]
           /\ task[r].base \in 0..tip /\ task[r].base \in Opt(0..tip)
           /\ task[r].height \in 0..tip
  <1>1. task[r].base \in 0..tip /\ task[r].height \in 0..tip
    BY DEF TaskInv
  <1>2. PICK old : old = task[r]
    OBVIOUS
  <1>3. old = [step |-> old.step, height |-> old.height, base |-> old.base]
    BY <1>2 DEF MasterType
  <1>4. [old EXCEPT !.step = step] = [step |-> step, height |-> old.height, base |-> old.base]
    BY <1>3
  <1>5. task' = [task EXCEPT ![r] = [old EXCEPT !.step = step]]
    BY <1>2 DEF Advance
  <1> QED BY <1>1, <1>2, <1>4, <1>5 DEF Opt

LEMMA FetchKeeps ==
    ASSUME BroadcastInv, NEW r \in Refreshers, FetchTemplate(r)
    PROVE  BroadcastInv'
  <1>1. MasterType /\ FaultsType /\ TaskInv
    BY TypesByPart DEF BroadcastInv
  <1>2. /\ task[r].step = "asked"
        /\ task' = [task EXCEPT ![r].step = "fetched", ![r].base = tip]
        /\ UNCHANGED <<tip, notices, info, saved, redis, channel, worker, missed, faults>>
    BY DEF FetchTemplate
  <1>3. tip \in 0..tip
    BY <1>1, HeightsGrow
  <1>4. task' = [task EXCEPT ![r] = [step |-> "fetched", height |-> task[r].height, base |-> tip]]
    <2>1. PICK old : old = task[r]
      OBVIOUS
    <2>2. old = [step |-> old.step, height |-> old.height, base |-> old.base]
      BY <1>1, <2>1 DEF MasterType
    <2>3. [old EXCEPT !.step = "fetched", !.base = tip]
              = [step |-> "fetched", height |-> old.height, base |-> tip]
      <3>1. PICK s, h, b : old = [step |-> s, height |-> h, base |-> b]
        BY <2>2
      <3>2. [old EXCEPT !.step = "fetched", !.base = tip]
                = [step |-> "fetched", height |-> h, base |-> tip]
        <4>1. PICK new : new = [old EXCEPT !.step = "fetched", !.base = tip]
          OBVIOUS
        <4>2. new = [step |-> "fetched", height |-> old.height, base |-> tip]
          BY <2>2, <4>1
        <4> QED BY <3>1, <4>1, <4>2
      <3> QED BY <3>1, <3>2
    <2>4. task' = [task EXCEPT ![r] = [old EXCEPT !.step = "fetched", !.base = tip]]
      BY <1>1, <1>2, <2>1 DEF MasterType
    <2> QED BY <2>1, <2>3, <2>4
  <1>5. MasterType' /\ TaskInv'
    BY <1>1, <1>2, <1>3, <1>4, OneStep DEF Opt
  <1>6. AllPublished' => AllPublished
    BY <1>1, <1>2, <1>4 DEF AllPublished, MasterType
  <1> QED BY <1>1, <1>2, <1>5, <1>6, MasterOnly DEF FaultsType

(* Another template under a height. *)
LEMMA WithType ==
    ASSUME NEW map, NEW S, DOMAIN map \subseteq S, \A k \in DOMAIN map : map[k] \in S,
           NEW key \in S, NEW base \in S
    PROVE  /\ DOMAIN With(map, key, base) \subseteq S
           /\ \A k \in DOMAIN With(map, key, base) : With(map, key, base)[k] \in S
  BY DEF With

LEMMA SaveKeeps ==
    ASSUME BroadcastInv, NEW r \in Refreshers, SaveTemplate(r)
    PROVE  BroadcastInv'
  <1>1. MasterType /\ StoreType /\ ChannelType /\ WorkersType /\ FaultsType /\ TaskInv
    BY TypesByPart DEF BroadcastInv
  <1>2. /\ task[r].step = "fetched" /\ Advance(r, "saved")
        /\ saved' \in {saved, With(saved, task[r].height, task[r].base)}
        /\ UNCHANGED <<tip, notices, info, redis, channel, worker, missed, faults>>
    BY DEF SaveTemplate
  <1>3. /\ task' = [task EXCEPT ![r] = [step |-> "saved", height |-> task[r].height,
                                        base |-> task[r].base]]
        /\ task[r].base \in 0..tip /\ task[r].base \in Opt(0..tip) /\ task[r].height \in 0..tip
    BY <1>1, <1>2, Advances
  <1>4. MasterType' /\ TaskInv'
    BY <1>1, <1>2, <1>3, OneStep
  <1>5. AllPublished' => AllPublished
    BY <1>1, <1>2, <1>3 DEF AllPublished, MasterType
  <1>6. DOMAIN saved' \subseteq 0..tip /\ \A k \in DOMAIN saved' : saved'[k] \in 0..tip
    BY <1>1, <1>2, <1>3, WithType DEF StoreType
  <1>7. StoreType' /\ ChannelType' /\ WorkersType' /\ FaultsType'
    BY <1>1, <1>2, <1>6 DEF StoreType, ChannelType, WorkersType, FaultsType, Opt
  <1>8. RedisInv' /\ HeardInv'
    BY <1>2, <1>5, WorkersLeftAlone DEF BroadcastInv, RedisInv
  <1> QED BY <1>4, <1>7, <1>8, TypesByPartNext DEF BroadcastInv

(* What Redis holds of the last refresh. *)
LEMMA RedisFields ==
    ASSUME RedisInv, NEW i, NEW t, NEW l
    PROVE  /\ [redis EXCEPT !.info = i]
                  = [info |-> i, templates |-> redis.templates, latest |-> redis.latest]
           /\ [redis EXCEPT !.templates = t, !.latest = l]
                  = [info |-> redis.info, templates |-> t, latest |-> l]
  <1>1. PICK n, m, k : redis = [info |-> n, templates |-> m, latest |-> k]
    BY DEF RedisInv
  <1>2. [redis EXCEPT !.info = i] = [info |-> i, templates |-> m, latest |-> k]
    BY ONLY <1>1
  <1>3. [redis EXCEPT !.templates = t, !.latest = l] = [info |-> n, templates |-> t, latest |-> l]
    <2>1. PICK new : new = [redis EXCEPT !.templates = t, !.latest = l]
      OBVIOUS
    <2>2. new = [info |-> redis.info, templates |-> t, latest |-> l]
      BY <2>1 DEF RedisInv
    <2> QED BY <1>1, <2>1, <2>2
  <1> QED BY <1>1, <1>2, <1>3

LEMMA StoreInfoKeeps ==
    ASSUME BroadcastInv, NEW r \in Refreshers, StoreInfo(r)
    PROVE  BroadcastInv'
  <1>1. MasterType /\ StoreType /\ ChannelType /\ WorkersType /\ FaultsType /\ TaskInv /\ RedisInv
    BY TypesByPart DEF BroadcastInv
  <1>2. /\ task[r].step = "saved" /\ Advance(r, "told")
        /\ redis' = [redis EXCEPT !.info = info]
        /\ UNCHANGED <<tip, notices, info, saved, channel, worker, missed, faults>>
    BY DEF StoreInfo
  <1>3. /\ task' = [task EXCEPT ![r] = [step |-> "told", height |-> task[r].height,
                                        base |-> task[r].base]]
        /\ task[r].base \in 0..tip /\ task[r].base \in Opt(0..tip) /\ task[r].height \in 0..tip
    BY <1>1, <1>2, Advances
  <1>4. MasterType' /\ TaskInv'
    BY <1>1, <1>2, <1>3, OneStep
  <1>5. AllPublished' => AllPublished
    BY <1>1, <1>2, <1>3 DEF AllPublished, MasterType
  <1>6. redis' = [info |-> info, templates |-> redis.templates, latest |-> redis.latest]
    BY <1>1, <1>2, RedisFields
  <1>7. redis'.info = info /\ redis'.templates = redis.templates /\ redis'.latest = redis.latest
    BY <1>6
  <1>8. RedisInv'
    BY <1>6, <1>7 DEF RedisInv
  <1>9. StoreType' /\ ChannelType' /\ WorkersType' /\ FaultsType'
    BY <1>1, <1>2, <1>7 DEF MasterType, StoreType, ChannelType, WorkersType, FaultsType, Opt
  <1>10. HeardInv'
    BY <1>2, <1>5, <1>7 DEF BroadcastInv, HeardInv, Heard, LastLoad
  <1> QED BY <1>4, <1>8, <1>9, <1>10, TypesByPartNext DEF BroadcastInv

(* A template is stored: until it is published nothing is asked of workers.  *)
LEMMA StoreTemplateKeeps ==
    ASSUME BroadcastInv, NEW r \in Refreshers, StoreTemplate(r)
    PROVE  BroadcastInv'
  <1>1. MasterType /\ StoreType /\ ChannelType /\ WorkersType /\ FaultsType /\ TaskInv /\ RedisInv
    BY TypesByPart DEF BroadcastInv
  <1>2. /\ task[r].step = "told" /\ info # None /\ Advance(r, "stored")
        /\ redis' = [redis EXCEPT !.templates = With(@, info, task[r].base),
                                  !.latest = task[r].base]
        /\ UNCHANGED <<tip, notices, info, saved, channel, worker, missed, faults>>
    BY DEF StoreTemplate
  <1>3. /\ task' = [task EXCEPT ![r] = [step |-> "stored", height |-> task[r].height,
                                        base |-> task[r].base]]
        /\ task[r].base \in 0..tip /\ task[r].base \in Opt(0..tip) /\ task[r].height \in 0..tip
    BY <1>1, <1>2, Advances
  <1>4. MasterType' /\ TaskInv'
    BY <1>1, <1>2, <1>3, OneStep
  <1>5. ~AllPublished'
    BY <1>1, <1>3 DEF AllPublished, MasterType
  <1>6. PICK t : t = With(redis.templates, info, task[r].base)
    OBVIOUS
  <1>7. DOMAIN t \subseteq 0..tip /\ \A k \in DOMAIN t : t[k] \in 0..tip
    <2>1. info \in 0..tip
      BY <1>1, <1>2 DEF MasterType, Opt
    <2> QED BY <1>1, <1>3, <1>6, <2>1, WithType DEF StoreType
  <1>8. redis' = [info |-> redis.info, templates |-> t, latest |-> task[r].base]
    <2>1. redis' = [redis EXCEPT !.templates = t, !.latest = task[r].base]
      BY <1>2, <1>6
    <2> QED BY <1>1, <2>1, RedisFields
  <1>9. redis'.info = redis.info /\ redis'.templates = t /\ redis'.latest = task[r].base
    BY <1>8
  <1>10. RedisInv'
    BY <1>8, <1>9 DEF RedisInv
  <1>11. StoreType' /\ ChannelType' /\ WorkersType' /\ FaultsType'
    BY <1>1, <1>2, <1>3, <1>7, <1>9 DEF StoreType, ChannelType, WorkersType, FaultsType, Opt
  <1>12. HeardInv'
    BY <1>2, <1>5 DEF BroadcastInv, HeardInv, Heard
  <1> QED BY <1>4, <1>10, <1>11, <1>12, TypesByPartNext DEF BroadcastInv

(* A message is published: every worker that is up has it before it. *)
LEMMA PublishKeeps ==
    ASSUME BroadcastInv, NEW r \in Refreshers, Publish(r)
    PROVE  BroadcastInv'
  <1>1. MasterType /\ StoreType /\ ChannelType /\ WorkersType /\ FaultsType /\ TaskInv
    BY TypesByPart DEF BroadcastInv
  <1>2. /\ task' = [task EXCEPT ![r] = IdleTask]
        /\ channel' = [w \in Workers |-> IF worker[w].step = "up"
                                         THEN Append(channel[w], info) ELSE channel[w]]
        /\ missed' = [w \in Workers |-> worker[w].step # "up"]
        /\ UNCHANGED <<tip, notices, info, saved, redis, worker, faults>>
    BY DEF Publish
  <1>3. MasterType' /\ TaskInv'
    <2>1. IdleTask \in TaskType /\ IdleTask.step = "idle"
      BY DEF IdleTask, TaskType, Opt
    <2>2. notices' \in 0..tip /\ info' \in Opt(0..tip)
      BY <1>1, <1>2 DEF MasterType
    <2> QED BY <1>1, <1>2, <2>1, <2>2, OneTask
  <1>4. ASSUME NEW w \in Workers
        PROVE  /\ channel'[w] \in Seq(Opt(0..tip))
               /\ worker[w].step = "up" => channel'[w] # <<>>
    <2>1. channel[w] \in Seq(Opt(0..tip)) /\ info \in Opt(0..tip)
      BY <1>1 DEF ChannelType, MasterType
    <2>2. Append(channel[w], info) \in Seq(Opt(0..tip)) /\ Append(channel[w], info) # <<>>
      BY <2>1, AppendProperties
    <2> QED BY <1>2, <2>1, <2>2
  <1>5. ChannelType'
    BY <1>2, <1>4 DEF ChannelType, Opt
  <1>6. StoreType' /\ WorkersType' /\ FaultsType' /\ RedisInv'
    BY <1>1, <1>2 DEF StoreType, WorkersType, FaultsType, Opt, BroadcastInv, RedisInv
  <1>7. HeardInv'
    BY <1>2, <1>4 DEF HeardInv, Heard
  <1> QED BY <1>3, <1>5, <1>6, <1>7, TypesByPartNext DEF BroadcastInv

(* Notifications that are lost, or whose mining info fails. *)
LEMMA NoticesKeep ==
    ASSUME BroadcastInv, LoseNotice \/ MiningInfoFails
    PROVE  BroadcastInv'
  <1>1. MasterType /\ FaultsType /\ TaskInv
    BY TypesByPart DEF BroadcastInv
  <1>2. /\ notices > 0 /\ notices' = notices - 1 /\ info' \in Opt(0..tip)
        /\ UNCHANGED <<tip, task, saved, redis, channel, worker, missed>>
    BY <1>1 DEF LoseNotice, MiningInfoFails, MasterType, Opt
  <1>3. notices' \in 0..tip
    BY <1>1, <1>2, HeightsGrow DEF MasterType
  <1>4. MasterType' /\ TaskInv' /\ AllPublished' = AllPublished
    BY <1>1, <1>2, <1>3 DEF MasterType, TaskInv, AllPublished, Opt
  <1>5. FaultsType'
    BY <1>1, FaultKeepsType DEF LoseNotice, MiningInfoFails, Faults
  <1> QED BY <1>2, <1>4, <1>5, MasterOnly

LEMMA EmptyMasterTypes ==
    ASSUME MasterType, EmptyMaster, UNCHANGED tip
    PROVE  MasterType' /\ TaskInv'
  <1>1. tip \in 0..tip /\ 0 \in 0..tip
    BY HeightsGrow
  <1>2. IdleTask \in TaskType /\ IdleTask.step = "idle"
    BY DEF IdleTask, TaskType, Opt
  <1>3. task' \in [Refreshers -> TaskType] /\ \A r \in Refreshers : task'[r].step = "idle"
    BY <1>2 DEF EmptyMaster
  <1> QED BY <1>1, <1>3 DEF EmptyMaster, MasterType, TaskInv, TaskType, Opt

LEMMA RebootKeeps ==
    ASSUME BroadcastInv, RestartMaster \/ \E r \in Refreshers : CrashMaster(r)
    PROVE  BroadcastInv'
  <1>1. MasterType /\ StoreType /\ ChannelType /\ WorkersType /\ FaultsType
    BY TypesByPart DEF BroadcastInv
  <1>2. Reboot /\ UNCHANGED <<tip, saved, redis, channel, worker>>
    BY DEF RestartMaster, CrashMaster
  <1>3. FaultsType'
    BY <1>1, FaultKeepsType DEF RestartMaster, CrashMaster, Faults, FaultsType
  <1>4. MasterType' /\ TaskInv'
    BY <1>1, <1>2, EmptyMasterTypes DEF Reboot
  <1>5. /\ missed' \in [Workers -> BOOLEAN]
        /\ \A w \in Workers : ~missed'[w] => ~missed[w] /\ AllPublished
    BY <1>1, <1>2 DEF Reboot, WorkersType, AllPublished
  <1>6. StoreType' /\ ChannelType' /\ WorkersType'
    BY <1>1, <1>2, <1>5 DEF StoreType, ChannelType, WorkersType, Opt
  <1>7. RedisInv' /\ HeardInv'
    BY <1>2, <1>5, WorkersLeftAlone DEF BroadcastInv, RedisInv
  <1> QED BY <1>3, <1>4, <1>6, <1>7, TypesByPartNext DEF BroadcastInv

LEMMA DeleteKeeps ==
    ASSUME BroadcastInv, DeleteOldBlocks
    PROVE  BroadcastInv'
  <1>1. MasterType /\ StoreType /\ ChannelType /\ WorkersType /\ FaultsType /\ TaskInv
    BY TypesByPart DEF BroadcastInv
  <1>2. PICK k \in DOMAIN saved : saved' = [j \in {k} |-> saved[j]]
    BY DEF DeleteOldBlocks
  <1>3. UNCHANGED <<tip, notices, info, task, redis, channel, worker, missed, faults>>
    BY DEF DeleteOldBlocks
  <1>4. DOMAIN saved' \subseteq 0..tip /\ \A j \in DOMAIN saved' : saved'[j] \in 0..tip
    BY <1>1, <1>2 DEF StoreType
  <1>5. StoreType' /\ MasterType' /\ ChannelType' /\ WorkersType' /\ FaultsType' /\ TaskInv'
    BY <1>1, <1>3, <1>4
    DEF StoreType, MasterType, ChannelType, WorkersType, FaultsType, TaskInv, Opt
  <1>6. RedisInv' /\ HeardInv'
    BY <1>3, WorkersLeftAlone DEF BroadcastInv, RedisInv, AllPublished
  <1> QED BY <1>5, <1>6, TypesByPartNext DEF BroadcastInv

-----------------------------------------------------------------------------
(* The workers. *)
LEMMA WorkerRecord ==
    ASSUME NEW x \in WorkerType
    PROVE  x = [step |-> x.step, info |-> x.info, loads |-> x.loads, db |-> x.db, last |-> x.last,
                blocks |-> x.blocks, current |-> x.current, source |-> x.source]
  BY DEF WorkerType

(* What is on its way to a worker, and whether it missed something, is no    *)
(* other worker's affair. *)
OthersAlone(w) ==
    /\ channel' \in [Workers -> Seq(Opt(0..tip))]
    /\ missed' \in [Workers -> BOOLEAN]
    /\ \A v \in Workers \ {w} : channel'[v] = channel[v] /\ missed'[v] = missed[v]

LEMMA OneWorker ==
    ASSUME BroadcastInv, NEW w \in Workers, NEW new \in WorkerType,
           new.current # None => new.current \in new.blocks,
           Change(w, new), OthersAlone(w), Heard(w)', FaultsType',
           UNCHANGED <<tip, notices, info, task, saved, redis>>
    PROVE  BroadcastInv'
  <1>1. MasterType /\ StoreType /\ ChannelType /\ WorkersType /\ TaskInv /\ HeardInv
    BY TypesByPart DEF BroadcastInv
  <1>2. /\ worker' \in [Workers -> WorkerType]
        /\ worker'[w] = new /\ \A v \in Workers \ {w} : worker'[v] = worker[v]
    BY <1>1 DEF Change, WorkersType
  <1>3. WorkersType'
    <2>1. \A v \in Workers : worker'[v].current # None => worker'[v].current \in worker'[v].blocks
      BY <1>1, <1>2 DEF WorkersType
    <2> QED BY <1>2, <2>1 DEF WorkersType, OthersAlone, WorkerType, LoadType, Heights
  <1>4. MasterType' /\ StoreType' /\ ChannelType' /\ TaskInv' /\ RedisInv'
    BY <1>1
    DEF MasterType, StoreType, ChannelType, TaskInv, RedisInv, BroadcastInv, Opt, OthersAlone
  <1>5. HeardInv'
    <2> SUFFICES ASSUME NEW v \in Workers \ {w} PROVE Heard(v)'
      BY DEF HeardInv
    <2>1. /\ worker'[v] = worker[v] /\ channel'[v] = channel[v] /\ missed'[v] = missed[v]
          /\ redis' = redis /\ AllPublished' = AllPublished /\ Heard(v)
      BY <1>1, <1>2 DEF OthersAlone, AllPublished, HeardInv
    <2> QED BY ONLY <2>1 DEF Heard
  <1> QED BY <1>3, <1>4, <1>5, TypesByPartNext DEF BroadcastInv

(* A worker that changes by itself. *)
LEMMA AloneKeeps ==
    ASSUME BroadcastInv, NEW w \in Workers, UNCHANGED <<channel, missed>>
    PROVE  OthersAlone(w)
  BY TypesByPart DEF BroadcastInv, OthersAlone, ChannelType, WorkersType, Opt

LEMMA DownType == Down \in WorkerType /\ Down.current = None
  <1>1. PICK x : x = Down
    OBVIOUS
  <1>2. x = [step |-> "down", info |-> None, loads |-> <<>>, db |-> {}, last |-> None,
             blocks |-> {}, current |-> None, source |-> None]
    BY <1>1 DEF Down, FreshWorker
  <1>3. x \in WorkerType /\ x.current = None
    BY <1>2 DEF WorkerType
  <1> QED BY <1>1, <1>3

LEMMA DeadIsClean ==
    ASSUME BroadcastInv, NEW w \in Workers, Die(w), FaultsType',
           UNCHANGED <<tip, notices, info, task, saved, redis>>
    PROVE  BroadcastInv'
  <1>1. ChannelType /\ WorkersType
    BY TypesByPart DEF BroadcastInv
  <1>2. Down \in WorkerType /\ Down.current = None
    BY DownType
  <1>3. <<>> \in Seq(Opt(0..tip))
    OBVIOUS
  <1>4. OthersAlone(w) /\ missed'[w]
    BY <1>1, <1>3 DEF Die, OthersAlone, ChannelType, WorkersType
  <1>5. Heard(w)'
    BY <1>4 DEF Heard
  <1>6. Change(w, Down)
    BY DEF Die
  <1> QED BY <1>2, <1>4, <1>5, <1>6, OneWorker

LEMMA RestartKeeps ==
    ASSUME BroadcastInv, NEW w \in Workers, RestartWorker(w)
    PROVE  BroadcastInv'
  <1>1. FaultsType
    BY TypesByPart DEF BroadcastInv
  <1>2. FaultsType'
    BY <1>1, FaultKeepsType DEF RestartWorker, Faults
  <1> QED BY <1>2, DeadIsClean DEF RestartWorker

(* A worker that is not up missed something. *)
LEMMA UpOrMissed ==
    ASSUME BroadcastInv, NEW w \in Workers, worker[w].step # "up"
    PROVE  missed[w]
  BY DEF BroadcastInv, HeardInv, Heard

LEMMA HeightsInfo ==
    ASSUME BroadcastInv, NEW h \in Opt(0..tip)
    PROVE  h \in Heights \cup {None} /\ (h # None => h \in Heights)
  <1>1. MasterType
    BY TypesByPart DEF BroadcastInv
  <1> QED BY <1>1, HeightsGrow DEF Opt

LEMMA AskedType ==
    ASSUME NEW h \in Heights
    PROVE  Asked(h) \in LoadType /\ Asked(h).height = h /\ ~Asked(h).answered
  BY DEF Asked, LoadType

LEMMA StartKeeps ==
    ASSUME BroadcastInv, NEW w \in Workers, StartWorker(w)
    PROVE  BroadcastInv'
  <1>1. StoreType /\ FaultsType
    BY TypesByPart DEF BroadcastInv
  <1>2. PICK first : first = IF redis.info = None THEN <<>> ELSE <<Asked(redis.info)>>
    OBVIOUS
  <1>3. redis.info \in Heights \cup {None} /\ first \in Seq(LoadType)
    <2>1. redis.info \in Opt(0..tip)
      BY <1>1 DEF StoreType
    <2>2. redis.info # None => Asked(redis.info) \in LoadType
      BY <2>1, HeightsInfo, AskedType
    <2> QED BY <1>2, <2>1, <2>2, HeightsInfo
  <1>4. PICK new :
            new = [FreshWorker EXCEPT !.step = "loading", !.info = redis.info, !.loads = first]
    OBVIOUS
  <1>5. new = [step |-> "loading", info |-> redis.info, loads |-> first, db |-> {}, last |-> None,
               blocks |-> {}, current |-> None, source |-> None]
    BY <1>4 DEF FreshWorker
  <1>6. new \in WorkerType /\ new.current = None
    BY <1>3, <1>5 DEF WorkerType
  <1>7. /\ Change(w, new) /\ UNCHANGED <<channel, missed>> /\ missed[w]
        /\ UNCHANGED <<tip, notices, info, task, saved, redis, faults>>
    BY <1>2, <1>4, UpOrMissed DEF StartWorker
  <1>8. Heard(w)' /\ FaultsType'
    BY <1>1, <1>7 DEF Heard, FaultsType
  <1> QED BY <1>6, <1>7, <1>8, AloneKeeps, OneWorker

LEMMA SubscribeKeeps ==
    ASSUME BroadcastInv, NEW w \in Workers, Subscribe(w)
    PROVE  BroadcastInv'
  <1>1. WorkersType /\ FaultsType
    BY TypesByPart DEF BroadcastInv
  <1>2. PICK x \in WorkerType : x = worker[w]
    BY <1>1 DEF WorkersType
  <1>3. PICK new : new = [x EXCEPT !.step = "up"]
    OBVIOUS
  <1>4. new = [step |-> "up", info |-> x.info, loads |-> x.loads, db |-> x.db, last |-> x.last,
               blocks |-> x.blocks, current |-> x.current, source |-> x.source]
    BY <1>3, WorkerRecord
  <1>5. new \in WorkerType /\ (new.current # None => new.current \in new.blocks)
    BY <1>1, <1>2, <1>4 DEF WorkerType, WorkersType
  <1>6. /\ Change(w, new) /\ UNCHANGED <<channel, missed>> /\ missed[w]
        /\ UNCHANGED <<tip, notices, info, task, saved, redis, faults>>
    BY <1>2, <1>3, UpOrMissed DEF Subscribe
  <1>7. Heard(w)' /\ FaultsType'
    BY <1>1, <1>6 DEF Heard, FaultsType
  <1> QED BY <1>5, <1>6, <1>7, AloneKeeps, OneWorker

-----------------------------------------------------------------------------
(* What a worker has waiting. *)
LEMMA LoadsOf ==
    ASSUME BroadcastInv, NEW w \in Workers
    PROVE  /\ worker[w] \in WorkerType /\ worker[w].loads \in Seq(LoadType)
           /\ worker[w].current # None => worker[w].current \in worker[w].blocks
           /\ channel[w] \in Seq(Opt(0..tip))
           /\ Heard(w)
           /\ StoreType /\ FaultsType
  BY TypesByPart DEF BroadcastInv, HeardInv, WorkersType, WorkerType, ChannelType

LEMMA AppendedLast ==
    ASSUME NEW S, NEW s \in Seq(S), NEW e \in S
    PROVE  /\ s \o <<e>> \in Seq(S) /\ s \o <<e>> # <<>>
           /\ (s \o <<e>>)[Len(s \o <<e>>)] = e
  OBVIOUS

LEMMA TailLast ==
    ASSUME NEW S, NEW s \in Seq(S), s # <<>>
    PROVE  /\ Tail(s) \in Seq(S) /\ Head(s) \in S /\ Head(s) = s[1]
           /\ Tail(s) = <<>> => Len(s) = 1
           /\ Tail(s) # <<>> => Tail(s)[Len(Tail(s))] = s[Len(s)]
  <1>1. /\ Head(s) \in S /\ Head(s) = s[1] /\ Tail(s) \in Seq(S)
        /\ Len(Tail(s)) = Len(s) - 1 /\ \A i \in 1..Len(Tail(s)) : Tail(s)[i] = s[i + 1]
    BY HeadTailProperties
  <1>2. PICK t, n : t = Tail(s) /\ n = Len(s)
    OBVIOUS
  <1>3. /\ n \in Nat /\ n # 0 /\ t \in Seq(S) /\ Len(t) = n - 1
        /\ \A i \in 1..(n - 1) : t[i] = s[i + 1]
    BY <1>1, <1>2, LenProperties, EmptySeq
  <1>4. t = <<>> => n = 1
    BY <1>3
  <1>5. t # <<>> => n - 1 # 0
    BY <1>3, EmptySeq
  <1>6. t # <<>> => t[n - 1] = s[n]
    BY <1>3, <1>5
  <1> QED BY <1>1, <1>2, <1>3, <1>4, <1>6

(* The last message asks for a template: its load is the last. *)
LEMMA DeliverKeeps ==
    ASSUME BroadcastInv, NEW w \in Workers, Deliver(w)
    PROVE  BroadcastInv'
  <1>1. PICK x \in WorkerType : x = worker[w]
    BY LoadsOf
  <1>2. PICK height : height = Head(channel[w])
    OBVIOUS
  <1>3. PICK loads : loads = x.loads \o LoadsFor(w, height)
    OBVIOUS
  <1>4. PICK new : new = [x EXCEPT !.info = height, !.loads = loads]
    OBVIOUS
  <1>5. /\ x.step = "up" /\ channel[w] # <<>>
        /\ channel' = [channel EXCEPT ![w] = Tail(@)]
        /\ Change(w, new)
        /\ UNCHANGED <<tip, notices, info, task, saved, redis, missed, faults>>
    BY <1>1, <1>2, <1>3, <1>4 DEF Deliver
  <1>6. height \in Opt(0..tip) /\ Tail(channel[w]) \in Seq(Opt(0..tip))
    <2>1. channel[w] \in Seq(Opt(0..tip))
      BY LoadsOf
    <2> QED BY <1>2, <1>5, <2>1, TailLast
  <1>7. /\ loads \in Seq(LoadType)
        /\ height # None => /\ loads # <<>>
                            /\ loads[Len(loads)].height = height
                            /\ ~loads[Len(loads)].answered
    <2>1. x.loads \in Seq(LoadType)
      BY DEF WorkerType
    <2>2. CASE height = None
      BY <1>3, <2>1, <2>2, ConcatEmptySeq DEF LoadsFor
    <2>3. CASE height # None
      <3>1. Asked(height) \in LoadType /\ Asked(height).height = height /\ ~Asked(height).answered
        BY <1>6, <2>3, HeightsInfo, AskedType
      <3>2. PICK e \in LoadType : e = Asked(height)
        BY <3>1
      <3>3. loads = x.loads \o <<e>>
        BY <1>3, <2>3, <3>2 DEF LoadsFor
      <3>4. loads \in Seq(LoadType) /\ loads # <<>> /\ loads[Len(loads)] = e
        BY <2>1, <3>3, AppendedLast
      <3> QED BY <3>1, <3>2, <3>4
    <2> QED BY <2>2, <2>3
  <1>8. new = [step |-> x.step, info |-> height, loads |-> loads, db |-> x.db, last |-> x.last,
               blocks |-> x.blocks, current |-> x.current, source |-> x.source]
    <2>1. x = [step |-> x.step, info |-> x.info, loads |-> x.loads, db |-> x.db, last |-> x.last,
               blocks |-> x.blocks, current |-> x.current, source |-> x.source]
      BY WorkerRecord
    <2> QED BY ONLY <1>4, <2>1
  <1>9. new \in WorkerType /\ (new.current # None => new.current \in new.blocks)
    <2>1. height \in Heights \cup {None}
      BY <1>6, HeightsInfo
    <2>2. x.current # None => x.current \in x.blocks
      BY <1>1, LoadsOf
    <2> QED BY <1>7, <1>8, <2>1, <2>2 DEF WorkerType
  <1>10. OthersAlone(w)
    BY <1>5, <1>6, TypesByPart DEF BroadcastInv, OthersAlone, ChannelType, WorkersType, Opt
  <1>11. worker'[w] = new
    BY <1>1, <1>5, TypesByPart DEF Change, BroadcastInv, WorkersType
  <1>12. Heard(w)'
    <2>1. new.step = "up" /\ new.info = height /\ new.loads = loads
      BY <1>5, <1>8
    <2>2. height \in DOMAIN redis.templates => height # None
      <3>1. DOMAIN redis.templates \subseteq 0..tip /\ None \notin 0..tip
        BY LoadsOf, TypesByPart, HeightsGrow DEF StoreType, BroadcastInv
      <3> QED BY <3>1
    <2>3. height # None => LastLoad(new, redis.templates[height])
      BY <1>7, <2>1 DEF LastLoad
    <2> QED BY <1>5, <1>11, <2>1, <2>2, <2>3 DEF Heard
  <1>13. FaultsType'
    BY <1>5, LoadsOf DEF FaultsType
  <1> QED BY <1>5, <1>9, <1>10, <1>12, <1>13, OneWorker

(* What a map has under a height. *)
LEMMA FoundType ==
    ASSUME BroadcastInv, NEW height \in Heights
    PROVE  /\ Found(redis.templates, height) \in Heights \cup {None}
           /\ Found(saved, height) \in Heights \cup {None}
           /\ height \in DOMAIN redis.templates =>
                 Found(redis.templates, height) = redis.templates[height]
  <1>1. StoreType /\ MasterType
    BY TypesByPart DEF BroadcastInv
  <1>2. 0..tip \subseteq Heights
    BY <1>1, HeightsGrow
  <1> QED BY <1>1, <1>2 DEF StoreType, Found

LEMMA RedisAnswersKeeps ==
    ASSUME BroadcastInv, NEW w \in Workers, RedisAnswers(w)
    PROVE  BroadcastInv'
  <1>1. PICK x \in WorkerType : x = worker[w]
    BY LoadsOf
  <1>2. PICK i \in DOMAIN x.loads :
            /\ Change(w, [x EXCEPT !.loads[i] =
                             [height |-> x.loads[i].height, answered |-> TRUE,
                              base |-> Found(redis.templates, x.loads[i].height)]])
            /\ UNCHANGED <<tip, notices, info, task, saved, redis, channel, missed, faults>>
    BY <1>1 DEF RedisAnswers
  <1>3. PICK answer : answer = [height |-> x.loads[i].height, answered |-> TRUE,
                            base |-> Found(redis.templates, x.loads[i].height)]
    OBVIOUS
  <1>4. PICK loads : loads = [x.loads EXCEPT ![i] = answer]
    OBVIOUS
  <1>5. PICK new : new = [x EXCEPT !.loads = loads]
    OBVIOUS
  <1>6. Change(w, new)
    BY <1>2, <1>3, <1>4, <1>5
  <1>7. x.loads \in Seq(LoadType) /\ i \in 1..Len(x.loads) /\ x.loads[i] \in LoadType
    BY <1>2, ElementOfSeq, LenProperties DEF WorkerType
  <1>8. answer \in LoadType
    BY <1>3, <1>7, FoundType DEF LoadType
  <1>9. /\ loads \in Seq(LoadType) /\ Len(loads) = Len(x.loads)
        /\ \A j \in 1..Len(x.loads) : loads[j] = IF j = i THEN answer ELSE x.loads[j]
    BY <1>4, <1>7, <1>8, ExceptSeq
  <1>10. new = [step |-> x.step, info |-> x.info, loads |-> loads, db |-> x.db, last |-> x.last,
                blocks |-> x.blocks, current |-> x.current, source |-> x.source]
    BY <1>5, WorkerRecord
  <1>11. new \in WorkerType /\ (new.current # None => new.current \in new.blocks)
    <2>1. x.current # None => x.current \in x.blocks
      BY <1>1, LoadsOf
    <2> QED BY <1>9, <1>10, <2>1 DEF WorkerType
  <1>12. worker'[w] = new
    BY <1>1, <1>6, TypesByPart DEF Change, BroadcastInv, WorkersType
  <1>13. Heard(w)'
    <2> SUFFICES ASSUME ~missed[w], AllPublished, channel[w] = <<>>,
                        x.info \in DOMAIN redis.templates
                 PROVE  new.step = "up" /\ LastLoad(new, redis.templates[x.info])
      <3>1. new.step = x.step /\ new.info = x.info
        BY <1>10
      <3>2. ~missed[w] => x.step = "up"
        BY <1>1, LoadsOf DEF Heard
      <3> QED BY <1>2, <1>12, <3>1, <3>2 DEF Heard, AllPublished
    <2>1. x.step = "up" /\ LastLoad(x, redis.templates[x.info])
      BY <1>1, LoadsOf DEF Heard
    <2>2. PICK n : n = Len(x.loads)
      OBVIOUS
    <2>3. n \in 1..Len(x.loads) /\ x.loads # <<>> /\ loads # <<>>
      BY <1>7, <1>9, <2>2, EmptySeq, LenProperties
    <2>4. x.loads[n].height = x.info
      BY <2>1, <2>2, <2>3 DEF LastLoad
    <2>5. loads[n].height = x.info
      BY <1>3, <1>9, <2>3, <2>4
    <2>6. loads[n].answered => loads[n].base = redis.templates[x.info]
      <3>1. CASE n = i
        <4>1. loads[n] = answer /\ answer.base = Found(redis.templates, x.info)
          BY <1>3, <1>9, <2>3, <2>4, <3>1
        <4>2. x.info \in Heights
          <5>1. x.loads[i].height \in Heights
            BY <1>7 DEF LoadType
          <5> QED BY <2>4, <3>1, <5>1
        <4> QED BY <4>1, <4>2, FoundType
      <3>2. CASE n # i
        BY <1>9, <2>1, <2>2, <2>3, <3>2 DEF LastLoad
      <3> QED BY <3>1, <3>2
    <2>7. new.loads = loads /\ new.step = x.step /\ new.info = x.info
      BY <1>10
    <2> QED BY <1>9, <2>1, <2>2, <2>3, <2>5, <2>6, <2>7 DEF LastLoad
  <1>14. FaultsType' /\ OthersAlone(w)
    BY <1>2, LoadsOf, AloneKeeps DEF FaultsType
  <1> QED BY <1>2, <1>6, <1>11, <1>13, <1>14, OneWorker

(* Redis' templates build on blocks the node has. *)
LEMMA TemplateKnown ==
    ASSUME BroadcastInv, NEW height \in DOMAIN redis.templates
    PROVE  redis.templates[height] # None
  <1>1. StoreType /\ MasterType
    BY TypesByPart DEF BroadcastInv
  <1> QED BY <1>1, HeightsGrow DEF StoreType

(* A worker that changes by itself stays in the invariant if what it heard   *)
(* still holds of it. *)
LEMMA SelfKeeps ==
    ASSUME BroadcastInv, NEW w \in Workers, NEW x \in WorkerType, x = worker[w],
           NEW new \in WorkerType, new.current # None => new.current \in new.blocks,
           Change(w, new), new.step = x.step, new.info = x.info,
           UNCHANGED <<tip, notices, info, task, saved, redis, channel, missed, faults>>,
           \A base : base # None /\ LastLoad(x, base) => LastLoad(new, base)
    PROVE  BroadcastInv'
  <1>1. worker'[w] = new
    BY TypesByPart DEF Change, BroadcastInv, WorkersType
  <1>2. Heard(w)
    BY LoadsOf
  <1>3. Heard(w)'
    <2> SUFFICES ASSUME ~missed[w]
                 PROVE  /\ new.step = "up"
                        /\ AllPublished /\ channel[w] = <<>> /\ new.info \in DOMAIN redis.templates
                              => LastLoad(new, redis.templates[new.info])
      BY <1>1 DEF Heard, AllPublished
    <2>1. new.step = "up"
      BY <1>2 DEF Heard
    <2>2. ASSUME AllPublished, channel[w] = <<>>, x.info \in DOMAIN redis.templates
          PROVE  LastLoad(new, redis.templates[x.info])
      <3>1. PICK base : base = redis.templates[x.info]
        OBVIOUS
      <3>2. base # None
        BY <2>2, <3>1, TemplateKnown
      <3>3. LastLoad(x, base)
        BY <1>2, <2>2, <3>1 DEF Heard, LastLoad
      <3> QED BY <3>1, <3>2, <3>3
    <2> QED BY <2>1, <2>2
  <1>4. FaultsType' /\ OthersAlone(w)
    BY LoadsOf, AloneKeeps DEF FaultsType
  <1> QED BY <1>3, <1>4, OneWorker

LEMMA RegisteredType ==
    ASSUME BroadcastInv, NEW w \in Workers, NEW base \in Heights, NEW blocks \in Registered(w, base)
    PROVE  blocks \in SUBSET Heights /\ base \in blocks
  <1>1. worker[w].blocks \in SUBSET Heights
    BY LoadsOf DEF WorkerType
  <1>2. PICK kept \in Kept(w) : blocks = kept \cup {base}
    BY DEF Registered
  <1>3. kept \in SUBSET Heights
    BY <1>1, <1>2 DEF Kept
  <1> QED BY <1>2, <1>3

(* A template that is emitted, by a worker that has taken its answer. *)
LEMMA EmitKeeps ==
    ASSUME BroadcastInv, NEW w \in Workers, NEW x \in WorkerType, x = worker[w],
           NEW pending \in WorkerType, pending.step = x.step, pending.info = x.info,
           NEW base \in Heights, NEW source \in {"redis", "database"},
           Emit(w, base, source, pending),
           UNCHANGED <<tip, notices, info, task, saved, redis, faults>>,
           \A t : t # None /\ LastLoad(x, t)
                    => IF pending.loads = <<>> THEN source = "database" \/ base = t
                       ELSE LastLoad(pending, t)
    PROVE  BroadcastInv'
  <1>1. CASE worker[w].info = None
    <2>1. Die(w)
      BY <1>1 DEF Emit
    <2>2. FaultsType'
      BY LoadsOf DEF FaultsType
    <2> QED BY <2>1, <2>2, DeadIsClean
  <1>2. CASE worker[w].info # None
    <2>1. PICK blocks \in Registered(w, base) :
              Change(w, [pending EXCEPT !.last = worker[w].info, !.blocks = blocks,
                                        !.current = base, !.source = source])
      BY <1>2 DEF Emit
    <2>2. UNCHANGED <<channel, missed>>
      BY <1>2 DEF Emit
    <2>3. PICK last : last = worker[w].info
      OBVIOUS
    <2>4. PICK new : new = [pending EXCEPT !.last = last, !.blocks = blocks,
                                           !.current = base, !.source = source]
      OBVIOUS
    <2>5. pending = [step |-> pending.step, info |-> pending.info, loads |-> pending.loads,
                     db |-> pending.db, last |-> pending.last, blocks |-> pending.blocks,
                     current |-> pending.current, source |-> pending.source]
      BY WorkerRecord
    <2>6. new = [step |-> pending.step, info |-> pending.info, loads |-> pending.loads,
                 db |-> pending.db, last |-> last, blocks |-> blocks, current |-> base,
                 source |-> source]
      BY ONLY <2>4, <2>5
    <2>7. blocks \in SUBSET Heights /\ base \in blocks
      BY <2>1, RegisteredType
    <2>8. new \in WorkerType /\ (new.current # None => new.current \in new.blocks)
      <3>1. last \in Heights \cup {None}
        BY <2>3, LoadsOf DEF WorkerType
      <3> QED BY <2>6, <2>7, <3>1 DEF WorkerType
    <2>9. /\ Change(w, new) /\ new.step = x.step /\ new.info = x.info
          /\ new.loads = pending.loads /\ new.info = pending.info
          /\ new.current = base /\ new.source = source
      BY <2>1, <2>3, <2>4, <2>6
    <2>10. ASSUME NEW t, t # None, LastLoad(x, t)
           PROVE  LastLoad(new, t)
      <3>1. IF pending.loads = <<>> THEN source = "database" \/ base = t ELSE LastLoad(pending, t)
        BY <2>10
      <3>2. CASE pending.loads = <<>>
        BY <2>9, <3>1, <3>2 DEF LastLoad
      <3>3. CASE pending.loads # <<>>
        <4>1. LastLoad(pending, t)
          BY <3>1, <3>3
        <4> QED BY ONLY <2>9, <3>3, <4>1 DEF LastLoad
      <3> QED BY <3>2, <3>3
    <2> QED BY <2>2, <2>8, <2>9, <2>10, SelfKeeps
  <1> QED BY <1>1, <1>2

(* The answer at the head is taken: what comes after it is the last load     *)
(* still, or it was the last. *)
LEMMA UseAnswerKeeps ==
    ASSUME BroadcastInv, NEW w \in Workers, UseAnswer(w)
    PROVE  BroadcastInv'
  <1>1. PICK x \in WorkerType : x = worker[w]
    BY LoadsOf
  <1>2. PICK answer, rest : answer = Head(x.loads) /\ rest = Tail(x.loads)
    OBVIOUS
  <1>3. PICK pending : pending = [x EXCEPT !.loads = rest]
    OBVIOUS
  <1>4. /\ x.loads # <<>> /\ answer.answered
        /\ IF answer.base # None
           THEN Emit(w, answer.base, "redis", pending)
           ELSE /\ Change(w, [pending EXCEPT !.db = @ \cup {answer.height}])
                /\ UNCHANGED <<channel, missed>>
        /\ UNCHANGED <<tip, notices, info, task, saved, redis, faults>>
    BY <1>1, <1>2, <1>3 DEF UseAnswer
  <1>5. /\ answer \in LoadType /\ rest \in Seq(LoadType) /\ answer = x.loads[1]
        /\ rest = <<>> => Len(x.loads) = 1
        /\ rest # <<>> => rest[Len(rest)] = x.loads[Len(x.loads)]
    <2>1. x.loads \in Seq(LoadType)
      BY DEF WorkerType
    <2> QED BY <1>2, <1>4, <2>1, TailLast
  <1>6. pending = [step |-> x.step, info |-> x.info, loads |-> rest, db |-> x.db, last |-> x.last,
                   blocks |-> x.blocks, current |-> x.current, source |-> x.source]
    BY <1>3, WorkerRecord
  <1>7. pending \in WorkerType
    BY <1>5, <1>6 DEF WorkerType
  <1>8. ASSUME NEW base, LastLoad(x, base)
        PROVE  /\ rest = <<>> => answer.height = x.info /\ answer.base = base
               /\ rest # <<>> => /\ rest[Len(rest)].height = x.info
                                 /\ rest[Len(rest)].answered => rest[Len(rest)].base = base
    BY <1>4, <1>5, <1>8 DEF LastLoad
  <1>9. CASE answer.base # None
    <2>1. answer.base \in Heights
      BY <1>5, <1>9 DEF LoadType
    <2>2. pending.step = x.step /\ pending.info = x.info /\ pending.loads = rest
      BY <1>6
    <2>3. PICK base \in Heights : base = answer.base
      BY <2>1
    <2>4. ASSUME NEW t, LastLoad(x, t)
          PROVE  IF pending.loads = <<>> THEN "redis" = "database" \/ base = t
                 ELSE LastLoad(pending, t)
      BY <1>8, <2>2, <2>3, <2>4 DEF LastLoad
    <2>5. Emit(w, base, "redis", pending)
      BY <1>4, <1>9, <2>3
    <2> QED BY <1>1, <1>4, <1>7, <2>2, <2>4, <2>5, EmitKeeps
  <1>10. CASE answer.base = None
    <2>1. PICK db : db = x.db \cup {answer.height}
      OBVIOUS
    <2>2. PICK new : new = [pending EXCEPT !.db = db]
      OBVIOUS
    <2>3. new = [step |-> x.step, info |-> x.info, loads |-> rest, db |-> db, last |-> x.last,
                 blocks |-> x.blocks, current |-> x.current, source |-> x.source]
      BY ONLY <1>6, <2>2
    <2>4. pending.db = x.db
      BY <1>6
    <2>5. Change(w, new)
      BY <1>4, <1>10, <2>1, <2>2, <2>4
    <2>6. new \in WorkerType /\ (new.current # None => new.current \in new.blocks)
      <3>1. db \in SUBSET Heights
        BY <1>5, <2>1 DEF LoadType, WorkerType
      <3>2. x.current # None => x.current \in x.blocks
        BY <1>1, LoadsOf
      <3> QED BY <1>5, <2>3, <3>1, <3>2 DEF WorkerType
    <2>7. ASSUME NEW t, t # None, LastLoad(x, t)
          PROVE  LastLoad(new, t)
      <3>1. rest # <<>>
        BY <1>8, <1>10, <2>7
      <3>2. new.loads = rest /\ new.info = x.info
        BY <2>3
      <3> QED BY <1>8, <2>7, <3>1, <3>2 DEF LastLoad
    <2>8. new.step = x.step /\ new.info = x.info
      BY <2>3
    <2>9. UNCHANGED <<tip, notices, info, task, saved, redis, channel, missed, faults>>
      BY <1>4, <1>10
    <2> QED BY <1>1, <2>5, <2>6, <2>7, <2>8, <2>9, SelfKeeps
  <1> QED BY <1>9, <1>10

(* A late answer of the database: its template is marked as such. *)
LEMMA DatabaseAnswersKeeps ==
    ASSUME BroadcastInv, NEW w \in Workers, DatabaseAnswers(w)
    PROVE  BroadcastInv'
  <1>1. PICK x \in WorkerType : x = worker[w]
    BY LoadsOf
  <1>2. PICK height \in x.db :
            LET pending == [x EXCEPT !.db = @ \ {height}]
                base == Found(saved, height)
            IN  /\ IF base # None
                   THEN Emit(w, base, "database", pending)
                   ELSE Change(w, pending) /\ UNCHANGED <<channel, missed>>
                /\ UNCHANGED <<tip, notices, info, task, saved, redis, faults>>
    BY <1>1 DEF DatabaseAnswers
  <1>3. PICK base, db : base = Found(saved, height) /\ db = x.db \ {height}
    OBVIOUS
  <1>4. PICK pending : pending = [x EXCEPT !.db = db]
    OBVIOUS
  <1>5. /\ IF base # None
           THEN Emit(w, base, "database", pending)
           ELSE Change(w, pending) /\ UNCHANGED <<channel, missed>>
        /\ UNCHANGED <<tip, notices, info, task, saved, redis, faults>>
    BY <1>2, <1>3, <1>4
  <1>6. pending = [step |-> x.step, info |-> x.info, loads |-> x.loads, db |-> db, last |-> x.last,
                   blocks |-> x.blocks, current |-> x.current, source |-> x.source]
    BY <1>4, WorkerRecord
  <1>7. x.current # None => x.current \in x.blocks
    BY <1>1, LoadsOf
  <1>8. /\ pending \in WorkerType /\ (pending.current # None => pending.current \in pending.blocks)
        /\ pending.step = x.step /\ pending.info = x.info /\ pending.loads = x.loads
        /\ pending.current = x.current /\ pending.source = x.source
    BY <1>3, <1>6, <1>7 DEF WorkerType
  <1>9. ASSUME NEW t, LastLoad(x, t)
        PROVE  LastLoad(pending, t)
    BY <1>8, <1>9 DEF LastLoad
  <1>10. CASE base # None
    <2>1. base \in Heights
      <3>1. height \in Heights
        BY <1>2 DEF WorkerType
      <3> QED BY <1>3, <1>10, <3>1, FoundType
    <2>2. ASSUME NEW t, LastLoad(x, t)
          PROVE  IF pending.loads = <<>> THEN "database" = "database" \/ base = t
                 ELSE LastLoad(pending, t)
      BY <1>9, <2>2
    <2> QED BY <1>1, <1>5, <1>8, <1>10, <2>1, <2>2, EmitKeeps
  <1>11. CASE base = None
    <2>1. /\ Change(w, pending)
          /\ UNCHANGED <<tip, notices, info, task, saved, redis, channel, missed, faults>>
      BY <1>5, <1>11
    <2> QED BY <1>1, <1>8, <1>9, <2>1, SelfKeeps
  <1> QED BY <1>10, <1>11

LEMMA LoseMessagesKeeps ==
    ASSUME BroadcastInv, NEW w \in Workers, LoseMessages(w)
    PROVE  BroadcastInv'
  <1>1. MasterType /\ StoreType /\ ChannelType /\ WorkersType /\ FaultsType /\ TaskInv /\ HeardInv
    BY TypesByPart DEF BroadcastInv
  <1>2. /\ channel' = [channel EXCEPT ![w] = <<>>]
        /\ missed' = [missed EXCEPT ![w] = TRUE]
        /\ UNCHANGED <<tip, notices, info, task, saved, redis, worker>>
    BY DEF LoseMessages
  <1>3. FaultsType'
    BY <1>1, FaultKeepsType DEF LoseMessages, Faults
  <1>4. MasterType' /\ StoreType' /\ TaskInv' /\ RedisInv'
    BY <1>1, <1>2 DEF MasterType, StoreType, TaskInv, RedisInv, BroadcastInv, Opt
  <1>5. ChannelType'
    <2>1. <<>> \in Seq(Opt(0..tip))
      OBVIOUS
    <2> QED BY <1>1, <1>2, <2>1 DEF ChannelType, Opt
  <1>6. WorkersType'
    BY <1>1, <1>2 DEF WorkersType
  <1>7. HeardInv'
    <2> SUFFICES ASSUME NEW v \in Workers PROVE Heard(v)'
      BY DEF HeardInv
    <2>1. Heard(v)
      BY <1>1 DEF HeardInv
    <2>2. CASE v = w
      BY <1>1, <1>2, <2>2 DEF Heard, WorkersType
    <2>3. CASE v # w
      <3>1. /\ worker'[v] = worker[v] /\ channel'[v] = channel[v] /\ missed'[v] = missed[v]
            /\ redis' = redis /\ AllPublished' = AllPublished
        BY <1>1, <1>2, <2>3 DEF ChannelType, WorkersType, AllPublished
      <3> QED BY ONLY <2>1, <3>1 DEF Heard
    <2> QED BY <2>2, <2>3
  <1> QED BY <1>3, <1>4, <1>5, <1>6, <1>7, TypesByPartNext DEF BroadcastInv

(* The answered loads are loads. *)
LEMMA AnsweredType ==
    ASSUME NEW loads \in Seq(LoadType)
    PROVE  Answered(loads) \in Seq(LoadType)
  <1>1. PICK S : S = {i \in DOMAIN loads : loads[i].answered}
    OBVIOUS
  <1>2. DOMAIN loads = 1..Len(loads) /\ Len(loads) \in Nat
    BY LenProperties
  <1>3. IsFiniteSet(1..Len(loads)) /\ Cardinality(1..Len(loads)) = Len(loads)
    BY <1>2, FS_Interval
  <1>4. S \subseteq 1..Len(loads)
    BY <1>1, <1>2
  <1>5. Cardinality(S) \in Nat /\ Cardinality(S) <= Len(loads)
    BY <1>3, <1>4, FS_Subset, FS_CardinalityType
  <1>6. SubSeq(loads, 1, Cardinality(S)) \in Seq(LoadType)
    <2>1. PICK n \in Nat : n = Cardinality(S) /\ n <= Len(loads)
      BY <1>5
    <2>2. SubSeq(loads, 1, n) \in Seq(LoadType)
      BY <1>2, <2>1, SubSeqProperties
    <2> QED BY <2>1, <2>2
  <1> QED BY <1>1, <1>6 DEF Answered

LEMMA RestartRedisKeeps ==
    ASSUME BroadcastInv, RestartRedis
    PROVE  BroadcastInv'
  <1>1. MasterType /\ StoreType /\ ChannelType /\ WorkersType /\ FaultsType /\ TaskInv
    BY TypesByPart DEF BroadcastInv
  <1>2. /\ redis' = NoRedis
        /\ channel' = [w \in Workers |-> <<>>]
        /\ worker' = [w \in Workers |->
                         IF worker[w].step = "loading" THEN Down
                         ELSE [worker[w] EXCEPT !.loads = Answered(@)]]
        /\ missed' = [w \in Workers |-> TRUE]
        /\ UNCHANGED <<notices, info, task>> \/ EmptyMaster
        /\ UNCHANGED <<tip, saved>>
    BY DEF RestartRedis
  <1>3. FaultsType'
    BY <1>1, FaultKeepsType DEF RestartRedis, Faults
  <1>4. MasterType' /\ TaskInv'
    <2>1. CASE UNCHANGED <<notices, info, task>>
      BY <1>1, <1>2, <2>1 DEF MasterType, TaskInv, Opt
    <2>2. CASE EmptyMaster
      BY <1>1, <1>2, <2>2, EmptyMasterTypes
    <2> QED BY <1>2, <2>1, <2>2
  <1>5. StoreType' /\ RedisInv'
    BY <1>1, <1>2 DEF StoreType, RedisInv, NoRedis, Opt
  <1>6. ChannelType'
    <2>1. <<>> \in Seq(Opt(0..tip))
      OBVIOUS
    <2> QED BY <1>2, <2>1 DEF ChannelType, Opt
  <1>7. ASSUME NEW w \in Workers
        PROVE  /\ worker'[w] \in WorkerType
               /\ worker'[w].current # None => worker'[w].current \in worker'[w].blocks
    <2>1. CASE worker[w].step = "loading"
      BY <1>2, <2>1, DownType
    <2>2. CASE worker[w].step # "loading"
      <3>1. PICK x \in WorkerType : x = worker[w]
        BY LoadsOf
      <3>2. PICK loads : loads = Answered(x.loads)
        OBVIOUS
      <3>3. PICK new : new = [x EXCEPT !.loads = loads]
        OBVIOUS
      <3>4. new = [step |-> x.step, info |-> x.info, loads |-> loads, db |-> x.db, last |-> x.last,
                   blocks |-> x.blocks, current |-> x.current, source |-> x.source]
        BY <3>3, WorkerRecord
      <3>5. loads \in Seq(LoadType) /\ (x.current # None => x.current \in x.blocks)
        BY <3>1, <3>2, AnsweredType, LoadsOf DEF WorkerType
      <3>6. worker'[w] = new
        BY <1>2, <2>2, <3>1, <3>2, <3>3
      <3> QED BY <3>4, <3>5, <3>6 DEF WorkerType
    <2> QED BY <2>1, <2>2
  <1>8. WorkersType'
    BY <1>2, <1>7 DEF WorkersType, WorkerType, LoadType, Heights
  <1>9. HeardInv'
    BY <1>2 DEF HeardInv, Heard
  <1> QED BY <1>3, <1>4, <1>5, <1>6, <1>8, <1>9, TypesByPartNext DEF BroadcastInv

-----------------------------------------------------------------------------
LEMMA BroadcastStutter ==
    ASSUME BroadcastInv, UNCHANGED broadcastVars
    PROVE  BroadcastInv'
  <1>1. UNCHANGED <<tip, notices, info, task, saved, redis, channel, worker, missed, faults>>
    BY DEF broadcastVars
  <1>2. MasterType /\ FaultsType /\ TaskInv
    BY TypesByPart DEF BroadcastInv
  <1>3. MasterType' /\ TaskInv' /\ FaultsType' /\ AllPublished' = AllPublished
    BY <1>1, <1>2 DEF MasterType, TaskInv, FaultsType, AllPublished, Opt
  <1> QED BY <1>1, <1>3, MasterOnly

LEMMA BroadcastStep ==
    BroadcastInv /\ [BroadcastNext]_broadcastVars => BroadcastInv'
  <1> SUFFICES ASSUME BroadcastInv, [BroadcastNext]_broadcastVars
               PROVE  BroadcastInv'
    OBVIOUS
  <1>1. CASE FindBlock
    BY <1>1, FindBlockKeeps
  <1>2. CASE LoseNotice \/ MiningInfoFails
    BY <1>2, NoticesKeep
  <1>3. CASE HearBlock \/ StartRefresh
    BY <1>3, AskKeeps
  <1>4. ASSUME NEW r \in Refreshers, MasterStep(r)
        PROVE  BroadcastInv'
    BY <1>4, FetchKeeps, SaveKeeps, StoreInfoKeeps, StoreTemplateKeeps, PublishKeeps, RebootKeeps
    DEF MasterStep
  <1>5. CASE RestartMaster
    BY <1>5, RebootKeeps
  <1>6. CASE DeleteOldBlocks
    BY <1>6, DeleteKeeps
  <1>7. ASSUME NEW w \in Workers, WorkerStep(w)
        PROVE  BroadcastInv'
    BY <1>7, StartKeeps, SubscribeKeeps, DeliverKeeps, RedisAnswersKeeps, UseAnswerKeeps,
       DatabaseAnswersKeeps
    DEF WorkerStep
  <1>8. ASSUME NEW w \in Workers, LoseMessages(w) \/ RestartWorker(w)
        PROVE  BroadcastInv'
    BY <1>8, LoseMessagesKeeps, RestartKeeps
  <1>9. CASE RestartRedis
    BY <1>9, RestartRedisKeeps
  <1>10. CASE UNCHANGED broadcastVars
    BY <1>10, BroadcastStutter
  <1> QED BY <1>1, <1>2, <1>3, <1>4, <1>5, <1>6, <1>7, <1>8, <1>9, <1>10 DEF BroadcastNext

(* Where all is quiet nothing is left between a worker and Redis. *)
LEMMA QuietAgrees == BroadcastInv => WorkersInv
  <1> SUFFICES ASSUME BroadcastInv, NEW w \in Workers, Quiet(w), ~missed[w],
                      worker[w].source # "database", worker[w].info \in DOMAIN redis.templates
               PROVE  worker[w].current = redis.templates[worker[w].info]
    BY DEF WorkersInv, QuietWorkersAgree, Agrees, BroadcastInv
  <1>1. AllPublished /\ channel[w] = <<>> /\ worker[w].loads = <<>>
    BY DEF Quiet, AllPublished
  <1>2. LastLoad(worker[w], redis.templates[worker[w].info])
    BY <1>1, LoadsOf DEF Heard
  <1> QED BY <1>1, <1>2 DEF LastLoad

(* However the refreshes of the master and the loads of the workers          *)
(* interleave, with whatever faults, restarts and lost messages: the types   *)
(* hold, no template builds on a block the node does not have, a worker hands *)
(* out registered work, and when all is quiet a worker that got the last     *)
(* message works on the template Redis has. *)
THEOREM WorkersAgree == BroadcastSpec => []WorkersInv
  <1>1. BroadcastInit => BroadcastInv
    BY BroadcastStart
  <1>2. BroadcastInv /\ [BroadcastNext]_broadcastVars => BroadcastInv'
    BY BroadcastStep
  <1>3. BroadcastInv => WorkersInv
    BY QuietAgrees
  <1> QED BY <1>1, <1>2, <1>3, PTL DEF BroadcastSpec
=============================================================================
