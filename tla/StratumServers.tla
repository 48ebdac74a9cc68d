----------------------------- MODULE StratumServers -----------------------------
(***************************************************************************)
(* The servers of a worker process (stratum-v1.service.ts and               *)
(* stratum-v2.service.ts): how a connection gets its client and loses it,   *)
(* how the backpressure monitor closes the ports of Stratum V1 and opens    *)
(* them again, and how the Noise configuration that all V2 services share   *)
(* comes about.                                                             *)
(*                                                                         *)
(* A "plain" port speaks V1 or V2, as the first chunk says, a "secure" port *)
(* V1 behind TLS; the monitor closes both kinds.  An "sv2" port has a       *)
(* server of its own without a monitor or a limit.                          *)
(*                                                                         *)
(* Without SV2_AUTHORITY_PRIVKEY every initialization of the Noise          *)
(* configuration draws a key: keys are numbered in the order they are       *)
(* drawn.                                                                   *)
(***************************************************************************)
EXTENDS Integers, FiniteSets

CONSTANTS
    Ports,          \* the ports of the process
    KindOf,         \* the kind of each port
    Conns,          \* connections at a time
    Starters,       \* other callers of ensureInitialized: services, the API
    Limit,          \* STRATUM_MAX_CONNECTIONS_PER_LISTENER
    HealthyChecks,  \* STRATUM_BACKPRESSURE_HEALTHY_CHECKS
    MaxLoads,       \* bound: changes of the load
    MaxConnects     \* bound: connections

ASSUME StratumServersAssumption ==
    /\ KindOf \in [Ports -> {"plain", "secure", "sv2"}]
    /\ Limit \in Nat \ {0} /\ HealthyChecks \in Nat \ {0}
    /\ Conns \cap Starters = {}

Watched == {p \in Ports : KindOf[p] # "sv2"}
Loads == {"healthy", "between", "overloaded"}

VARIABLES
    started,    \* the listeners of Stratum V1 exist
    server,     \* per port: none, listening, or failed to bind
    paused,     \* per port
    load,       \* what the monitor will measure
    healthy,    \* healthyBackpressureChecks
    conns,      \* per connection: its port, socket and client
    asking,     \* callers of ensureInitialized: new, generating or done
    authority,  \* the authority key of the process, 0 before the first
    noise,      \* the configuration: the key that signed its certificate
    budget,     \* counters for the bounds
    tripped,    \* history: paused, and not enough healthy checks since
    streak      \* history: healthy checks in a row

listening == <<started, server, paused, healthy, tripped, streak>>
keys == <<authority, noise>>
vars == <<listening, keys, load, conns, asking, budget>>

Idle == [port |-> "none", socket |-> "closed", client |-> "none",
         cleaned |-> FALSE, heard |-> FALSE, counted |-> FALSE,
         late |-> FALSE, destroys |-> 0]

Init ==
    /\ started = FALSE
    /\ server = [p \in Ports |-> "none"]
    /\ paused = [p \in Ports |-> FALSE]
    /\ load \in Loads
    /\ healthy = 0
    /\ conns = [c \in Conns |-> Idle]
    /\ asking = [a \in Conns \cup Starters |-> "new"]
    /\ authority = 0
    /\ noise = 0
    /\ budget = [loads |-> MaxLoads, connects |-> MaxConnects]
    /\ tripped = FALSE
    /\ streak = 0

-----------------------------------------------------------------------------
(* ensureInitialized, called by every V2 service as it starts, by the API    *)
(* and by the first V2 connections: nothing keeps two calls apart.           *)

(* Mutant: a caller does not look whether there is a configuration. *)
AsksAlways(a) ==
    /\ asking' = [asking EXCEPT ![a] = "generating"]
    /\ authority' = authority + 1

(* The part before the await: the key is drawn and published.                *)
Asks(a) ==
    IF noise # 0 THEN /\ asking' = [asking EXCEPT ![a] = "done"]
                      /\ UNCHANGED authority
    ELSE /\ asking' = [asking EXCEPT ![a] = "generating"]
         /\ authority' = authority + 1

(* The part after it, when the key pair is there: the certificate is signed  *)
(* with the key of that moment.                                              *)
Generated(a) ==
    /\ asking[a] = "generating"
    /\ noise' = authority
    /\ asking' = [asking EXCEPT ![a] = "done"]
    /\ UNCHANGED authority

(* A service starts, or the API asks for the authority's public key.         *)
Start(a) ==
    /\ asking[a] = "new"
    /\ Asks(a)
    /\ UNCHANGED <<listening, load, conns, noise, budget>>

(* The V2 service opens its ports when its configuration is there; others    *)
(* go their way.                                                             *)
Initialized(a) ==
    /\ Generated(a)
    /\ UNCHANGED <<listening, load, conns, budget>>

OpenV2Port(p) ==
    /\ KindOf[p] = "sv2" /\ server[p] = "none" /\ noise # 0
    /\ \E bound \in {"listening", "failed"} : server' = [server EXCEPT ![p] = bound]
    /\ UNCHANGED <<started, paused, healthy, tripped, streak, keys, load, conns, asking, budget>>

-----------------------------------------------------------------------------
(* The listeners and the monitor. *)

(* listen on the given ports: a bind that fails is only logged.              *)
Listen(ports) ==
    /\ \E bound \in [ports -> {"listening", "failed"}] :
          server' = [p \in Ports |-> IF p \in ports THEN bound[p] ELSE server[p]]
    /\ paused' = [p \in Ports |-> p \notin ports /\ paused[p]]

(* Ten seconds after the start, whatever the load is.                        *)
StartListeners ==
    /\ ~started /\ started' = TRUE
    /\ Listen(Watched)
    /\ UNCHANGED <<healthy, tripped, streak, keys, load, conns, asking, budget>>

(* Connections stay, but the next server of the port does not count them.    *)
Uncounted(ports) ==
    [c \in Conns |-> IF conns[c].port \in ports
                     THEN [conns[c] EXCEPT !.counted = FALSE] ELSE conns[c]]

(* Ports that pauseAccepting takes: those with a server, bound or not.       *)
Pausable == {p \in Watched : ~paused[p] /\ server[p] # "none"}

PauseAccepting ==
    /\ server' = [p \in Ports |-> IF p \in Pausable THEN "none" ELSE server[p]]
    /\ paused' = [p \in Ports |-> p \in Pausable \/ paused[p]]
    /\ conns' = Uncounted(Pausable)

(* Mutant: the count runs on over a check that is not healthy. *)
CountedOn ==
    IF load = "overloaded" THEN 0
    ELSE IF \A p \in Watched : ~paused[p] THEN healthy
    ELSE IF load = "between" THEN healthy
    ELSE healthy + 1

(* healthyBackpressureChecks after this check, before a resume clears it.    *)
Counted ==
    IF load = "overloaded" THEN 0
    ELSE IF \A p \in Watched : ~paused[p] THEN healthy
    ELSE IF load = "between" THEN 0
    ELSE healthy + 1

(* As many healthy checks in a row as it takes.                              *)
Resumes == load = "healthy" /\ Counted >= HealthyChecks

(* Mutant: a port is ready for a new server only when its last one closed. *)
ResumableQuiet ==
    {p \in Watched : paused[p] /\ \A c \in Conns : conns[c].port # p}

(* Ports that resumeAccepting takes.                                         *)
Resumable == {p \in Watched : paused[p] /\ server[p] = "none"}

CheckBackpressure ==
    /\ streak' = IF load # "healthy" THEN 0
                 ELSE IF streak < HealthyChecks THEN streak + 1 ELSE streak
    /\ \/ /\ load = "overloaded" /\ \A p \in Watched : ~paused[p]
          /\ PauseAccepting
          /\ healthy' = Counted
          /\ tripped' = (\E p \in Watched : server[p] # "none")
       \/ /\ Resumes
          /\ Listen(Resumable)
          /\ healthy' = 0
          /\ tripped' = (tripped /\ streak' < HealthyChecks)
          /\ UNCHANGED conns
       \/ /\ ~(load = "overloaded" /\ \A p \in Watched : ~paused[p]) /\ ~Resumes
          /\ healthy' = Counted
          /\ tripped' = (tripped /\ streak' < HealthyChecks)
          /\ UNCHANGED <<server, paused, conns>>
    /\ UNCHANGED <<started, keys, load, asking, budget>>

(* The event loop slows down or the memory grows, or they recover.           *)
LoadChanges ==
    /\ budget.loads > 0 /\ budget' = [budget EXCEPT !.loads = @ - 1]
    /\ load' \in Loads \ {load}
    /\ UNCHANGED <<listening, keys, conns, asking>>

-----------------------------------------------------------------------------
(* Connections. *)

Become(c, conn) == conns' = [conns EXCEPT ![c] = conn]
OnlyConns == UNCHANGED <<listening, keys, load, asking, budget>>

Counting(p) ==
    {c \in Conns : conns[c].port = p /\ conns[c].counted /\ conns[c].socket # "closed"}

(* A server drops what comes over its limit.  A secure port makes its client *)
(* at once.                                                                  *)
Connect(c, p) ==
    /\ budget.connects > 0 /\ budget' = [budget EXCEPT !.connects = @ - 1]
    /\ conns[c] = Idle /\ asking[c] = "new" /\ server[p] = "listening"
    /\ p \in Watched => Cardinality(Counting(p)) < Limit
    /\ Become(c, [Idle EXCEPT !.port = p, !.socket = "open", !.counted = TRUE,
                    !.heard = KindOf[p] = "secure",
                    !.client = IF KindOf[p] = "secure" THEN "live" ELSE "none"])
    /\ UNCHANGED <<listening, keys, load, asking>>

(* detectProtocol of the first chunk: V1, or neither.                        *)
HearsV1(c) ==
    /\ ~conns[c].heard /\ ~conns[c].cleaned /\ conns[c].socket = "open"
    /\ KindOf[conns[c].port] = "plain"
    /\ \/ Become(c, [conns[c] EXCEPT !.heard = TRUE, !.client = "live"])
       \/ Become(c, [conns[c] EXCEPT !.heard = TRUE, !.socket = "destroyed"])
    /\ OnlyConns

(* A Noise handshake: the client is made at once when there is a             *)
(* configuration, else the connection waits for one.                         *)
HearsV2(c) ==
    /\ ~conns[c].heard /\ ~conns[c].cleaned /\ conns[c].socket = "open"
    /\ KindOf[conns[c].port] \in {"plain", "sv2"}
    /\ IF noise # 0
       THEN /\ Become(c, [conns[c] EXCEPT !.heard = TRUE, !.client = "live"])
            /\ UNCHANGED <<asking, authority>>
       ELSE /\ Become(c, [conns[c] EXCEPT !.heard = TRUE, !.late = TRUE])
            /\ Asks(c)
    /\ UNCHANGED <<listening, load, noise, budget>>

(* The connection that waited gets its client, gone or not.                  *)
GetsClient(c) ==
    /\ Generated(c)
    /\ Become(c, [conns[c] EXCEPT !.client = "live"])
    /\ UNCHANGED <<listening, load, budget>>

(* Mutant: an event is cleaned up after as if it were the first. *)
CleanAgain(conn) ==
    IF conn.client \in {"live", "destroying"}
    THEN [conn EXCEPT !.cleaned = TRUE, !.client = "destroying", !.destroys = @ + 1]
    ELSE [conn EXCEPT !.cleaned = TRUE, !.socket = "closed"]

(* cleanup up to its await: the client is told to go, once.  Without one the *)
(* socket loses its listeners and is destroyed at once.                      *)
Clean(conn) ==
    IF conn.cleaned THEN conn
    ELSE IF conn.client = "live"
    THEN [conn EXCEPT !.cleaned = TRUE, !.client = "destroying", !.destroys = @ + 1]
    ELSE [conn EXCEPT !.cleaned = TRUE, !.socket = "closed"]

(* closeSocket of an sv2 port: the client is told, the socket destroyed.     *)
CloseSocket(conn) ==
    [conn EXCEPT !.client = IF @ = "live" THEN "destroying" ELSE @,
                 !.cleaned = TRUE,
                 !.socket = "destroyed"]

Handled(conn) == IF KindOf[conn.port] = "sv2" THEN CloseSocket(conn) ELSE Clean(conn)

(* The socket is idle too long, and stays open until the clean-up ends.      *)
Timeout(c) ==
    /\ conns[c].socket = "open"
    /\ Become(c, Handled(conns[c]))
    /\ OnlyConns

(* The socket fails; its close event is to come.                             *)
Error(c) ==
    /\ conns[c].socket = "open"
    /\ Become(c, Handled([conns[c] EXCEPT !.socket = "destroyed"]))
    /\ OnlyConns

(* The peer goes away.                                                       *)
PeerCloses(c) ==
    /\ conns[c].socket = "open"
    /\ Become(c, [conns[c] EXCEPT !.socket = "destroyed"])
    /\ OnlyConns

CloseEvent(c) ==
    /\ conns[c].socket = "destroyed"
    /\ Become(c, [Handled(conns[c]) EXCEPT !.socket = "closed"])
    /\ OnlyConns

(* The client's rows are deleted: the socket of a V1 port loses its listeners *)
(* and is destroyed.                                                          *)
Destroyed(c) ==
    /\ conns[c].client = "destroying"
    /\ Become(c, [conns[c] EXCEPT !.client = "gone",
                    !.socket = IF KindOf[conns[c].port] = "sv2" THEN @ ELSE "closed"])
    /\ OnlyConns

(* A connection that is gone makes room for another.                         *)
Forget(c) ==
    /\ conns[c] # Idle
    /\ conns[c].socket = "closed" /\ conns[c].cleaned
    /\ conns[c].client # "destroying" /\ asking[c] # "generating"
    /\ Become(c, Idle)
    /\ asking' = [asking EXCEPT ![c] = "new"]
    /\ UNCHANGED <<listening, keys, load, budget>>

-----------------------------------------------------------------------------
ConnStep(c) ==
    \/ \E p \in Ports : Connect(c, p)
    \/ HearsV1(c)
    \/ HearsV2(c)
    \/ GetsClient(c)
    \/ Timeout(c)
    \/ Error(c)
    \/ PeerCloses(c)
    \/ CloseEvent(c)
    \/ Destroyed(c)
    \/ Forget(c)

Next ==
    \/ \E a \in Starters : Start(a) \/ Initialized(a)
    \/ \E p \in Ports : OpenV2Port(p)
    \/ StartListeners
    \/ CheckBackpressure
    \/ LoadChanges
    \/ \E c \in Conns : ConnStep(c)

(* The start's timeout and the monitor's interval fire, key pairs are made,  *)
(* close events arrive and the database answers.                             *)
Fairness ==
    /\ WF_vars(StartListeners)
    /\ WF_vars(CheckBackpressure)
    /\ \A a \in Starters : WF_vars(Initialized(a))
    /\ \A c \in Conns :
          /\ WF_vars(GetsClient(c))
          /\ WF_vars(CloseEvent(c))
          /\ WF_vars(Destroyed(c))

Spec == Init /\ [][Next]_vars /\ Fairness

-----------------------------------------------------------------------------
ConnType ==
    [port : Ports \cup {"none"},
     socket : {"open", "destroyed", "closed"},
     client : {"none", "live", "destroying", "gone"},
     cleaned : BOOLEAN, heard : BOOLEAN, counted : BOOLEAN, late : BOOLEAN,
     destroys : Nat]

(* Types; a port that is paused has no server.                               *)
TypeOK ==
    /\ {started, tripped} \subseteq BOOLEAN
    /\ server \in [Ports -> {"none", "listening", "failed"}]
    /\ paused \in [Ports -> BOOLEAN]
    /\ \A p \in Ports : paused[p] => p \in Watched /\ server[p] = "none"
    /\ load \in Loads
    /\ healthy \in 0..HealthyChecks - 1 /\ streak \in 0..HealthyChecks
    /\ conns \in [Conns -> ConnType]
    /\ asking \in [Conns \cup Starters -> {"new", "generating", "done"}]
    /\ authority \in Nat /\ noise \in 0..authority

(* checkBackpressure decides by whether some port is paused: they always all *)
(* are or none is, those that could not be bound included.                   *)
PausedTogether == \A p, q \in Watched : paused[p] = paused[q]

(* From an overload on no watched port takes connections until the monitor   *)
(* has seen HealthyChecks healthy checks in a row, however the load moves    *)
(* between its thresholds.                                                   *)
TrippedIsQuiet == tripped => \A p \in Watched : server[p] = "none"

(* The client of a V1 port is told to go at most once, and when its socket   *)
(* is gone no client is left at work, except one that came to a connection   *)
(* which had to wait for the Noise configuration.                            *)
ClientGoesOnce ==
    \A c \in Conns :
        /\ conns[c].destroys <= 1
        /\ conns[c].socket = "closed" /\ conns[c].client = "live" => conns[c].late

(* The certificate clients get is signed by the authority whose public key   *)
(* the pool gives out, however many initializations overlapped.              *)
CertificateVerifies == noise # 0 => noise = authority

(* When the load stays healthy, the watched ports are in the end served      *)
(* again, unless their bind fails.                                           *)
AcceptsAgain ==
    <>[](load = "healthy") => <>[](\A p \in Watched : server[p] # "none")

(* The watched ports in one: they pause together, and stay paused while the  *)
(* overload may last.                                                        *)
PauseInv == TypeOK /\ PausedTogether /\ TrippedIsQuiet
=============================================================================
