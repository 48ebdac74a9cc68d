--------------------------- MODULE MCStratumServers ---------------------------
(* A small instance of StratumServers: servers.cfg gives the other           *)
(* constants.  One port of each kind.                                        *)
EXTENDS StratumServers

KindOfPort == [p \in Ports |-> p]
=============================================================================
