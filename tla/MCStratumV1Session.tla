------------------------- MODULE MCStratumV1Session -------------------------
(* StratumV1Session with one connection that is paid as two identities. *)
EXTENDS StratumV1Session

MCIdentities == {<<"a", "w">>, <<"b", "v">>}
MCAccounts == {<<"a", "w">>}
=============================================================================
