------------------------------- MODULE MCWsHub -------------------------------
(***************************************************************************)
(* WsHub for TLC: clients of one public address and of one local proxy.    *)
(***************************************************************************)
EXTENDS WsHub, TLC

CONSTANTS c1, c2, c3, public, proxy

MCClient == {c1, c2, c3}
MCIP == {public, proxy}
MCIpOf == (c1 :> public) @@ (c2 :> public) @@ (c3 :> proxy)
==============================================================================
