----------------------- MODULE MCAnalyticsRecomputer -----------------------
(* Two servers: one with a warm-up gated recomputer, one with roles, whose  *)
(* pass reads the snapshot of nodes-clock-skew.                             *)
EXTENDS AnalyticsRecomputer

CONSTANTS rf, skew, roles

MCRc == {rf, skew, roles}
MCDeps == [r \in MCRc |-> IF r = roles THEN {skew} ELSE {}]
MCServers ==
    {[order |-> <<rf>>, loaded |-> FALSE, asked |-> {rf}, fails |-> 2],
     [order |-> <<skew, roles>>, loaded |-> TRUE, asked |-> {roles}, fails |-> 0]}
=============================================================================
