------------------------------ MODULE MCAppShell ------------------------------
(* The nodes list, loaded on navigation and force-refreshed on an advert.    *)
EXTENDS AppShell

CONSTANT nodes

MCUse == {[path |-> nodes, retry503 |-> TRUE, bust |-> b] : b \in BOOLEAN}
==============================================================================
