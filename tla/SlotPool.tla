------------------------------- MODULE SlotPool -------------------------------
(***************************************************************************)
(* What the WebSocket limiter promises: at most Max clients hold a slot at *)
(* once (any number when Max is 0), a client gets a slot once, and gives   *)
(* it back at most once.                                                   *)
(***************************************************************************)
EXTENDS Integers, FiniteSets

CONSTANTS Client, Max

VARIABLES holding, returned

poolVars == <<holding, returned>>

PoolInit == holding = {} /\ returned = {}

Take(c) ==
    /\ c \notin holding \union returned
    /\ Max > 0 => Cardinality(holding) < Max
    /\ holding' = holding \union {c}
    /\ UNCHANGED returned

Return(c) ==
    /\ c \in holding
    /\ holding' = holding \ {c}
    /\ returned' = returned \union {c}

PoolNext == \E c \in Client : Take(c) \/ Return(c)

PoolSpec == PoolInit /\ [][PoolNext]_poolVars
===============================================================================
