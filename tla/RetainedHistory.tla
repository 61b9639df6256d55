--------------------------- MODULE RetainedHistory ---------------------------
(***************************************************************************)
(* verifyRetainedHistory (cmd/server/history_coverage.go): at the end of   *)
(* the startup load the rows in the database are counted against the rows  *)
(* in memory, and equal counts prove that the store holds everything from  *)
(* an edge in time on.  The SQL count runs without s.mu, while the poller  *)
(* adds rows and eviction moves the edge; the readers of the proof         *)
(* (node_activity_24h.go) report an empty hour after it as a real zero.    *)
(***************************************************************************)
EXTENDS StartupLoad

CONSTANT VerifyAttempts   \* retainedHistoryVerifyAttempts

ASSUME VerifyAssumption == VerifyAttempts \in Nat \ {0}

VARIABLES
    check,         \* the attempt in hand: its edge, highest id and SQL count
    retainedFrom   \* retainedHistoryFrom

verifyVars == <<check, retainedFrom>>

Unproven == -1

VerifyInit ==
    /\ check = [attempt |-> 0, from |-> Unproven, maxID |-> 0, inDB |-> 0]
    /\ retainedFrom = Unproven

VerifyTypeOK ==
    /\ check \in [attempt : 0 .. VerifyAttempts, from : Unproven .. Now + 1, maxID : 0 .. MaxTx,
                  inDB : 0 .. MaxTx]
    /\ retainedFrom \in Unproven .. Now + 1

\* retainedHistoryEdgeLocked: past what was evicted since the load began.
Edge == IF ~loadComplete \/ store.packets = << >> \/ historyFailed THEN Unproven
        ELSE Max({oldestLoaded, store.evictedFrom, Floor})

\* The bug of counting rows that lie before the edge.
CountRetainedAnyTime(skipped, bound, maxID) ==
    Cardinality({i \in 1 .. Len(store.packets) : store.packets[i].tx <= maxID})

\* countRetainedSinceLocked: binary search for the edge, then row by row.
CountRetained(skipped, bound, maxID) ==
    Cardinality({i \in skipped + 1 .. Len(store.packets) :
                    store.packets[i].tx <= maxID /\ store.packets[i].first >= bound})

At(state, next) == /\ loader = state /\ loader' = next
                   /\ UNCHANGED <<db, store, evicted, hotStartup, cursorID, chunk, indexed,
                                  loadStartObsID, fillVars, signals>>

\* The edge and the highest id are read under the lock ...
VerifyEdge ==
    /\ At("verify", IF Edge = Unproven THEN "publish" ELSE "count")
    /\ check' = [check EXCEPT !.attempt = @ + 1, !.from = Edge, !.maxID = store.maxTxID]
    /\ UNCHANGED <<faults, retainedFrom>>

\* ... the database is counted without it ...
VerifyCount ==
    /\ At("count", "compare")
    /\ check' = [check EXCEPT !.inDB = Cardinality({t \in 1 .. Len(txs) :
                                   txs[t].first >= check.from /\ t <= check.maxID})]
    /\ UNCHANGED <<faults, retainedFrom>>

VerifyCountFails ==
    /\ At("count", "publish") /\ Fault
    /\ check' = [check EXCEPT !.from = Unproven, !.attempt = 0]
    /\ UNCHANGED retainedFrom

\* ... and memory with it again, provided the edge has not moved.
VerifyCompare ==
    /\ LET moved == Edge # Unproven /\ Edge # check.from
           proven(skipped) == /\ Edge = check.from
                              /\ CountRetained(skipped, check.from, check.maxID) = check.inDB
       IN  \/ /\ moved /\ check.attempt < VerifyAttempts
              /\ At("compare", "verify") /\ UNCHANGED check
           \/ /\ ~moved \/ check.attempt = VerifyAttempts
              /\ At("compare", "publish")
              /\ \E skipped \in Boundaries(store.packets, check.from) :
                    check' = [check EXCEPT !.from = IF proven(skipped) THEN @ ELSE Unproven,
                                           !.attempt = 0, !.inDB = 0]
    /\ UNCHANGED <<faults, retainedFrom>>

\* publishRetainedHistory: the result is stored in a critical section of its own.
Publish ==
    /\ At("publish", "finish")
    /\ retainedFrom' = check.from
    /\ UNCHANGED <<faults, check>>

VerifyNext == VerifyEdge \/ VerifyCount \/ VerifyCountFails \/ VerifyCompare \/ Publish
------------------------------------------------------------------------------
\* retainedHistoryCoverageStartLocked: what a reader takes as complete.
CoverageStart ==
    IF ~loadComplete \/ ~backgroundLoadDone \/ backgroundLoadFailed
         \/ store.packets = << >> \/ retainedFrom = Unproven
    THEN Unproven
    ELSE Max({retainedFrom, Floor}
             \union (IF MaxMemory > 0 THEN {store.packets[1].first} ELSE {}))
==============================================================================
