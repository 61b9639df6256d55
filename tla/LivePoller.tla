------------------------------ MODULE LivePoller ------------------------------
(***************************************************************************)
(* The server's poller (cmd/server/websocket.go): each tick ingests new    *)
(* transmissions (IngestNewFromDB) and then new observations               *)
(* (IngestNewObservations) behind two id cursors.  A query and the merge   *)
(* of its rows under s.mu are separate steps.                              *)
(***************************************************************************)
EXTENDS PacketStore

CONSTANTS TxLimit, ObsLimit   \* rows per tick (100 and 500)

ASSUME PollAssumption == TxLimit \in Nat \ {0} /\ ObsLimit \in Nat \ {0}

VARIABLES
    poller,             \* where the tick is
    lastID, lastObsID,  \* the cursors
    nextObsID,          \* what lastObsID will be after the tick
    newRows, newObs,    \* the rows of the query in hand
    startID             \* history: the cursor lastID started with

pollVars == <<poller, lastID, lastObsID, nextObsID, newRows, newObs, startID>>

PollerState == {"unstarted", "tick", "merge", "nextObs", "obsQuery", "obsMerge"}

PollTypeOK ==
    /\ poller \in PollerState
    /\ lastID \in 0 .. MaxTx /\ startID \in 0 .. MaxTx
    /\ {lastObsID, nextObsID} \subseteq 0 .. MaxObs
    /\ newRows \subseteq [tx : Tx, first : Stamp, obs : SUBSET Obs]
    /\ newObs \subseteq Obs

PollInit ==
    /\ poller = "unstarted"
    /\ lastID = 0 /\ lastObsID = 0 /\ nextObsID = 0 /\ startID = 0
    /\ newRows = {} /\ newObs = {}

\* Poller.Start: from the highest ids of the DB (0 when the query fails), with
\* those of the store as a floor.
StartPoller(ready) ==
    /\ poller = "unstarted" /\ ready
    /\ poller' = "tick"
    /\ \E dbTx \in {Len(txs), 0}, dbObs \in {Len(obs), 0} :
          /\ IF dbTx = Len(txs) /\ dbObs = Len(obs) THEN UNCHANGED faults ELSE Fault
          /\ lastID' = Max({dbTx, store.maxTxID})
          /\ lastObsID' = Max({dbObs, store.maxObsID})
    /\ startID' = lastID'
    /\ UNCHANGED <<db, store, evicted, nextObsID, newRows, newObs>>

\* IngestNewFromDB, the query: the first TxLimit transmissions after lastID.
PollTransmissions ==
    /\ poller = "tick"
    /\ newRows' = Rows(FirstN({t \in 1 .. Len(txs) : t > lastID}, TxLimit))
    /\ poller' = IF newRows' = {} THEN "nextObs" ELSE "merge"
    /\ UNCHANGED <<db, faults, store, evicted, lastID, lastObsID, nextObsID, newObs, startID>>

PollTransmissionsFails ==
    /\ poller = "tick"
    /\ Fault
    /\ poller' = "nextObs"
    /\ UNCHANGED <<db, store, evicted, lastID, lastObsID, nextObsID, newRows, newObs, startID>>

\* The bug of moving the cursor to the highest id of the table.
IngestNewFromDBSkipping ==
    /\ poller = "merge"
    /\ store' = AddRows(store, newRows)
    /\ lastID' = Len(txs)
    /\ newRows' = {}
    /\ poller' = "nextObs"
    /\ UNCHANGED <<db, faults, evicted, lastObsID, nextObsID, newObs, startID>>

\* IngestNewFromDB, the merge; lastID moves to the highest id merged.
IngestNewFromDB ==
    /\ poller = "merge"
    /\ store' = AddRows(store, newRows)
    /\ lastID' = Max(TxsOf(newRows))
    /\ newRows' = {}
    /\ poller' = "nextObs"
    /\ UNCHANGED <<db, faults, evicted, lastObsID, nextObsID, newObs, startID>>

\* pollStore: the highest of the next ObsLimit observation ids, before the
\* observations themselves are queried.
NewObservations == FirstN({o \in 1 .. Len(obs) : o > lastObsID}, ObsLimit)

NextObsID ==
    /\ poller = "nextObs"
    /\ \/ nextObsID' = Max({lastObsID} \union NewObservations) /\ UNCHANGED faults
       \/ nextObsID' = lastObsID /\ Fault
    /\ poller' = "obsQuery"
    /\ UNCHANGED <<db, store, evicted, lastID, lastObsID, newRows, newObs, startID>>

\* IngestNewObservations, the query and the merge.  A failed query is only
\* logged: pollStore advances lastObsID all the same.
PollObservations ==
    /\ poller = "obsQuery"
    /\ poller' = "obsMerge"
    /\ \/ newObs' = NewObservations /\ UNCHANGED faults
       \/ newObs' = {} /\ Fault
    /\ UNCHANGED <<db, store, evicted, lastID, lastObsID, nextObsID, newRows, startID>>

\* The bug of moving the cursor to the highest id of the table.
IngestNewObservationsSkipping ==
    /\ poller = "obsMerge"
    /\ store' = AddObservations(store, newObs)
    /\ lastObsID' = Len(obs)
    /\ newObs' = {} /\ nextObsID' = 0
    /\ poller' = "tick"
    /\ UNCHANGED <<db, faults, evicted, lastID, newRows, startID>>

IngestNewObservations ==
    /\ poller = "obsMerge"
    /\ store' = AddObservations(store, newObs)
    /\ lastObsID' = nextObsID
    /\ newObs' = {} /\ nextObsID' = 0
    /\ poller' = "tick"
    /\ UNCHANGED <<db, faults, evicted, lastID, newRows, startID>>

PollTick ==
    \/ PollTransmissions \/ PollTransmissionsFails \/ IngestNewFromDB
    \/ NextObsID \/ PollObservations \/ IngestNewObservations
==============================================================================
