----------------------------- MODULE StartupLoad -----------------------------
(***************************************************************************)
(* RunStartupLoad (cmd/server/chunked_load.go, history_coverage.go): the   *)
(* hot window in id order and in chunks, then, with hot startup, the rest  *)
(* of the retention window backwards in windows of last_seen, then the     *)
(* transmissions that were heard again meanwhile.  Every query is a step   *)
(* of its own: its rows are a snapshot that is merged under s.mu later.    *)
(***************************************************************************)
EXTENDS PacketStore

CONSTANTS HotStartups,  \* the settings of hotStartupHours > 0 to look at
          HotCutoff,    \* with hot startup, where the hot window begins
          ChunkSize,    \* transmissions per hot chunk
          MergeBatch    \* transmissions indexed per critical section

ASSUME LoadAssumption ==
    /\ HotStartups \subseteq BOOLEAN
    /\ HotCutoff \in Floor .. Now
    /\ ChunkSize \in Nat \ {0} /\ MergeBatch \in Nat \ {0}

VARIABLES
    hotStartup,       \* configuration: hotStartupHours > 0
    loader,           \* where RunStartupLoad is
    cursorID,         \* the hot cursor
    chunk,            \* the rows of the query in hand
    indexed,          \* the transmissions of them loadChunkWhere has indexed
    oldestLoaded,     \* how far back the store is loaded
    loadStartObsID,   \* the highest observation id when the load began; -1 unknown
    heard,            \* transmissions observed since ...
    heardMaxID,       \* ... with ids up to this one, s.maxTxID at that time
    totalInDB,        \* rows of the window being loaded; -1 unknown
    loadedCount,      \* rows loaded: totalLoaded, then len(s.packets) after the fill
    historyFailed,    \* analyticsHistory.failed (or capped)
    chunkErrors,
    firstChunkReady, loadComplete, backgroundLoadFailed, backgroundLoadDone,
    startupLoadDone

signals == <<firstChunkReady, loadComplete, backgroundLoadFailed,
             backgroundLoadDone, startupLoadDone>>
totals == <<totalInDB, loadedCount, historyFailed>>
fillVars == <<oldestLoaded, heard, heardMaxID, totals, chunkErrors>>
loadVars == <<hotStartup, loader, cursorID, chunk, indexed, loadStartObsID, fillVars, signals>>

LoaderState == {"begin", "hotCount", "hotQuery", "hotMerge", "hotFinish", "fillBegin", "fillQuery",
                "fillIndex", "reheard", "reheardQuery", "fillFinish",
                "verify", "count", "compare", "publish", "finish", "ended"}

LoadTypeOK ==
    /\ hotStartup \in BOOLEAN
    /\ loader \in LoaderState
    /\ cursorID \in 0 .. MaxTx
    /\ chunk \subseteq [tx : Tx, first : Stamp, obs : SUBSET Obs]
    /\ indexed \subseteq TxsOf(chunk)
    /\ oldestLoaded \in Stamp
    /\ loadStartObsID \in -1 .. MaxObs
    /\ heard \subseteq Tx /\ heardMaxID \in 0 .. MaxTx
    /\ totalInDB \in -1 .. MaxTx /\ loadedCount \in 0 .. 2 * MaxTx
    /\ historyFailed \in BOOLEAN
    /\ chunkErrors \in 0 .. MaxFaults
    /\ signals \in BOOLEAN \X BOOLEAN \X BOOLEAN \X BOOLEAN \X BOOLEAN

LoadInit ==
    /\ hotStartup \in HotStartups
    /\ loader = "begin" /\ cursorID = 0 /\ chunk = {} /\ indexed = {}
    /\ oldestLoaded = Now /\ loadStartObsID = -1 /\ heard = {} /\ heardMaxID = 0
    /\ totalInDB = -1 /\ loadedCount = 0 /\ historyFailed = FALSE /\ chunkErrors = 0
    /\ firstChunkReady = FALSE /\ loadComplete = FALSE /\ startupLoadDone = FALSE
    /\ backgroundLoadFailed = FALSE /\ backgroundLoadDone = FALSE

\* The transmissions of a query on last_seen.
SeenSince(from) == {t \in 1 .. Len(txs) : txs[t].last >= from}
Window(from, to) == {t \in SeenSince(from) : txs[t].last < to}

HotFrom == IF hotStartup THEN HotCutoff ELSE Floor
------------------------------------------------------------------------------
\* LoadChunked up to its loop: the observation watermark comes before any row.
BeginLoad ==
    /\ loader = "begin"
    /\ loader' = "hotCount"
    /\ \/ loadStartObsID' = Len(obs) /\ UNCHANGED faults
       \/ loadStartObsID' = -1 /\ Fault
    /\ UNCHANGED <<db, store, evicted, cursorID, chunk, indexed, fillVars, signals>>

\* The count that tells afterwards whether the hot load was complete.
HotCount ==
    /\ loader = "hotCount"
    /\ loader' = "hotQuery"
    /\ \/ totalInDB' = Cardinality(SeenSince(HotFrom)) /\ UNCHANGED faults
       \/ totalInDB' = -1 /\ Fault
    /\ UNCHANGED <<db, store, evicted, cursorID, chunk, indexed, loadStartObsID, oldestLoaded,
                   heard, heardMaxID, loadedCount, historyFailed, chunkErrors, signals>>

HotQuery ==
    /\ loader = "hotQuery"
    /\ loader' = "hotMerge"
    /\ chunk' = Rows(FirstN({t \in SeenSince(HotFrom) : t > cursorID}, ChunkSize))
    /\ UNCHANGED <<db, faults, store, evicted, cursorID, indexed, loadStartObsID,
                   fillVars, signals>>

\* scanAndMergeChunk and the loop's exits: an empty or a short chunk is the last.
HotMerge ==
    /\ loader = "hotMerge"
    /\ store' = AddRows(store, chunk)
    /\ cursorID' = Max({cursorID} \union TxsOf(chunk))
    /\ firstChunkReady' = (firstChunkReady \/ chunk # {})
    /\ loader' = IF Cardinality(TxsOf(chunk)) < ChunkSize THEN "hotFinish" ELSE "hotQuery"
    /\ chunk' = {}
    /\ loadedCount' = loadedCount + Cardinality(TxsOf(chunk))
    /\ UNCHANGED <<db, faults, evicted, indexed, loadStartObsID, oldestLoaded, heard, heardMaxID,
                   totalInDB, historyFailed, chunkErrors, loadComplete, backgroundLoadFailed,
                   backgroundLoadDone, startupLoadDone>>

\* The bug of an error return that skips the StartupLoadDone signal.
HotFailsSilently ==
    /\ loader \in {"hotQuery", "hotMerge"}
    /\ Fault
    /\ loader' = "ended"
    /\ chunk' = {}
    /\ firstChunkReady' = TRUE /\ backgroundLoadFailed' = TRUE
    /\ backgroundLoadDone' = TRUE
    /\ historyFailed' = TRUE
    /\ UNCHANGED <<db, store, evicted, cursorID, indexed, loadStartObsID, oldestLoaded, heard,
                   heardMaxID, totalInDB, loadedCount, chunkErrors, loadComplete, startupLoadDone>>

\* A chunk query fails, or its rows end early: what was merged stays, and
\* RunStartupLoad returns the error with a terminal state.
HotFails ==
    /\ loader \in {"hotQuery", "hotMerge"}
    /\ Fault
    /\ \E id \in {0} \union TxsOf(chunk) : store' = AddRows(store, {r \in chunk : r.tx <= id})
    /\ loader' = "ended"
    /\ chunk' = {}
    /\ firstChunkReady' = TRUE /\ backgroundLoadFailed' = TRUE
    /\ backgroundLoadDone' = TRUE /\ startupLoadDone' = TRUE
    /\ historyFailed' = TRUE
    /\ UNCHANGED <<db, evicted, cursorID, indexed, loadStartObsID, oldestLoaded, heard, heardMaxID,
                   totalInDB, loadedCount, chunkErrors, loadComplete>>

\* The bug of leaving s.packets in id order.
HotFinishUnsorted ==
    /\ loader = "hotFinish"
    /\ oldestLoaded' = IF hotStartup THEN HotCutoff ELSE Floor
    /\ firstChunkReady' = TRUE /\ loadComplete' = TRUE
    /\ historyFailed' = (historyFailed \/ totalInDB < 0 \/ loadedCount < totalInDB)
    /\ loader' = IF hotStartup THEN "fillBegin" ELSE "verify"
    /\ cursorID' = 0 /\ loadedCount' = 0
    /\ UNCHANGED <<db, faults, store, evicted, chunk, indexed, loadStartObsID,
                   heard, heardMaxID, totalInDB, chunkErrors, backgroundLoadFailed,
                   backgroundLoadDone, startupLoadDone>>

\* The end of LoadChunked; without hot startup nothing more is loaded.  Where
\* a packet cap is set the missing rows count as capped, not as failed, which
\* verification treats alike.
HotFinish ==
    /\ loader = "hotFinish"
    /\ store' = [store EXCEPT !.packets = SortByFirstSeen(@)]
    /\ oldestLoaded' = CASE hotStartup -> HotCutoff
                         [] ~hotStartup /\ store.packets # << >> -> store'.packets[1].first
                         [] OTHER -> oldestLoaded
    /\ firstChunkReady' = TRUE /\ loadComplete' = TRUE
    /\ historyFailed' = (historyFailed \/ totalInDB < 0 \/ loadedCount < totalInDB)
    /\ loader' = IF hotStartup THEN "fillBegin" ELSE "verify"
    /\ cursorID' = 0 /\ loadedCount' = 0
    /\ UNCHANGED <<db, faults, evicted, chunk, indexed, loadStartObsID,
                   heard, heardMaxID, totalInDB, chunkErrors, backgroundLoadFailed,
                   backgroundLoadDone, startupLoadDone>>

------------------------------------------------------------------------------
\* loadBackgroundChunks: the count its coverage ratio is taken against.
FillBegin ==
    /\ loader = "fillBegin"
    /\ loader' = "fillQuery"
    /\ \/ totalInDB' = Cardinality(SeenSince(Floor)) /\ UNCHANGED faults
       \/ totalInDB' = -1 /\ Fault
    /\ UNCHANGED <<db, store, evicted, cursorID, chunk, indexed, loadStartObsID,
                   oldestLoaded, heard, heardMaxID, loadedCount, historyFailed, chunkErrors, signals>>

WindowStart == Max({oldestLoaded - 1, Floor})

\* loadChunk's query.  An empty window only moves oldestLoaded.
FillQuery ==
    /\ loader = "fillQuery" /\ oldestLoaded > Floor
    /\ chunk' = Rows(Window(WindowStart, oldestLoaded))
    /\ indexed' = {}
    /\ loader' = IF chunk' = {} THEN "fillQuery" ELSE "fillIndex"
    /\ oldestLoaded' = IF chunk' = {} THEN WindowStart ELSE oldestLoaded
    /\ UNCHANGED <<db, faults, store, evicted, cursorID, loadStartObsID, heard, heardMaxID,
                   totals, chunkErrors, signals>>

\* A window that fails is counted and passed over: the loop always ends.
FillFails ==
    /\ loader = "fillQuery" /\ oldestLoaded > Floor
    /\ Fault
    /\ chunkErrors' = chunkErrors + 1
    /\ oldestLoaded' = WindowStart
    /\ UNCHANGED <<db, store, evicted, loader, cursorID, chunk, indexed, loadStartObsID,
                   heard, heardMaxID, totals, signals>>

\* One batch of the chunk, in the order of first_seen, enters the index.
FillIndex ==
    /\ loader = "fillIndex" /\ indexed # TxsOf(chunk)
    /\ LET todo == {r \in chunk : r.tx \notin indexed}
       IN  \E batch \in SUBSET todo :
              /\ Cardinality(batch) = Min({MergeBatch, Cardinality(todo)})
              /\ \A r \in batch, q \in todo \ batch : r.first <= q.first
              /\ store' = IndexRows(store, batch)
              /\ indexed' = indexed \union TxsOf(batch)
    /\ UNCHANGED <<db, faults, evicted, loader, cursorID, chunk, loadStartObsID,
                   fillVars, signals>>

\* The bug of publishing a chunk before all of it is indexed.
FillPublishEarly ==
    /\ loader = "fillIndex"
    /\ \E skipped \in Boundaries(store.packets, Min({r.first : r \in chunk})) :
          store' = PublishRows(store, chunk, skipped)
    /\ chunk' = {} /\ indexed' = {}
    /\ oldestLoaded' = IF heard = {} THEN WindowStart ELSE oldestLoaded
    /\ loader' = IF heard = {} THEN "fillQuery" ELSE "fillFinish"
    /\ UNCHANGED <<db, faults, evicted, cursorID, loadStartObsID, heard, heardMaxID, totals,
                   chunkErrors, signals>>

\* The chunk is published; a window also moves oldestLoaded.  "heard" is not
\* empty only while the re-heard transmissions load.
FillPublish ==
    /\ loader = "fillIndex" /\ indexed = TxsOf(chunk)
    /\ \E skipped \in Boundaries(store.packets, Min({r.first : r \in chunk})) :
          store' = PublishRows(store, chunk, skipped)
    /\ chunk' = {} /\ indexed' = {}
    /\ oldestLoaded' = IF heard = {} THEN WindowStart ELSE oldestLoaded
    /\ loader' = IF heard = {} THEN "fillQuery" ELSE "fillFinish"
    /\ UNCHANGED <<db, faults, evicted, cursorID, loadStartObsID, heard, heardMaxID, totals,
                   chunkErrors, signals>>

\* The bug of #509: no second look at what was heard again.
ReheardSkipped ==
    /\ loader = "fillQuery" /\ oldestLoaded <= Floor
    /\ heardMaxID' = store.maxTxID
    /\ loader' = "fillFinish"
    /\ UNCHANGED <<db, faults, store, evicted, cursorID, chunk, indexed, loadStartObsID,
                   oldestLoaded, heard, totals, chunkErrors, signals>>

\* loadReheardTransmissions: the candidates (none without a watermark) ...
ReheardQuery ==
    /\ loader = "fillQuery" /\ oldestLoaded <= Floor
    /\ heardMaxID' = store.maxTxID
    /\ LET since == {obs[o] : o \in {o \in 1 .. Len(obs) : o > loadStartObsID}}
       IN  heard' = IF loadStartObsID < 0 THEN {} ELSE {t \in since : t <= heardMaxID'}
    /\ loader' = IF heard' = {} THEN "fillFinish" ELSE "reheard"
    /\ UNCHANGED <<db, faults, store, evicted, cursorID, chunk, indexed, loadStartObsID,
                   oldestLoaded, totals, chunkErrors, signals>>

\* ... of which those not in memory are selected ...
ReheardMissing ==
    /\ loader = "reheard"
    /\ heard' = {t \in heard : ~InMemory(t)}
    /\ loader' = IF heard' = {} THEN "fillFinish" ELSE "reheardQuery"
    /\ UNCHANGED <<db, faults, store, evicted, cursorID, chunk, indexed, loadStartObsID,
                   oldestLoaded, heardMaxID, totals, chunkErrors, signals>>

\* ... and loaded as a background chunk is.
ReheardLoad ==
    /\ loader = "reheardQuery"
    /\ chunk' = Rows(heard)
    /\ indexed' = {}
    /\ loader' = "fillIndex"
    /\ UNCHANGED <<db, faults, store, evicted, cursorID, loadStartObsID, fillVars, signals>>

\* An error of any of its queries only leaves rows missing.
ReheardFails ==
    /\ \/ loader = "fillQuery" /\ oldestLoaded <= Floor
       \/ loader = "reheardQuery"
    /\ Fault
    /\ loader' = "fillFinish"
    /\ UNCHANGED <<db, store, evicted, cursorID, chunk, indexed, loadStartObsID,
                   fillVars, signals>>

\* How many rows are in memory, read before the retained history is verified;
\* with a failed window or count it is not verified at all.
FillMeasure ==
    /\ loader = "fillFinish"
    /\ loadedCount' = Len(store.packets)
    /\ heard' = {}
    /\ loader' = IF chunkErrors = 0 /\ totalInDB >= 0 THEN "verify" ELSE "finish"
    /\ UNCHANGED <<db, faults, store, evicted, cursorID, chunk, indexed, loadStartObsID,
                   oldestLoaded, heardMaxID, totalInDB, historyFailed, chunkErrors, signals>>

\* The bug of #1690: done once the windows are walked, whatever was loaded.
FinishUngated(verified) ==
    /\ loader = "finish"
    /\ backgroundLoadFailed' = (chunkErrors > 0)
    /\ backgroundLoadDone' = ~backgroundLoadFailed'
    /\ startupLoadDone' = TRUE
    /\ loader' = "ended"
    /\ loadedCount' = 0
    /\ UNCHANGED <<db, faults, store, evicted, cursorID, chunk, indexed, loadStartObsID,
                   oldestLoaded, heard, heardMaxID, totalInDB, historyFailed, chunkErrors,
                   firstChunkReady, loadComplete>>

\* The coverage gate of the background fill: below 90 % of totalInDB, or after
\* a failed window, the load is failed and never "done".  Without a fill the
\* load is done.  StartupLoadDone is closed in any case.
Finish(verified) ==
    /\ loader = "finish"
    /\ backgroundLoadFailed' =
           (hotStartup /\ (\/ totalInDB > 0 /\ 10 * loadedCount < 9 * totalInDB
                           \/ chunkErrors > 0))
    /\ historyFailed' =
           (\/ historyFailed
            \/ hotStartup /\ (chunkErrors > 0 \/ totalInDB < 0 \/ (totalInDB > 0 /\ ~verified)))
    /\ backgroundLoadDone' = ~backgroundLoadFailed'
    /\ startupLoadDone' = TRUE
    /\ loader' = "ended"
    /\ loadedCount' = 0
    /\ UNCHANGED <<db, faults, store, evicted, cursorID, chunk, indexed, loadStartObsID,
                   oldestLoaded, heard, heardMaxID, totalInDB, chunkErrors,
                   firstChunkReady, loadComplete>>

LoaderNext ==
    \/ BeginLoad \/ HotCount \/ HotQuery \/ HotMerge \/ HotFails \/ HotFinish
    \/ FillBegin \/ FillQuery \/ FillFails \/ FillIndex \/ FillPublish
    \/ ReheardQuery \/ ReheardMissing \/ ReheardLoad \/ ReheardFails \/ FillMeasure
==============================================================================
