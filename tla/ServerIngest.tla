----------------------------- MODULE ServerIngest -----------------------------
(***************************************************************************)
(* The server's way from SQLite into memory, composed: the ingestor keeps  *)
(* writing while RunStartupLoad loads history, the poller (started as soon *)
(* as the first chunk is in) follows new rows, and the eviction ticker     *)
(* removes old ones, all on one PacketStore.                               *)
(***************************************************************************)
EXTENDS RetainedHistory, LivePoller

CONSTANTS History,   \* the rows transmissions may hold when the server starts
          InitTx     \* how many of them there are

ASSUME HistoryAssumption ==
    /\ InitTx \in 0 .. MaxTx /\ InitTx <= MaxObs
    /\ History \subseteq {r \in [first : Stamp, last : Stamp] : r.first <= r.last}

VARIABLE retainedAtStart   \* history: the rows the load must bring into memory

vars == <<db, faults, store, evicted, loadVars, verifyVars, pollVars, retainedAtStart>>

\* InitTx transmissions of the history, each observed once.
Init ==
    /\ txs \in [1 .. InitTx -> History]
    /\ obs = [o \in 1 .. InitTx |-> o]
    /\ writer = Idle /\ faults = 0
    /\ store = EmptyStore /\ evicted = {}
    /\ LoadInit /\ VerifyInit /\ PollInit
    /\ retainedAtStart = {}

Write == WriterNext /\ UNCHANGED <<store, evicted, loadVars, verifyVars, pollVars, retainedAtStart>>

\* When the load begins, a transmission whose observation is written but whose
\* last_seen is not yet bumped is not counted on: see RehearingsAreSeen.
Load ==
    /\ \/ (LoaderNext \/ Finish(retainedFrom # Unproven)) /\ UNCHANGED verifyVars
       \/ VerifyNext
    /\ retainedAtStart' =
          IF loader = "begin"
          THEN {t \in SeenSince(Floor) : ~(writer.pc = "bump" /\ writer.tx = t)}
          ELSE retainedAtStart
    /\ UNCHANGED <<hotStartup, pollVars>>

Poll == (StartPoller(firstChunkReady) \/ PollTick) /\ UNCHANGED <<loadVars, verifyVars, retainedAtStart>>

\* RunEviction, on a ticker that main starts after the poller.
RunEviction ==
    /\ poller # "unstarted"
    /\ EvictStale
    /\ UNCHANGED <<db, faults, loadVars, verifyVars, pollVars, retainedAtStart>>

Next == Write \/ Load \/ Poll \/ RunEviction

Spec == Init /\ [][Next]_vars

\* Each goroutine goes on: the Go scheduler and sync.RWMutex starve nobody, a
\* tick follows a tick, and InsertTransmission finishes the packet in hand.
\* Every step of one changes its own variables.
FairSpec ==
    /\ Spec
    /\ WF_loadVars(Load) /\ WF_pollVars(Poll)
    /\ WF_db((WriteObservation \/ BumpLastSeen)
             /\ UNCHANGED <<store, evicted, loadVars, verifyVars, pollVars, retainedAtStart>>)
------------------------------------------------------------------------------
\* Types, and the history variables.
TypeOK ==
    /\ DBTypeOK /\ StoreTypeOK /\ LoadTypeOK /\ VerifyTypeOK /\ PollTypeOK
    /\ retainedAtStart \subseteq Tx

\* The #1187 invariant of loadChunkWhere: at every instant a reader may hold
\* s.mu, each transmission of s.packets is there once and is the one that
\* byHash/byTxID lead to; and only an unpublished chunk is in the index alone.
PacketsIndexed ==
    /\ \A i \in DOMAIN store.packets :
          store.index[store.packets[i].tx] = store.packets[i].by
    /\ \A i, j \in DOMAIN store.packets :
          store.packets[i].tx = store.packets[j].tx => i = j
    /\ \A t \in Tx : InMemory(t) =>
          \/ \E i \in DOMAIN store.packets : store.packets[i].tx = t
          \/ t \in indexed

\* s.totalObs is the number of observations the store holds.  While a chunk
\* is indexed but not published, the poller may already add observations to
\* its transmissions, and only those are counted.
CountersAgree ==
    LET listed == HeldBy(store, DOMAIN store.packets)
        unlisted == {p \in indexed \X Obs : p[2] \in store.held[p[1]]["filled"]}
        uncounted == UNION {r.obs : r \in {q \in chunk : q.tx \in indexed}}
    IN  store.totalObs = listed + Cardinality(unlisted) - Cardinality(uncounted)

\* The transmission cursor never passes a row that is not in memory, whatever
\* the chunk loader, the limit and the eviction do meanwhile.
CursorCovers ==
    \A t \in startID + 1 .. lastID :
        poller # "unstarted" => InMemory(t) \/ t \in evicted

\* Nor does the observation cursor: an observation it has passed is held if
\* its transmission is (#174), for the transmissions the poller ingested.  (A
\* failed query is only logged, and the cursor moves on.)
ObsCursorCovers ==
    faults = 0 =>
        \A o \in 1 .. lastObsID :
            /\ obs[o] \in startID + 1 .. lastID
            /\ InMemory(obs[o]) /\ obs[o] \notin evicted
            => o \in HeldObs(obs[o])

\* EvictStale and countRetainedSinceLocked rely on it: from the end of the
\* hot load on, s.packets is ordered by first_seen.
PacketsSorted ==
    loadComplete =>
        \A i, j \in DOMAIN store.packets :
            i < j => store.packets[i].first <= store.packets[j].first

\* After a load without errors, every row of the retention window is or was
\* in memory, although re-hearings move rows out of the windows still to be
\* read (#509); the one gap, with hot startup, is a re-heard row above the
\* highest loaded id.
HistoryLoaded ==
    loader = "ended" /\ loadComplete /\ faults = 0 =>
        \A t \in retainedAtStart :
            \/ InMemory(t) \/ t \in evicted
            \/ /\ hotStartup /\ t > heardMaxID
               /\ \E o \in 1 .. Len(obs) : o > loadStartObsID /\ obs[o] = t

\* A store that says "done" holds nine tenths of the retention window, or has
\* evicted rows, or could not count them (#1690).
DoneMeansCovered ==
    backgroundLoadDone /\ ~backgroundLoadFailed /\ totalInDB >= 0 =>
        10 * Cardinality({t \in Tx : InMemory(t)} \union evicted) >= 9 * totalInDB

\* What the verification proves is true, then and later: from the instant that
\* a reader takes as the start of complete history (#509) every transmission up
\* to the id it was verified for is in memory, although the two counts are
\* taken at different times and eviction and poller go on.  Memory eviction
\* may split the rows of the one instant where the remaining history begins.
CoverageIsTrue ==
    CoverageStart # Unproven =>
        \A t \in 1 .. check.maxID :
            \/ txs[t].first < CoverageStart \/ InMemory(t)
            \/ MaxMemory > 0 /\ txs[t].first = CoverageStart /\ t \in evicted

\* The poller did not start over history: when its query for the highest id
\* fails before the load is through, the store's floor lies below it.
NotReplayed == poller # "unstarted" => startID >= InitTx

\* Memory eviction took a transmission written since the poller started that
\* the hot load had brought in: the poller will ingest it, and the look at
\* re-heard rows finds it missing until then, so both may bring it back.
EvictedAhead == \E t \in evicted : startID < t /\ t <= heardMaxID

\* Failed queries and inserts, at any point, leave rows out but never make
\* the slice, the index and the counters disagree -- unless the poller replays,
\* or takes a row after the look at re-heard rows found it evicted.
ConsistentUnlessReplayed ==
    NotReplayed /\ ~EvictedAhead => PacketsIndexed /\ CountersAgree /\ PacketsSorted

\* RunStartupLoad ends on every path, and its end is never taken back, so the
\* recomputers always wake (#116).
LoadEnds == <>[]startupLoadDone

\* What is written after the poller started reaches memory: the ingestor's
\* writes are bounded, so from some time on nothing of it is missing.
NewTransmissionsArrive ==
    <>[](poller # "unstarted" =>
             \A t \in startID + 1 .. Len(txs) : InMemory(t) \/ t \in evicted)
------------------------------------------------------------------------------
\* What history_coverage.go says of re-hearings: each writes an observation
\* with an id above the one the load began with, so no re-heard row stays missing.
RehearingsAreSeen ==
    loader = "ended" /\ loadComplete /\ faults = 0 /\ evicted = {} =>
        \A t \in retainedAtStart : t <= heardMaxID => InMemory(t)

\* What loadChunkWhere asks of its callers: no transmission is merged twice.
NotMergedTwice ==
    \A i, j \in DOMAIN store.packets :
        store.packets[i].tx = store.packets[j].tx => i = j

\* What verifyRetainedHistory says it returns, the start of a history that is
\* complete: with every row the poller will not ingest any more.
CoverageIsComplete ==
    CoverageStart # Unproven /\ poller # "unstarted" =>
        \A t \in 1 .. startID : txs[t].first > CoverageStart => InMemory(t)

\* What IngestNewObservations says it does: catch every observation that
\* arrives once the cursor has passed its transmission (here: since the load
\* began, of transmissions no cursor will meet again).
ObservationsCaught ==
    \A o \in 1 .. lastObsID :
        /\ o > loadStartObsID /\ obs[o] <= lastID
        /\ InMemory(obs[o]) /\ obs[o] \notin evicted
        => o \in HeldObs(obs[o])
==============================================================================
