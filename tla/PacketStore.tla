----------------------------- MODULE PacketStore -----------------------------
(***************************************************************************)
(* The server's in-memory packet store (cmd/server/store.go): the slice    *)
(* s.packets, the index byHash/byTxID, the per-transmission observations   *)
(* and the counters, and the operations on them.  Each operation is one    *)
(* critical section of s.mu, so it is an operator from a store to a store; *)
(* the loaders and the poller apply them.                                  *)
(*                                                                         *)
(* A StoreTx is identified by its transmission and by who built it: one    *)
(* that CreateRows built ("merged") or one a background chunk built        *)
(* outside the lock ("filled").  Hash and id name the same row, so byHash  *)
(* and byTxID are one index.  The remaining indexes (byNode, byObserver,   *)
(* byPathHop ...) hold what these hold and are left out.                   *)
(***************************************************************************)
EXTENDS ObservationDB

CONSTANTS Floor,      \* the retention cutoff, a time
          MaxMemory   \* maxMemoryMB, in units of one transmission or observation

ASSUME StoreAssumption == Floor \in Stamp /\ MaxMemory \in Nat

VARIABLES store,     \* the PacketStore
          evicted    \* history: transmissions ever evicted

Maker == {"merged", "filled"}
Entry == [tx : Tx, by : Maker, first : Stamp]

EmptyStore == [packets |-> << >>,
               index |-> [t \in Tx |-> "none"],
               held |-> [t \in Tx |-> [m \in Maker |-> {}]],
               totalObs |-> 0, maxTxID |-> 0, maxObsID |-> 0,
               evictedFrom |-> 0]

StoreTypeOK ==
    /\ store.packets \in Seq(Entry)
    /\ store.index \in [Tx -> Maker \union {"none"}]
    /\ store.held \in [Tx -> [Maker -> SUBSET Obs]]
    /\ store.totalObs \in Int
    /\ store.maxTxID \in 0 .. MaxTx /\ store.maxObsID \in 0 .. MaxObs
    /\ store.evictedFrom \in 0 .. Now + 1
    /\ evicted \subseteq Tx

InMemory(t) == store.index[t] # "none"
HeldObs(t) == IF InMemory(t) THEN store.held[t][store.index[t]] ELSE {}
------------------------------------------------------------------------------
\* The bug of counting observations without the duplicate check.
AddObservationsUnchecked(s, os) ==
    LET new == {o \in os : s.index[obs[o]] # "none"}
    IN  [s EXCEPT !.held = [t \in Tx |-> [m \in Maker |->
                               s.held[t][m] \union {o \in new : obs[o] = t /\ s.index[t] = m}]],
                  !.totalObs = @ + Cardinality(new),
                  !.maxObsID = Max({@} \union new)]

\* lookupObservation then addObservation: of the observations os, those whose
\* transmission is indexed and does not hold them yet are added and counted.
AddObservations(s, os) ==
    LET new == {o \in os : /\ s.index[obs[o]] # "none"
                           /\ o \notin s.held[obs[o]][s.index[obs[o]]]}
    IN  [s EXCEPT !.held = [t \in Tx |-> [m \in Maker |->
                               s.held[t][m] \union {o \in new : obs[o] = t /\ s.index[t] = m}]],
                  !.totalObs = @ + Cardinality(new),
                  !.maxObsID = Max({@} \union new)]

\* The members of a finite set, one after the other as the pairs "before" say.
Arranged(S, before) ==
    [k \in 1 .. Cardinality(S) |->
        CHOOSE x \in S : Cardinality({y \in S : <<y, x>> \in before}) = k - 1]

\* The s.packets entries of a set of rows, in id order.
Entries(rows, by) ==
    LET sorted == Arranged(rows, {p \in rows \X rows : p[1].tx < p[2].tx})
    IN  [i \in 1 .. Cardinality(rows) |->
            [tx |-> sorted[i].tx, by |-> by, first |-> sorted[i].first]]

\* The transmissions of scanAndMergeChunk or IngestNewFromDB that byHash does
\* not have yet are created and appended to s.packets.
CreateRows(s, rows) ==
    LET fresh == {r \in rows : s.index[r.tx] = "none"}
    IN  [s EXCEPT !.packets = @ \o Entries(fresh, "merged"),
                  !.index = [t \in Tx |-> IF t \in TxsOf(fresh) THEN "merged" ELSE s.index[t]],
                  !.held = [t \in Tx |-> [m \in Maker |->
                               IF m = "merged" /\ t \in TxsOf(fresh) THEN {} ELSE s.held[t][m]]],
                  !.maxTxID = Max({@} \union TxsOf(fresh))]

\* Then every row's observations are added, known transmission or not.
AddRows(s, rows) == AddObservations(CreateRows(s, rows), UNION {r.obs : r \in rows})
------------------------------------------------------------------------------
\* The entries in another order, given by the pairs of positions that say which
\* of two goes first.
Reordered(packets, before) ==
    LET order == Arranged(1 .. Len(packets), before)
    IN  [k \in 1 .. Len(packets) |-> packets[order[k]]]

Pairs(n) == (1 .. n) \X (1 .. n)

\* sort.SliceStable by FirstSeen.
SortByFirstSeen(packets) ==
    Reordered(packets,
              {p \in Pairs(Len(packets)) :
                  \/ packets[p[1]].first < packets[p[2]].first
                  \/ packets[p[1]].first = packets[p[2]].first /\ p[1] < p[2]})

\* Where sort.Search may stop: between an entry before the bound and one that
\* is not.  In a sorted slice there is one such place; in another one, any.
Boundaries(packets, bound) ==
    {k \in 0 .. Len(packets) :
        /\ k > 0 => packets[k].first < bound
        /\ k < Len(packets) => packets[k + 1].first >= bound}

\* mergeSortedRuns: the existing entries that the binary search skipped stay in
\* front, then the two runs are merged.  An incoming entry goes ahead of an
\* existing one when it is not younger than it, or than one before it.
MergeByFirstSeen(existing, incoming, skipped) ==
    LET n == Len(existing)
        all == existing \o incoming
        ahead(j, i) == \E h \in skipped + 1 .. i : all[j].first <= all[h].first
    IN  Reordered(all,
                  {p \in Pairs(Len(all)) :
                      \/ (p[1] <= n <=> p[2] <= n) /\ p[1] < p[2]
                      \/ p[1] > n /\ p[2] <= n /\ ahead(p[1], p[2])
                      \/ p[1] <= n /\ p[2] > n /\ ~ahead(p[2], p[1])})

\* loadChunkWhere: a batch of rows enters the index first; an index entry
\* that exists is kept ...
IndexRows(s, rows) ==
    [s EXCEPT !.index = [t \in Tx |-> IF t \in TxsOf(rows) /\ s.index[t] = "none"
                                      THEN "filled" ELSE s.index[t]],
              !.held = [t \in Tx |-> [m \in Maker |->
                           IF m = "filled" /\ t \in TxsOf(rows)
                           THEN UNION {r.obs : r \in {q \in rows : q.tx = t}}
                           ELSE s.held[t][m]]]]

\* ... and one last critical section publishes the whole chunk.
PublishRows(s, rows, skipped) ==
    LET all == UNION {r.obs : r \in rows}
        incoming == SortByFirstSeen(Entries(rows, "filled"))
    IN  [s EXCEPT !.packets = MergeByFirstSeen(@, incoming, skipped),
                  !.totalObs = @ + Cardinality(all),
                  !.maxTxID = Max({@} \union TxsOf(rows)),
                  !.maxObsID = Max({@} \union all)]
------------------------------------------------------------------------------
\* EvictStale.  Memory is what trackedBytes charges: a unit for each
\* transmission in s.packets and each counted observation.
HeldBy(s, positions) ==
    Cardinality({p \in positions \X Obs :
                    p[2] \in s.held[s.packets[p[1]].tx][s.packets[p[1]].by]})
Accounted(s) == Len(s.packets) + s.totalObs
LowWatermark == (MaxMemory * 85) \div 100

\* How many entries from the head are older than the retention window.
Expired(s) ==
    Max({0} \union {k \in 1 .. Len(s.packets) :
                       \A i \in 1 .. k : s.packets[i].first < Floor})

\* Memory eviction walks on from there until the low watermark is reached,
\* and is capped at a quarter of the packets (at least one).
MemoryCutoff(s) ==
    LET n == Len(s.packets)
        from == Expired(s)
        freed(k) == (k - from) + HeldBy(s, from + 1 .. k)
        stop == Min({n} \union {k \in from .. n : Accounted(s) - freed(k) <= LowWatermark})
    IN  Min({stop, Max({1, n \div 4})})

EvictCount(s) ==
    IF MaxMemory > 0 /\ Accounted(s) > MaxMemory /\ s.packets # << >>
    THEN Max({Expired(s), MemoryCutoff(s)})
    ELSE Expired(s)

\* The bug of trimming s.packets and leaving the index as it is.
EvictHeadKeepsIndex(s, k) ==
    [s EXCEPT !.packets = SubSeq(@, k + 1, Len(@)),
              !.totalObs = @ - HeldBy(s, 1 .. k)]

\* Evicted rows lie below evictedFrom (invalidateNodeAnalyticsEvictionLocked).
EvictHead(s, k) ==
    LET gone == {s.packets[i] : i \in 1 .. k}
        txsGone == {e.tx : e \in gone}
    IN  [s EXCEPT !.packets = SubSeq(@, k + 1, Len(@)),
                  !.index = [t \in Tx |-> IF t \in txsGone THEN "none" ELSE s.index[t]],
                  !.held = [t \in Tx |-> [m \in Maker |->
                              IF \E e \in gone : e.tx = t /\ e.by = m THEN {} ELSE s.held[t][m]]],
                  !.evictedFrom = Max({@} \union {e.first + 1 : e \in gone}),
                  !.totalObs = @ - HeldBy(s, 1 .. k)]

EvictStale ==
    LET k == EvictCount(store)
    IN  /\ k > 0
        /\ store' = EvictHead(store, k)
        /\ evicted' = evicted \union {store.packets[i].tx : i \in 1 .. k}
==============================================================================
