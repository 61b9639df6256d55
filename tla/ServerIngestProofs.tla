-------------------------- MODULE ServerIngestProofs --------------------------
(***************************************************************************)
(* For any tables, limits and SQLite errors: the poller's two cursors pass *)
(* only what is in memory or was evicted, and (while every observation is  *)
(* a row of its own) the startup load leaves out only the rows of the gap  *)
(* HistoryLoaded names.  The first argument is about what a query's rows   *)
(* say when they are merged later: they follow the cursor without a gap,   *)
(* and the background fill, which replaces the observations of an entry it *)
(* made, never meets a row twice (FilledOnce).  The second says where each *)
(* row still missing will be met: by the hot cursor, in a window not yet   *)
(* read, or among the re-heard rows.                                       *)
(*                                                                         *)
(* While no upload is late (RxTimes is Now alone): the slice, the index    *)
(* and the running total agree (StoreInv: what the fill has in hand is in  *)
(* nobody else's, so each row is listed once), a load that ends as done    *)
(* loaded nine tenths (LoadInv), and a proved coverage is and stays true   *)
(* (CoverInv: equal counts of a set and of its image mean no row missing). *)
(***************************************************************************)
EXTENDS ServerIngest, FiniteSetTheorems, SequenceTheorems, WellFoundedInduction, TLAPS

\* Every nonempty set of naturals has a least element.
LEMMA LeastNatural ==
    ASSUME NEW S \in SUBSET Nat, S # {}
    PROVE  \E m \in S : \A k \in S : m <= k
<1> DEFINE Less == OpToRel(<, Nat)
<1>1. IsWellFoundedOn(Less, Nat)
  BY NatLessThanWellFounded
<1>2. PICK m \in S : \A k \in S : ~(<<k, m>> \in Less)
  <2> HIDE DEF Less
  <2> QED
    BY <1>1, WFMin
<1>3. \A k \in S : ~(k < m)
  BY <1>2 DEF OpToRel
<1> QED
  BY <1>3

\* A nonempty bounded set of naturals has a greatest element, and Max is it.
LEMMA MaxIs ==
    ASSUME NEW N \in Nat, NEW S \in SUBSET (0 .. N), S # {}
    PROVE  Max(S) \in S /\ \A x \in S : x <= Max(S)
<1> DEFINE D == {N - x : x \in S}
<1>0. PICK x0 \in S : TRUE
  OBVIOUS
<1>1. D \subseteq Nat /\ N - x0 \in D
  <2>1. \A x \in S : x \in 0 .. N /\ N - x \in Nat
    OBVIOUS
  <2> QED
    BY <2>1
<1>2. PICK d \in D : \A e \in D : d <= e
  <2> HIDE DEF D
  <2> QED
    BY <1>1, LeastNatural
<1>3. PICK m \in S : d = N - m
  BY <1>2
<1>4. \A x \in S : x <= m
  <2> SUFFICES ASSUME NEW x \in S PROVE x <= m
    OBVIOUS
  <2>1. N - m <= N - x
    BY <1>2, <1>3
  <2> QED
    BY <2>1
<1>5. \E y \in S : \A x \in S : y >= x
  BY <1>4
<1> QED
  BY <1>5 DEF Max

\* The ids below one that LIMIT n returns are returned with it.
LEMMA FirstNClosed ==
    ASSUME NEW ids \in SUBSET Nat, IsFiniteSet(ids), NEW n \in Nat,
           NEW x \in FirstN(ids, n), NEW y \in ids, y <= x
    PROVE  y \in FirstN(ids, n)
<1> DEFINE under(z) == {w \in ids : w < z}
<1>0. x \in Nat /\ y \in Nat /\ y <= x
  BY DEF FirstN
<1>1. under(y) \subseteq under(x) /\ under(x) \subseteq ids
  <2>1. \A w \in ids : w < y => w < x
    BY <1>0
  <2> QED
    BY <2>1
<1>2. Cardinality(under(x)) < n
  BY DEF FirstN
<1>3. IsFiniteSet(under(x))
  BY <1>1, FS_Subset
<1>4. Cardinality(under(y)) <= Cardinality(under(x))
      /\ Cardinality(under(y)) \in Nat /\ Cardinality(under(x)) \in Nat
  BY <1>1, <1>3, FS_Subset, FS_CardinalityType
<1>5. Cardinality(under(y)) < n
  <2> HIDE DEF under
  <2> QED
    BY <1>2, <1>4
<1> QED
  BY <1>5 DEF FirstN

\* A result shorter than its LIMIT is the whole of it.
LEMMA ShortIsAll ==
    ASSUME NEW ids \in SUBSET Nat, IsFiniteSet(ids), NEW n \in Nat,
           Cardinality(FirstN(ids, n)) < n
    PROVE  FirstN(ids, n) = ids
<1> SUFFICES ASSUME NEW z \in ids \ FirstN(ids, n) PROVE FALSE
  BY DEF FirstN
<1>1. PICK x \in ids \ FirstN(ids, n) : \A y \in ids \ FirstN(ids, n) : x <= y
  <2>1. ids \ FirstN(ids, n) \in SUBSET Nat
    OBVIOUS
  <2> QED
    BY <2>1, LeastNatural
<1> DEFINE lower == {w \in ids : w < x}
<1>2. lower \subseteq FirstN(ids, n)
  <2> SUFFICES ASSUME NEW w \in ids, w < x PROVE w \in FirstN(ids, n)
    OBVIOUS
  <2> QED
    BY <1>1
<1>3. FirstN(ids, n) \subseteq ids /\ IsFiniteSet(FirstN(ids, n))
  <2>1. FirstN(ids, n) \subseteq ids
    BY DEF FirstN
  <2> QED
    BY <2>1, FS_Subset
<1>4. Cardinality(lower) <= Cardinality(FirstN(ids, n))
      /\ Cardinality(lower) \in Nat /\ Cardinality(FirstN(ids, n)) \in Nat
  BY <1>2, <1>3, FS_Subset, FS_CardinalityType
<1>5. ~(Cardinality(lower) < n)
  BY <1>1 DEF FirstN
<1> QED
  BY <1>4, <1>5

------------------------------------------------------------------------------
\* The shape of a PacketStore; s.packets is whatever the merges made of it.
Store(s) ==
    /\ s = [packets |-> s.packets, index |-> s.index, held |-> s.held,
            totalObs |-> s.totalObs, maxTxID |-> s.maxTxID, maxObsID |-> s.maxObsID,
            evictedFrom |-> s.evictedFrom]
    /\ s.index \in [Tx -> Maker \union {"none"}]
    /\ s.held \in [Tx -> [Maker -> SUBSET Nat]]
    /\ s.maxTxID \in 0 .. Len(txs) /\ s.maxObsID \in 0 .. Len(obs)

\* Rows as a query returns them: of transmissions that exist, with some of
\* their observations.
RowsOK(rows) ==
    \A r \in rows : r.tx \in 1 .. Len(txs) /\ r.obs \subseteq ObsOf(r.tx)

\* The types of the two tables.
DBTypes ==
    /\ txs \in Seq([first : Stamp, last : Stamp]) /\ Len(txs) <= MaxTx
    /\ obs \in Seq(Tx) /\ Len(obs) <= MaxObs
    /\ \A o \in 1 .. Len(obs) : obs[o] \in 1 .. Len(txs)

\* What addObservation does to a store.
LEMMA AddObservationsStore ==
    ASSUME DBTypes, NEW s, Store(s), NEW os \in SUBSET (1 .. Len(obs))
    PROVE  /\ Store(AddObservations(s, os))
           /\ AddObservations(s, os).index = s.index
           /\ AddObservations(s, os).packets = s.packets
           /\ AddObservations(s, os).maxTxID = s.maxTxID
           /\ \A t \in Tx, m \in Maker : s.held[t][m] \subseteq AddObservations(s, os).held[t][m]
           /\ \A o \in os : s.index[obs[o]] # "none" =>
                 o \in AddObservations(s, os).held[obs[o]][s.index[obs[o]]]
<1> DEFINE new == {o \in os : /\ s.index[obs[o]] # "none"
                              /\ o \notin s.held[obs[o]][s.index[obs[o]]]}
           held == [t \in Tx |-> [m \in Maker |->
                       s.held[t][m] \union {o \in new : obs[o] = t /\ s.index[t] = m}]]
           a == AddObservations(s, os)
<1>0. MaxObs \in Nat /\ Len(obs) \in Nat /\ new \subseteq 1 .. Len(obs)
  <2>1. MaxObs \in Nat
    BY DBAssumption
  <2>2. Len(obs) \in Nat
    BY DEF DBTypes
  <2>3. new \subseteq os
    OBVIOUS
  <2> HIDE DEF new
  <2> QED
    BY <2>1, <2>2, <2>3
<1>1. a = [s EXCEPT !.held = held, !.totalObs = @ + Cardinality(new),
                    !.maxObsID = Max({@} \union new)]
  BY DEF AddObservations
<1>2. held \in [Tx -> [Maker -> SUBSET Nat]]
  BY <1>0 DEF Store
<1>3. Max({s.maxObsID} \union new) \in 0 .. Len(obs)
  <2> DEFINE S == {s.maxObsID} \union new
  <2>1. S \in SUBSET (0 .. Len(obs)) /\ S # {}
    BY <1>0 DEF Store
  <2> HIDE DEF S
  <2>2. Max(S) \in S
    BY <1>0, <2>1, MaxIs
  <2> QED
    BY <2>1, <2>2 DEF S
<1> HIDE DEF held, new
<1>4. /\ a = [packets |-> s.packets, index |-> s.index, held |-> held,
              totalObs |-> s.totalObs + Cardinality(new), maxTxID |-> s.maxTxID,
              maxObsID |-> Max({s.maxObsID} \union new), evictedFrom |-> s.evictedFrom]
  BY <1>1 DEF Store
<1> HIDE DEF a
<1>5. Store(a) /\ a.index = s.index /\ a.packets = s.packets /\ a.maxTxID = s.maxTxID
      /\ a.held = held
  BY <1>2, <1>3, <1>4 DEF Store
<1>6. \A t \in Tx, m \in Maker : s.held[t][m] \subseteq held[t][m]
  BY DEF held
<1>7. ASSUME NEW o \in os, s.index[obs[o]] # "none"
      PROVE  o \in held[obs[o]][s.index[obs[o]]]
  <2>1. obs[o] \in Tx /\ s.index[obs[o]] \in Maker
    BY <1>0, <1>7 DEF DBTypes, Store
  <2> QED
    BY <1>7, <2>1 DEF held, new
<1> QED
  BY <1>5, <1>6, <1>7 DEF a

\* What scanAndMergeChunk and IngestNewFromDB do to a store: every row ends up
\* in the index and holds its observations; nothing leaves.
LEMMA AddRowsStore ==
    ASSUME DBTypes, NEW s, Store(s), NEW rows, RowsOK(rows)
    PROVE  LET a == AddRows(s, rows)
           IN  /\ Store(a)
               /\ a.index = [t \in Tx |-> IF t \in TxsOf(rows) /\ s.index[t] = "none"
                                          THEN "merged" ELSE s.index[t]]
               /\ \A t \in Tx : s.index[t] # "none" =>
                     s.held[t][s.index[t]] \subseteq a.held[t][s.index[t]]
               /\ \A r \in rows : r.obs \subseteq a.held[r.tx][a.index[r.tx]]
<1> DEFINE fresh == {r \in rows : s.index[r.tx] = "none"}
           index == [t \in Tx |-> IF t \in TxsOf(fresh) THEN "merged" ELSE s.index[t]]
           held == [t \in Tx |-> [m \in Maker |->
                       IF m = "merged" /\ t \in TxsOf(fresh) THEN {} ELSE s.held[t][m]]]
           c == CreateRows(s, rows)
           os == UNION {r.obs : r \in rows}
           a == AddRows(s, rows)
<1>0. MaxTx \in Nat /\ Len(txs) \in Nat /\ Len(txs) <= MaxTx /\ TxsOf(rows) \subseteq Tx
      /\ TxsOf(fresh) \subseteq TxsOf(rows)
  <2>1. MaxTx \in Nat
    BY DBAssumption
  <2>2. Len(txs) \in Nat /\ Len(txs) <= MaxTx
    BY DEF DBTypes
  <2>3. TxsOf(rows) \subseteq Tx
    BY <2>1, <2>2 DEF RowsOK, TxsOf, Tx
  <2> QED
    BY <2>1, <2>2, <2>3 DEF TxsOf
<1>1. index = [t \in Tx |-> IF t \in TxsOf(rows) /\ s.index[t] = "none"
                            THEN "merged" ELSE s.index[t]]
  <2>1. \A t \in Tx : t \in TxsOf(fresh) <=> t \in TxsOf(rows) /\ s.index[t] = "none"
    BY DEF TxsOf
  <2> QED
    BY <2>1
<1>2. index \in [Tx -> Maker \union {"none"}] /\ held \in [Tx -> [Maker -> SUBSET Nat]]
  BY DEF Store, Maker
<1>3. Max({s.maxTxID} \union TxsOf(fresh)) \in 0 .. Len(txs)
  <2> DEFINE S == {s.maxTxID} \union TxsOf(fresh)
  <2>0. s.maxTxID \in 0 .. Len(txs) /\ TxsOf(fresh) \subseteq 1 .. Len(txs)
    BY DEF Store, RowsOK, TxsOf
  <2>1. S \in SUBSET (0 .. Len(txs)) /\ S # {}
    <3> HIDE DEF fresh
    <3> QED
      BY <1>0, <2>0
  <2> HIDE DEF S
  <2>2. Max(S) \in S
    BY <1>0, <2>1, MaxIs
  <2> QED
    BY <2>1, <2>2 DEF S
<1>4. c = [s EXCEPT !.packets = @ \o Entries(fresh, "merged"), !.index = index, !.held = held,
                    !.maxTxID = Max({@} \union TxsOf(fresh))]
  BY DEF CreateRows
<1> HIDE DEF index, held, c
<1>5. c = [packets |-> s.packets \o Entries(fresh, "merged"), index |-> index, held |-> held,
           totalObs |-> s.totalObs, maxTxID |-> Max({s.maxTxID} \union TxsOf(fresh)),
           maxObsID |-> s.maxObsID, evictedFrom |-> s.evictedFrom]
  BY <1>4 DEF Store
<1>6. Store(c) /\ c.index = index /\ c.held = held
  BY <1>2, <1>3, <1>5 DEF Store
<1>7. os \in SUBSET (1 .. Len(obs))
  BY DEF RowsOK, ObsOf
<1>8. a = AddObservations(c, os)
  BY DEF AddRows, c
<1> HIDE DEF a
<1>9. /\ Store(a) /\ a.index = index
      /\ \A t \in Tx, m \in Maker : held[t][m] \subseteq a.held[t][m]
      /\ \A o \in os : index[obs[o]] # "none" => o \in a.held[obs[o]][index[obs[o]]]
  BY <1>6, <1>7, <1>8, AddObservationsStore
<1>10. ASSUME NEW t \in Tx, s.index[t] # "none"
       PROVE  s.held[t][s.index[t]] \subseteq a.held[t][s.index[t]]
  <2>1. s.index[t] \in Maker /\ t \notin TxsOf(fresh)
    BY <1>10 DEF Store, TxsOf
  <2>2. held[t][s.index[t]] = s.held[t][s.index[t]]
    BY <2>1 DEF held
  <2> QED
    BY <1>9, <2>1, <2>2
<1>11. ASSUME NEW r \in rows, NEW o \in r.obs PROVE o \in a.held[r.tx][a.index[r.tx]]
  <2>1. o \in os /\ obs[o] = r.tx
    BY <1>11 DEF RowsOK, ObsOf
  <2>2. r.tx \in TxsOf(rows) /\ r.tx \in Tx
    BY <1>0 DEF TxsOf
  <2>3. index[r.tx] # "none"
    BY <1>1, <2>2
  <2> QED
    BY <1>9, <2>1, <2>3
<1> QED
  BY <1>1, <1>9, <1>10, <1>11 DEF a

\* What a batch of loadChunkWhere does to a store: its rows enter the index
\* unless they are there; only their "filled" observations are set.
LEMMA IndexRowsStore ==
    ASSUME DBTypes, NEW s, Store(s), NEW rows, RowsOK(rows)
    PROVE  LET a == IndexRows(s, rows)
           IN  /\ Store(a)
               /\ a.index = [t \in Tx |-> IF t \in TxsOf(rows) /\ s.index[t] = "none"
                                          THEN "filled" ELSE s.index[t]]
               /\ \A t \in Tx, m \in Maker :
                     (m # "filled" \/ t \notin TxsOf(rows)) => a.held[t][m] = s.held[t][m]
               /\ a.maxTxID = s.maxTxID
<1> DEFINE index == [t \in Tx |-> IF t \in TxsOf(rows) /\ s.index[t] = "none"
                                  THEN "filled" ELSE s.index[t]]
           held == [t \in Tx |-> [m \in Maker |->
                           IF m = "filled" /\ t \in TxsOf(rows)
                           THEN UNION {r.obs : r \in {q \in rows : q.tx = t}}
                           ELSE s.held[t][m]]]
           a == IndexRows(s, rows)
<1>1. index \in [Tx -> Maker \union {"none"}]
  BY DEF Store, Maker
<1>2. held \in [Tx -> [Maker -> SUBSET Nat]]
  <2>1. \A r \in rows : r.obs \subseteq Nat
    BY DEF RowsOK, ObsOf
  <2>2. \A t \in Tx : UNION {r.obs : r \in {q \in rows : q.tx = t}} \subseteq Nat
    BY <2>1
  <2> QED
    BY <2>2 DEF Store
<1>3. a = [s EXCEPT !.index = index, !.held = held]
  BY DEF IndexRows
<1>4. \A t \in Tx, m \in Maker :
         (m # "filled" \/ t \notin TxsOf(rows)) => held[t][m] = s.held[t][m]
  OBVIOUS
<1> HIDE DEF index, held, a
<1>5. a = [packets |-> s.packets, index |-> index, held |-> held,
           totalObs |-> s.totalObs, maxTxID |-> s.maxTxID,
           maxObsID |-> s.maxObsID, evictedFrom |-> s.evictedFrom]
  BY <1>3 DEF Store
<1>6. Store(a) /\ a.index = index /\ a.held = held /\ a.maxTxID = s.maxTxID
  BY <1>1, <1>2, <1>5 DEF Store
<1> QED
  BY <1>4, <1>6 DEF a, index

\* Publishing a chunk touches s.packets and the counters only.
LEMMA PublishRowsStore ==
    ASSUME DBTypes, NEW s, Store(s), NEW rows, RowsOK(rows), NEW skipped
    PROVE  LET a == PublishRows(s, rows, skipped)
           IN  Store(a) /\ a.index = s.index /\ a.held = s.held
<1> DEFINE all == UNION {r.obs : r \in rows}
           packets == MergeByFirstSeen(s.packets, SortByFirstSeen(Entries(rows, "filled")),
                                       skipped)
           a == PublishRows(s, rows, skipped)
<1>0. Len(txs) \in Nat /\ Len(obs) \in Nat /\ TxsOf(rows) \subseteq 1 .. Len(txs)
      /\ all \subseteq 1 .. Len(obs)
  <2>1. Len(txs) \in Nat /\ Len(obs) \in Nat
    BY DEF DBTypes
  <2>3. \A r \in rows : r.tx \in 1 .. Len(txs) /\ r.obs \subseteq 1 .. Len(obs)
    BY <2>1 DEF RowsOK, ObsOf
  <2> QED
    BY <2>1, <2>3 DEF TxsOf
<1>1. Max({s.maxTxID} \union TxsOf(rows)) \in 0 .. Len(txs)
  <2> DEFINE S == {s.maxTxID} \union TxsOf(rows)
  <2>1. S \in SUBSET (0 .. Len(txs)) /\ S # {}
    BY <1>0 DEF Store
  <2> HIDE DEF S
  <2>2. Max(S) \in S
    BY <1>0, <2>1, MaxIs
  <2> QED
    BY <2>1, <2>2 DEF S
<1>2. Max({s.maxObsID} \union all) \in 0 .. Len(obs)
  <2> DEFINE S == {s.maxObsID} \union all
  <2>1. S \in SUBSET (0 .. Len(obs)) /\ S # {}
    <3> HIDE DEF all
    <3> QED
      BY <1>0 DEF Store
  <2> HIDE DEF S
  <2>2. Max(S) \in S
    BY <1>0, <2>1, MaxIs
  <2> QED
    BY <2>1, <2>2 DEF S
<1>3. a = [s EXCEPT !.packets = MergeByFirstSeen(@, SortByFirstSeen(Entries(rows, "filled")),
                                                 skipped),
                    !.totalObs = @ + Cardinality(all),
                    !.maxTxID = Max({@} \union TxsOf(rows)),
                    !.maxObsID = Max({@} \union all)]
  BY DEF PublishRows
<1> HIDE DEF all, a
<1>4. a = [packets |-> packets, index |-> s.index, held |-> s.held,
           totalObs |-> s.totalObs + Cardinality(all),
           maxTxID |-> Max({s.maxTxID} \union TxsOf(rows)),
           maxObsID |-> Max({s.maxObsID} \union all), evictedFrom |-> s.evictedFrom]
  BY <1>3 DEF Store
<1> HIDE DEF packets
<1>5. Store(a) /\ a.index = s.index /\ a.held = s.held
  BY <1>1, <1>2, <1>4 DEF Store
<1> QED
  BY <1>5 DEF a

\* What leaves the index with EvictStale.
LEMMA EvictHeadStore ==
    ASSUME NEW s, Store(s), NEW k
    PROVE  LET a == EvictHead(s, k)
               gone == {s.packets[i].tx : i \in 1 .. k}
           IN  /\ Store(a)
               /\ \A t \in Tx : a.index[t] = IF t \in gone THEN "none" ELSE s.index[t]
               /\ \A t \in Tx \ gone : a.held[t] = s.held[t]
               /\ a.maxTxID = s.maxTxID
<1> DEFINE g == {s.packets[i] : i \in 1 .. k}
           txsGone == {e.tx : e \in g}
           gone == {s.packets[i].tx : i \in 1 .. k}
           index == [t \in Tx |-> IF t \in txsGone THEN "none" ELSE s.index[t]]
           held == [t \in Tx |-> [m \in Maker |->
                       IF \E e \in g : e.tx = t /\ e.by = m THEN {} ELSE s.held[t][m]]]
           a == EvictHead(s, k)
<1>1. txsGone = gone
  OBVIOUS
<1>2. index \in [Tx -> Maker \union {"none"}] /\ held \in [Tx -> [Maker -> SUBSET Nat]]
  BY DEF Store
<1>3. \A t \in Tx : index[t] = IF t \in gone THEN "none" ELSE s.index[t]
  BY <1>1
<1>4. \A t \in Tx \ gone : held[t] = s.held[t]
  <2> SUFFICES ASSUME NEW t \in Tx \ gone PROVE held[t] = s.held[t]
    OBVIOUS
  <2>1. \A e \in g : e.tx # t
    BY <1>1
  <2>2. held[t] = [m \in Maker |-> s.held[t][m]]
    BY <2>1
  <2> QED
    BY <2>2 DEF Store
<1>5. a = [s EXCEPT !.packets = SubSeq(@, k + 1, Len(@)), !.index = index, !.held = held,
                    !.evictedFrom = Max({@} \union {e.first + 1 : e \in g}),
                    !.totalObs = @ - HeldBy(s, 1 .. k)]
  BY DEF EvictHead
<1> HIDE DEF index, held, a, g, gone
<1>6. a = [packets |-> SubSeq(s.packets, k + 1, Len(s.packets)), index |-> index, held |-> held,
           totalObs |-> s.totalObs - HeldBy(s, 1 .. k), maxTxID |-> s.maxTxID,
           maxObsID |-> s.maxObsID,
           evictedFrom |-> Max({s.evictedFrom} \union {e.first + 1 : e \in g})]
  BY <1>5 DEF Store
<1>7. Store(a) /\ a.index = index /\ a.held = held /\ a.maxTxID = s.maxTxID
  BY <1>2, <1>6 DEF Store
<1> QED
  BY <1>3, <1>4, <1>7 DEF a, gone

\* A sort of s.packets changes nothing else.
LEMMA SortStore ==
    ASSUME NEW s, Store(s), NEW packets
    PROVE  LET a == [s EXCEPT !.packets = packets]
           IN  Store(a) /\ a.index = s.index /\ a.held = s.held /\ a.maxTxID = s.maxTxID
BY DEF Store

------------------------------------------------------------------------------
\* The writer's packet in hand has its row, and room for its observation.
WriterTypes ==
    /\ writer \in [pc : {"idle", "observe", "bump"}, tx : 0 .. MaxTx, rx : Stamp]
    /\ writer.pc # "idle" => writer.tx \in 1 .. Len(txs)
    /\ writer.pc = "observe" => Len(obs) < MaxObs

\* What a step may do to the tables: rows are added, never removed, and
\* last_seen never moves back.
TablesGrow ==
    /\ Len(txs) <= Len(txs') /\ Len(obs) <= Len(obs')
    /\ \A o \in 1 .. Len(obs) : obs'[o] = obs[o]
    /\ \A t \in 1 .. Len(txs) : txs[t].last <= txs'[t].last

\* InsertTransmission keeps the tables' types and only adds to them.
LEMMA WriterStep ==
    ASSUME DBTypes, WriterTypes, WriterNext
    PROVE  DBTypes' /\ WriterTypes' /\ TablesGrow
<1> DEFINE R == [first : Stamp, last : Stamp]
<1>0. /\ txs \in Seq(R) /\ Len(txs) \in Nat /\ Len(txs) <= MaxTx
      /\ obs \in Seq(Tx) /\ Len(obs) \in Nat /\ Len(obs) <= MaxObs
      /\ MaxTx \in Nat /\ MaxObs \in Nat /\ Now \in Nat /\ RxTimes \subseteq Stamp
      /\ \A t \in 1 .. Len(txs) : txs[t] \in R /\ txs[t].last \in Nat
      /\ \A o \in 1 .. Len(obs) : obs[o] \in 1 .. Len(txs)
  <2>1. /\ MaxTx \in Nat /\ MaxObs \in Nat /\ Now \in Nat /\ RxTimes \subseteq Stamp
        /\ Stamp \subseteq Nat
    BY DBAssumption DEF Stamp
  <2>2. /\ txs \in Seq(R) /\ Len(txs) \in Nat /\ Len(txs) <= MaxTx
        /\ obs \in Seq(Tx) /\ Len(obs) \in Nat /\ Len(obs) <= MaxObs
        /\ \A o \in 1 .. Len(obs) : obs[o] \in 1 .. Len(txs)
    BY DEF DBTypes
  <2>3. \A t \in 1 .. Len(txs) : txs[t] \in R
    BY <2>2, ElementOfSeq
  <2>4. \A t \in 1 .. Len(txs) : txs[t].last \in Nat
    BY <2>1, <2>3
  <2> QED
    BY <2>1, <2>2, <2>3, <2>4
<1>a. /\ Len(txs) \in Nat /\ Len(obs) \in Nat
      /\ \A t \in 1 .. Len(txs) : txs[t].last <= txs[t].last
  BY <1>0
<1>1. ASSUME NEW rx \in RxTimes, InsertTransmission(rx)
      PROVE  DBTypes' /\ WriterTypes' /\ TablesGrow
  <2>1. rx \in Stamp /\ [first |-> rx, last |-> rx] \in R
    BY <1>0
  <2>2. /\ txs' \in Seq(R) /\ Len(txs') = Len(txs) + 1
        /\ \A t \in 1 .. Len(txs) : txs'[t] = txs[t]
    BY <1>0, <1>1, <2>1 DEF InsertTransmission
  <2>3. obs' = obs /\ Len(txs) < MaxTx /\ Len(obs) < MaxObs
    BY <1>1 DEF InsertTransmission
  <2>4. writer' = [pc |-> "observe", tx |-> Len(txs) + 1, rx |-> rx]
    BY <1>1 DEF InsertTransmission
  <2>5. DBTypes'
    <3>1. \A o \in 1 .. Len(obs') : obs'[o] \in 1 .. Len(txs')
      BY <1>0, <2>2, <2>3
    <3>2. Len(txs') <= MaxTx
      BY <1>0, <2>2, <2>3
    <3> QED
      BY <1>0, <2>2, <2>3, <3>1, <3>2 DEF DBTypes
  <2>6. WriterTypes'
    BY <1>0, <2>1, <2>2, <2>3, <2>4 DEF WriterTypes
  <2>7. TablesGrow
    BY <1>a, <2>2, <2>3 DEF TablesGrow
  <2> QED
    BY <2>5, <2>6, <2>7
<1>2. ASSUME NEW t \in 1 .. Len(txs), NEW rx \in RxTimes, RehearTransmission(t, rx)
      PROVE  DBTypes' /\ WriterTypes' /\ TablesGrow
  <2>1. rx \in Stamp
    BY <1>0
  <2> DEFINE f == IF rx < txs[t].first THEN rx ELSE txs[t].first
  <2>2. txs' = [txs EXCEPT ![t] = [txs[t] EXCEPT !.first = f]]
    BY <1>2 DEF RehearTransmission
  <2>3. [txs[t] EXCEPT !.first = f] \in R /\ [txs[t] EXCEPT !.first = f].last = txs[t].last
    BY <1>0, <2>1
  <2> HIDE DEF f
  <2>4. /\ txs' \in Seq(R) /\ Len(txs') = Len(txs)
        /\ \A k \in 1 .. Len(txs) : txs'[k].last = txs[k].last
    BY <1>0, <2>2, <2>3
  <2>5. obs' = obs /\ writer' = [pc |-> "observe", tx |-> t, rx |-> rx] /\ Len(obs) < MaxObs
    BY <1>2 DEF RehearTransmission
  <2>6. DBTypes'
    <3>1. \A o \in 1 .. Len(obs') : obs'[o] \in 1 .. Len(txs')
      BY <1>0, <2>4, <2>5
    <3> QED
      BY <1>0, <2>4, <2>5, <3>1 DEF DBTypes
  <2>7. WriterTypes'
    BY <1>0, <2>1, <2>4, <2>5 DEF WriterTypes
  <2>8. TablesGrow
    BY <1>a, <2>4, <2>5 DEF TablesGrow
  <2> QED
    BY <2>6, <2>7, <2>8
<1>3. ASSUME WriteObservation PROVE DBTypes' /\ WriterTypes' /\ TablesGrow
  <2>1. txs' = txs /\ writer.tx \in 1 .. Len(txs) /\ writer.tx \in Tx /\ Len(obs) < MaxObs
    BY <1>0, <1>3 DEF WriteObservation, WriterTypes, Tx
  <2>2. \/ obs' = Append(obs, writer.tx)
        \/ obs' = obs
    BY <1>3 DEF WriteObservation
  <2>3. /\ obs' \in Seq(Tx) /\ Len(obs') \in {Len(obs), Len(obs) + 1}
        /\ \A o \in 1 .. Len(obs) : obs'[o] = obs[o]
        /\ \A o \in 1 .. Len(obs') : obs'[o] \in 1 .. Len(txs)
    <3>1. CASE obs' = Append(obs, writer.tx)
      <4>1. /\ obs' \in Seq(Tx) /\ Len(obs') = Len(obs) + 1
            /\ \A o \in 1 .. Len(obs) : obs'[o] = obs[o]
            /\ obs'[Len(obs) + 1] = writer.tx
        BY <1>0, <2>1, <3>1, AppendProperties
      <4> QED
        BY <1>0, <2>1, <4>1
    <3>2. CASE obs' = obs
      BY <1>0, <3>2
    <3> QED
      BY <2>2, <3>1, <3>2
  <2>4. writer' = [writer EXCEPT !.pc = "bump"]
    BY <1>3 DEF WriteObservation
  <2>5. WriterTypes'
    BY <2>1, <2>4 DEF WriterTypes
  <2>6. DBTypes'
    BY <1>0, <2>1, <2>3 DEF DBTypes
  <2> QED
    BY <1>0, <2>1, <2>3, <2>5, <2>6 DEF TablesGrow
<1>4. ASSUME WriteObservationFails PROVE DBTypes' /\ WriterTypes' /\ TablesGrow
  <2>1. txs' = txs /\ obs' = obs /\ writer' = [pc |-> "idle", tx |-> 0, rx |-> 0]
    BY <1>4 DEF WriteObservationFails, Idle
  <2>2. WriterTypes'
    BY <1>0, <2>1 DEF WriterTypes, Stamp
  <2> QED
    BY <1>0, <2>1, <2>2 DEF DBTypes, TablesGrow
<1>5. ASSUME BumpLastSeen PROVE DBTypes' /\ WriterTypes' /\ TablesGrow
  <2> DEFINE t == writer.tx
             l == IF txs[t].last < writer.rx THEN writer.rx ELSE txs[t].last
  <2>1. t \in 1 .. Len(txs) /\ writer.rx \in Stamp /\ writer.rx \in Nat
    BY <1>5, DBAssumption DEF BumpLastSeen, WriterTypes, Stamp
  <2>2. txs' = [txs EXCEPT ![t] = [txs[t] EXCEPT !.last = l]]
    BY <1>5 DEF BumpLastSeen
  <2>3. [txs[t] EXCEPT !.last = l] \in R /\ [txs[t] EXCEPT !.last = l].last >= txs[t].last
    <3>1. txs[t] \in R /\ txs[t].last \in Nat
      BY <1>0, <2>1
    <3> HIDE DEF t
    <3>2. l \in Stamp /\ l >= txs[t].last
      BY <2>1, <3>1
    <3> HIDE DEF l
    <3> QED
      BY <3>1, <3>2
  <2> HIDE DEF l, t
  <2>4. /\ txs' \in Seq(R) /\ Len(txs') = Len(txs)
        /\ \A k \in 1 .. Len(txs) : txs'[k].last >= txs[k].last
    BY <1>0, <2>1, <2>2, <2>3
  <2>5. obs' = obs /\ writer' = [pc |-> "idle", tx |-> 0, rx |-> 0]
    BY <1>5 DEF BumpLastSeen, Idle
  <2>6. DBTypes'
    BY <1>0, <2>4, <2>5 DEF DBTypes
  <2>7. WriterTypes'
    BY <1>0, <2>4, <2>5 DEF WriterTypes, Stamp
  <2>8. TablesGrow
    <3>1. \A k \in 1 .. Len(txs) : txs[k].last \in Nat /\ txs'[k].last \in Nat
      <4>1. \A k \in 1 .. Len(txs) : txs'[k] \in R
        BY <1>0, <2>4, ElementOfSeq
      <4>2. Stamp \subseteq Nat
        BY DBAssumption DEF Stamp
      <4> QED
        BY <1>0, <4>1, <4>2
    <3> QED
      BY <1>0, <2>4, <2>5, <3>1 DEF TablesGrow
  <2> QED
    BY <2>6, <2>7, <2>8
<1> QED
  BY <1>1, <1>2, <1>3, <1>4, <1>5 DEF WriterNext

------------------------------------------------------------------------------
\* The types of everything that decides what is in memory.
IngestTypes ==
    /\ DBTypes /\ WriterTypes /\ Store(store)
    /\ RowsOK(chunk) /\ RowsOK(newRows) /\ newObs \subseteq 1 .. Len(obs)
    /\ heard \subseteq 1 .. Len(txs)
    /\ lastID \in 0 .. Len(txs) /\ startID \in 0 .. Len(txs)
    /\ lastObsID \in 0 .. Len(obs) /\ nextObsID \in 0 .. Len(obs)

\* The rows the poller merges follow its cursor without a gap.
RowsInHand ==
    poller = "merge" =>
        /\ newRows # {}
        /\ \A r \in newRows : r.tx > lastID
        /\ \A r \in newRows : \A t \in lastID + 1 .. r.tx : t \in TxsOf(newRows)

\* What the loader may do to the rows in hand: keep them, drop them, or take
\* the rows of a query.
LEMMA LoadRows ==
    ASSUME IngestTypes, Load
    PROVE  /\ UNCHANGED db /\ evicted' = evicted /\ UNCHANGED pollVars
           /\ chunk' = chunk \/ \E T \in SUBSET (1 .. Len(txs)) : chunk' = Rows(T)
           /\ heard' \subseteq 1 .. Len(txs)
<1> DEFINE New == \E T \in SUBSET (1 .. Len(txs)) : chunk' = Rows(T)
           OK == /\ UNCHANGED db /\ evicted' = evicted
                 /\ chunk' = chunk \/ New
                 /\ heard' \subseteq 1 .. Len(txs)
<1>0. UNCHANGED pollVars /\ heard \subseteq 1 .. Len(txs)
  BY DEF Load, IngestTypes
<1>1. chunk' = {} => New
  <2> SUFFICES ASSUME chunk' = {} PROVE chunk' = Rows({})
    OBVIOUS
  <2> QED
    BY DEF Rows
<1>2. BeginLoad \/ HotCount \/ FillBegin \/ FillFails \/ FillIndex \/ ReheardFails => OK
  BY <1>0 DEF BeginLoad, HotCount, FillBegin, FillFails, FillIndex, ReheardFails, fillVars
<1>3. HotQuery => OK
  <2> SUFFICES ASSUME HotQuery PROVE OK
    OBVIOUS
  <2> DEFINE T == FirstN({t \in SeenSince(HotFrom) : t > cursorID}, ChunkSize)
  <2>1. T \in SUBSET (1 .. Len(txs))
    BY DEF FirstN, SeenSince
  <2>2. chunk' = Rows(T) /\ UNCHANGED db /\ evicted' = evicted /\ heard' = heard
    BY DEF HotQuery, fillVars
  <2> QED
    BY <1>0, <2>1, <2>2
<1>4. HotMerge \/ HotFails \/ FillPublish => OK
  <2> HIDE DEF New
  <2> QED
    BY <1>0, <1>1 DEF HotMerge, HotFails, FillPublish
<1>5. HotFinish => OK
  BY <1>0 DEF HotFinish
<1>6. FillQuery => OK
  <2> SUFFICES ASSUME FillQuery PROVE OK
    OBVIOUS
  <2>1. Window(WindowStart, oldestLoaded) \in SUBSET (1 .. Len(txs))
    BY DEF Window, SeenSince
  <2>2. /\ chunk' = Rows(Window(WindowStart, oldestLoaded))
        /\ UNCHANGED db /\ evicted' = evicted /\ heard' = heard
    BY DEF FillQuery
  <2> QED
    BY <1>0, <2>1, <2>2
<1>7. ReheardQuery => OK
  <2> SUFFICES ASSUME ReheardQuery PROVE OK
    OBVIOUS
  <2> DEFINE since == {obs[o] : o \in {o \in 1 .. Len(obs) : o > loadStartObsID}}
  <2>1. heard' \subseteq since
    BY DEF ReheardQuery
  <2>2. since \subseteq 1 .. Len(txs)
    BY DEF IngestTypes, DBTypes
  <2>3. UNCHANGED db /\ evicted' = evicted /\ chunk' = chunk
    BY DEF ReheardQuery
  <2> QED
    BY <2>1, <2>2, <2>3
<1>8. ReheardMissing => OK
  BY <1>0 DEF ReheardMissing
<1>9. ReheardLoad => OK
  <2> SUFFICES ASSUME ReheardLoad PROVE OK
    OBVIOUS
  <2>1. chunk' = Rows(heard) /\ UNCHANGED db /\ evicted' = evicted /\ heard' = heard
    BY DEF ReheardLoad, fillVars
  <2> QED
    BY <1>0, <2>1
<1>10. FillMeasure => OK
  BY <1>0 DEF FillMeasure
<1>11. Finish(retainedFrom # Unproven) => OK
  BY <1>0 DEF Finish
<1>12. VerifyNext => OK
  BY <1>0 DEF VerifyNext, VerifyEdge, VerifyCount, VerifyCountFails, VerifyCompare, Publish, At,
              fillVars
<1> QED
  BY <1>0, <1>2, <1>3, <1>4, <1>5, <1>6, <1>7, <1>8, <1>9, <1>10, <1>11, <1>12
     DEF Load, LoaderNext

\* What the loader may do to the store.
LEMMA LoadStore ==
    ASSUME Load
    PROVE  \/ store' = store
           \/ \E R \in SUBSET chunk : store' = AddRows(store, R)
           \/ FillIndex /\ \E R \in SUBSET chunk : store' = IndexRows(store, R)
           \/ \E k : store' = PublishRows(store, chunk, k)
           \/ \E p : store' = [store EXCEPT !.packets = p]
<1>1. \/ BeginLoad \/ HotCount \/ HotQuery \/ FillBegin \/ FillQuery \/ FillFails
      \/ ReheardQuery \/ ReheardMissing \/ ReheardLoad \/ ReheardFails \/ FillMeasure
      => store' = store
  BY DEF BeginLoad, HotCount, HotQuery, FillBegin, FillQuery, FillFails, ReheardQuery,
         ReheardMissing, ReheardLoad, ReheardFails, FillMeasure
<1>2. HotMerge => \E R \in SUBSET chunk : store' = AddRows(store, R)
  BY DEF HotMerge
<1>3. HotFails => \E R \in SUBSET chunk : store' = AddRows(store, R)
  <2> SUFFICES ASSUME HotFails PROVE \E R \in SUBSET chunk : store' = AddRows(store, R)
    OBVIOUS
  <2>1. PICK id \in {0} \union TxsOf(chunk) : store' = AddRows(store, {r \in chunk : r.tx <= id})
    BY DEF HotFails
  <2> QED
    BY <2>1
<1>4. HotFinish => \E p : store' = [store EXCEPT !.packets = p]
  BY DEF HotFinish
<1>5. FillIndex => \E R \in SUBSET chunk : store' = IndexRows(store, R)
  BY DEF FillIndex
<1>6. FillPublish => \E k : store' = PublishRows(store, chunk, k)
  BY DEF FillPublish
<1>7. Finish(retainedFrom # Unproven) => store' = store
  BY DEF Finish
<1>8. VerifyNext => store' = store
  BY DEF VerifyNext, VerifyEdge, VerifyCount, VerifyCountFails, VerifyCompare, Publish, At
<1> QED
  BY <1>1, <1>2, <1>3, <1>4, <1>5, <1>6, <1>7, <1>8 DEF Load, LoaderNext

\* The rows of a query are rows of the tables, and stay so as the tables grow.
LEMMA RowsAreOK ==
    ASSUME NEW T \in SUBSET (1 .. Len(txs))
    PROVE  RowsOK(Rows(T)) /\ TxsOf(Rows(T)) = T
<1>1. \A t \in T : Row(t).tx = t /\ Row(t).obs = ObsOf(t)
  BY DEF Row
<1>2. RowsOK(Rows(T))
  BY <1>1 DEF RowsOK, Rows
<1>3. TxsOf(Rows(T)) = T
  BY <1>1 DEF TxsOf, Rows
<1> QED
  BY <1>2, <1>3

\* Rows a query returned are still rows of the tables after a step: the tables only grow.
LEMMA RowsStayOK ==
    ASSUME NEW R, RowsOK(R), DBTypes, DBTypes', TablesGrow
    PROVE  \A r \in R : r.tx \in 1 .. Len(txs') /\ r.obs \subseteq ObsOf(r.tx)'
<1>0. Len(txs) \in Nat /\ Len(txs') \in Nat /\ Len(txs) <= Len(txs')
      /\ Len(obs) \in Nat /\ Len(obs') \in Nat /\ Len(obs) <= Len(obs')
  BY DEF DBTypes, TablesGrow
<1>1. 1 .. Len(txs) \subseteq 1 .. Len(txs') /\ 1 .. Len(obs) \subseteq 1 .. Len(obs')
  BY <1>0
<1>2. \A r \in R : r.tx \in 1 .. Len(txs) /\ \A o \in r.obs : o \in 1 .. Len(obs) /\ obs[o] = r.tx
  BY DEF RowsOK, ObsOf
<1>3. \A o \in 1 .. Len(obs) : obs'[o] = obs[o]
  BY DEF TablesGrow
<1> QED
  BY <1>1, <1>2, <1>3 DEF ObsOf

\* A transmission in memory stays there unless it is evicted.
Kept == /\ evicted \subseteq evicted'
        /\ \A t \in Tx : InMemory(t) => InMemory(t)' \/ t \in evicted'

\* Every step keeps the store in shape and forgets only what it evicts.
LEMMA StoreStep ==
    ASSUME IngestTypes, [Next]_vars, Store(store)
    PROVE  (~UNCHANGED store => UNCHANGED db) /\ Kept
           /\ (UNCHANGED db => Store(store'))
<1>0. DBTypes /\ RowsOK(chunk) /\ RowsOK(newRows) /\ newObs \in SUBSET (1 .. Len(obs))
  BY DEF IngestTypes
<1>1. ASSUME store' = store, evicted' = evicted
      PROVE  (~UNCHANGED store => UNCHANGED db) /\ Kept /\ (UNCHANGED db => Store(store'))
  BY <1>1 DEF Kept, InMemory
<1>2. ASSUME NEW R, RowsOK(R), store' = AddRows(store, R), evicted' = evicted, UNCHANGED db
      PROVE  Kept /\ Store(store')
  <2>1. /\ Store(store')
        /\ store'.index = [t \in Tx |-> IF t \in TxsOf(R) /\ store.index[t] = "none"
                                        THEN "merged" ELSE store.index[t]]
    BY <1>0, <1>2, AddRowsStore
  <2> QED
    BY <1>2, <2>1 DEF Kept, InMemory
<1>3. ASSUME NEW R, RowsOK(R), store' = IndexRows(store, R), evicted' = evicted
      PROVE  Kept /\ Store(store')
  <2>1. /\ Store(store')
        /\ store'.index = [t \in Tx |-> IF t \in TxsOf(R) /\ store.index[t] = "none"
                                        THEN "filled" ELSE store.index[t]]
    BY <1>0, <1>3, IndexRowsStore
  <2> QED
    BY <1>3, <2>1 DEF Kept, InMemory
<1>4. ASSUME Load
      PROVE  UNCHANGED db /\ Kept /\ Store(store')
  <2>1. UNCHANGED db /\ evicted' = evicted
    BY <1>4, LoadRows
  <2>2. CASE store' = store
    BY <2>1, <2>2 DEF Kept, InMemory
  <2>3. CASE \E R \in SUBSET chunk : store' = AddRows(store, R)
    <3>1. PICK R \in SUBSET chunk : store' = AddRows(store, R)
      BY <2>3
    <3>2. RowsOK(R)
      BY <1>0 DEF RowsOK
    <3> QED
      BY <1>2, <2>1, <3>1, <3>2
  <2>4. CASE \E R \in SUBSET chunk : store' = IndexRows(store, R)
    <3>1. PICK R \in SUBSET chunk : store' = IndexRows(store, R)
      BY <2>4
    <3>2. RowsOK(R)
      BY <1>0 DEF RowsOK
    <3> QED
      BY <1>3, <2>1, <3>1, <3>2
  <2>5. CASE \E k : store' = PublishRows(store, chunk, k)
    <3>1. Store(store') /\ store'.index = store.index
      BY <1>0, <2>5, PublishRowsStore
    <3> QED
      BY <2>1, <3>1 DEF Kept, InMemory
  <2>6. CASE \E p : store' = [store EXCEPT !.packets = p]
    <3>1. PICK p : store' = [store EXCEPT !.packets = p]
      BY <2>6
    <3>2. Store(store') /\ store'.index = store.index
      BY <3>1, SortStore
    <3> QED
      BY <2>1, <3>2 DEF Kept, InMemory
  <2> QED
    BY <1>4, <2>1, <2>2, <2>3, <2>4, <2>5, <2>6, LoadStore
<1>5. ASSUME Poll
      PROVE  UNCHANGED db /\ Kept /\ Store(store')
  <2>1. UNCHANGED db /\ evicted' = evicted
    BY <1>5 DEF Poll, StartPoller, PollTick, PollTransmissions, PollTransmissionsFails,
                IngestNewFromDB, NextObsID, PollObservations, IngestNewObservations
  <2>2. \/ store' = store \/ store' = AddRows(store, newRows)
        \/ store' = AddObservations(store, newObs)
    BY <1>5 DEF Poll, StartPoller, PollTick, PollTransmissions, PollTransmissionsFails,
                IngestNewFromDB, NextObsID, PollObservations, IngestNewObservations
  <2>3. CASE store' = store
    BY <2>1, <2>3 DEF Kept, InMemory
  <2>4. CASE store' = AddRows(store, newRows)
    BY <1>0, <1>2, <2>1, <2>4
  <2>5. CASE store' = AddObservations(store, newObs)
    <3>1. Store(store') /\ store'.index = store.index
      BY <1>0, <2>5, AddObservationsStore
    <3> QED
      BY <2>1, <3>1 DEF Kept, InMemory
  <2> QED
    BY <2>1, <2>2, <2>3, <2>4, <2>5
<1>6. ASSUME RunEviction
      PROVE  UNCHANGED db /\ Kept /\ Store(store')
  <2>1. UNCHANGED db
    BY <1>6 DEF RunEviction
  <2> DEFINE k == EvictCount(store)
             gone == {store.packets[i].tx : i \in 1 .. k}
  <2>2. store' = EvictHead(store, k) /\ evicted' = evicted \union gone
    BY <1>6 DEF RunEviction, EvictStale
  <2> HIDE DEF k
  <2>3. /\ Store(store')
        /\ \A t \in Tx : store'.index[t] = IF t \in gone THEN "none" ELSE store.index[t]
    BY <2>2, EvictHeadStore
  <2> HIDE DEF gone
  <2>4. Kept
    BY <2>2, <2>3 DEF Kept, InMemory
  <2> QED
    BY <2>1, <2>3, <2>4
<1>7. ASSUME Write PROVE store' = store /\ evicted' = evicted
  BY <1>7 DEF Write
<1>8. ASSUME UNCHANGED vars PROVE store' = store /\ evicted' = evicted
  BY <1>8 DEF vars
<1> QED
  BY <1>1, <1>4, <1>5, <1>6, <1>7, <1>8 DEF Next

\* The types hold through every step.
LEMMA TypesStep ==
    ASSUME IngestTypes, RowsInHand, [Next]_vars
    PROVE  IngestTypes' /\ TablesGrow
<1>0. DBTypes /\ WriterTypes /\ Store(store) /\ RowsOK(chunk) /\ RowsOK(newRows)
      /\ Len(txs) \in Nat /\ Len(obs) \in Nat
      /\ \A t \in 1 .. Len(txs) : txs[t].last \in Nat
  <2>1. DBTypes /\ WriterTypes /\ Store(store) /\ RowsOK(chunk) /\ RowsOK(newRows)
    BY DEF IngestTypes
  <2>2. Len(txs) \in Nat /\ Len(obs) \in Nat
    BY <2>1 DEF DBTypes
  <2>3. \A t \in 1 .. Len(txs) : txs[t] \in [first : Stamp, last : Stamp]
    BY <2>1, ElementOfSeq DEF DBTypes
  <2>4. Stamp \subseteq Nat
    BY DBAssumption DEF Stamp
  <2> QED
    BY <2>1, <2>2, <2>3, <2>4
<1>1. ASSUME UNCHANGED db PROVE DBTypes' /\ WriterTypes' /\ TablesGrow
  BY <1>0, <1>1 DEF db, DBTypes, WriterTypes, TablesGrow
<1>2. ASSUME Write PROVE IngestTypes' /\ TablesGrow
  <2>1. DBTypes' /\ WriterTypes' /\ TablesGrow
    BY <1>0, <1>2, WriterStep DEF Write
  <2>2. UNCHANGED <<store, chunk, newRows, newObs, heard, lastID, startID, lastObsID, nextObsID>>
    BY <1>2 DEF Write, loadVars, fillVars, pollVars
  <2>3. Len(txs) <= Len(txs') /\ Len(obs) <= Len(obs') /\ Len(txs') \in Nat /\ Len(obs') \in Nat
    BY <2>1 DEF TablesGrow, DBTypes
  <2>4. RowsOK(chunk)' /\ RowsOK(newRows)'
    BY <1>0, <2>1, <2>2, RowsStayOK DEF RowsOK
  <2>5. Store(store)'
    BY <1>0, <2>2, <2>3 DEF Store
  <2>6. /\ (newObs \subseteq 1 .. Len(obs))' /\ (heard \subseteq 1 .. Len(txs))'
        /\ (lastID \in 0 .. Len(txs) /\ startID \in 0 .. Len(txs))'
        /\ (lastObsID \in 0 .. Len(obs) /\ nextObsID \in 0 .. Len(obs))'
    BY <1>0, <2>2, <2>3 DEF IngestTypes
  <2> QED
    BY <2>1, <2>4, <2>5, <2>6 DEF IngestTypes
<1>3. ASSUME UNCHANGED db PROVE Store(store)'
  <2>1. Store(store')
    BY <1>0, <1>3, StoreStep
  <2> QED
    BY <1>3, <2>1 DEF Store, db
<1>4. ASSUME UNCHANGED db, RowsOK(chunk'), RowsOK(newRows'), heard' \subseteq 1 .. Len(txs),
             newObs' \subseteq 1 .. Len(obs),
             lastID' \in 0 .. Len(txs) /\ startID' \in 0 .. Len(txs),
             lastObsID' \in 0 .. Len(obs) /\ nextObsID' \in 0 .. Len(obs)
      PROVE  IngestTypes' /\ TablesGrow
  <2>1. RowsOK(chunk)' /\ RowsOK(newRows)'
    BY <1>4 DEF RowsOK, ObsOf, db
  <2> QED
    BY <1>1, <1>3, <1>4, <2>1 DEF IngestTypes, db
<1>5. ASSUME Load PROVE IngestTypes' /\ TablesGrow
  <2>1. /\ UNCHANGED db /\ UNCHANGED pollVars /\ heard' \subseteq 1 .. Len(txs)
        /\ chunk' = chunk \/ \E T \in SUBSET (1 .. Len(txs)) : chunk' = Rows(T)
    BY <1>5, LoadRows
  <2>2. RowsOK(chunk')
    BY <1>0, <2>1, RowsAreOK
  <2>3. UNCHANGED <<newRows, newObs, lastID, startID, lastObsID, nextObsID>>
    BY <2>1 DEF pollVars
  <2> QED
    BY <1>4, <2>1, <2>2, <2>3 DEF IngestTypes
<1>6. ASSUME RunEviction \/ UNCHANGED vars PROVE IngestTypes' /\ TablesGrow
  <2>1. UNCHANGED <<db, chunk, heard, newRows, newObs, lastID, startID, lastObsID, nextObsID>>
    BY <1>6 DEF RunEviction, vars, loadVars, fillVars, pollVars
  <2> QED
    BY <1>4, <2>1 DEF IngestTypes
<1>7. ASSUME Poll PROVE IngestTypes' /\ TablesGrow
  <2>0. UNCHANGED <<db, chunk, heard>>
    BY <1>7 DEF Poll, StartPoller, PollTick, PollTransmissions, PollTransmissionsFails,
                IngestNewFromDB, NextObsID, PollObservations, IngestNewObservations,
                loadVars, fillVars
  <2>1. ASSUME StartPoller(firstChunkReady)
        PROVE  /\ lastID' \in 0 .. Len(txs) /\ startID' \in 0 .. Len(txs)
               /\ lastObsID' \in 0 .. Len(obs)
               /\ UNCHANGED <<newRows, newObs, nextObsID>>
    <3>1. PICK dbTx \in {Len(txs), 0}, dbObs \in {Len(obs), 0} :
             /\ lastID' = Max({dbTx, store.maxTxID})
             /\ lastObsID' = Max({dbObs, store.maxObsID})
      BY <2>1 DEF StartPoller
    <3>2. {dbTx, store.maxTxID} \in SUBSET (0 .. Len(txs))
      BY <1>0 DEF Store
    <3>3. {dbObs, store.maxObsID} \in SUBSET (0 .. Len(obs))
      BY <1>0 DEF Store
    <3>4. lastID' \in 0 .. Len(txs)
      BY <1>0, <3>1, <3>2, MaxIs
    <3>5. lastObsID' \in 0 .. Len(obs)
      BY <1>0, <3>1, <3>3, MaxIs
    <3> QED
      BY <2>1, <3>4, <3>5 DEF StartPoller
  <2>2. ASSUME PollTransmissions \/ PollTransmissionsFails
        PROVE  RowsOK(newRows')
               /\ UNCHANGED <<newObs, lastID, startID, lastObsID, nextObsID>>
    <3>1. FirstN({t \in 1 .. Len(txs) : t > lastID}, TxLimit) \in SUBSET (1 .. Len(txs))
      BY DEF FirstN
    <3>2. newRows' = newRows \/ newRows' = Rows(FirstN({t \in 1 .. Len(txs) : t > lastID}, TxLimit))
      BY <2>2 DEF PollTransmissions, PollTransmissionsFails
    <3>3. RowsOK(newRows')
      BY <1>0, <3>1, <3>2, RowsAreOK
    <3> QED
      BY <2>2, <3>3 DEF PollTransmissions, PollTransmissionsFails
  <2>4. ASSUME NextObsID
        PROVE  nextObsID' \in 0 .. Len(obs)
               /\ UNCHANGED <<newRows, newObs, lastID, startID, lastObsID>>
    <3>1. {lastObsID} \union NewObservations \in SUBSET (0 .. Len(obs))
      BY <1>0 DEF IngestTypes, NewObservations, FirstN
    <3>2. Max({lastObsID} \union NewObservations) \in 0 .. Len(obs)
      BY <1>0, <3>1, MaxIs
    <3> QED
      BY <2>4, <3>2 DEF NextObsID, IngestTypes
  <2>5. ASSUME PollObservations
        PROVE  newObs' \subseteq 1 .. Len(obs)
               /\ UNCHANGED <<newRows, lastID, startID, lastObsID, nextObsID>>
    <3>1. NewObservations \subseteq 1 .. Len(obs)
      BY DEF NewObservations, FirstN
    <3> QED
      BY <2>5, <3>1 DEF PollObservations
  <2>6. ASSUME IngestNewObservations
        PROVE  /\ lastObsID' = nextObsID /\ newObs' = {} /\ nextObsID' = 0
               /\ UNCHANGED <<newRows, lastID, startID>>
    BY <2>6 DEF IngestNewObservations
  <2>7. ASSUME IngestNewFromDB
        PROVE  /\ lastID' \in 0 .. Len(txs) /\ newRows' = {}
               /\ UNCHANGED <<newObs, startID, lastObsID, nextObsID>>
    <3>1. TxsOf(newRows) \in SUBSET (0 .. Len(txs)) /\ TxsOf(newRows) # {}
      BY <1>0, <2>7 DEF IngestNewFromDB, RowsInHand, RowsOK, TxsOf
    <3>2. Max(TxsOf(newRows)) \in 0 .. Len(txs)
      BY <1>0, <3>1, MaxIs
    <3> QED
      BY <2>7, <3>2 DEF IngestNewFromDB
  <2>8. \A R : R = {} => RowsOK(R)
    BY DEF RowsOK
  <2>9. /\ newObs \subseteq 1 .. Len(obs) /\ heard \subseteq 1 .. Len(txs)
        /\ lastID \in 0 .. Len(txs) /\ startID \in 0 .. Len(txs)
        /\ lastObsID \in 0 .. Len(obs) /\ nextObsID \in 0 .. Len(obs) /\ 0 \in 0 .. Len(obs)
        /\ {} \subseteq 1 .. Len(obs)
    BY <1>0 DEF IngestTypes
  <2>10. CASE StartPoller(firstChunkReady)
    BY <1>0, <1>4, <2>0, <2>1, <2>9, <2>10
  <2>11. CASE PollTransmissions \/ PollTransmissionsFails
    BY <1>0, <1>4, <2>0, <2>2, <2>9, <2>11
  <2>12. CASE NextObsID
    BY <1>0, <1>4, <2>0, <2>4, <2>9, <2>12
  <2>13. CASE PollObservations
    BY <1>0, <1>4, <2>0, <2>5, <2>9, <2>13
  <2>14. CASE IngestNewObservations
    BY <1>0, <1>4, <2>0, <2>6, <2>9, <2>14
  <2>15. CASE IngestNewFromDB
    BY <1>0, <1>4, <2>0, <2>7, <2>8, <2>9, <2>15
  <2> QED
    BY <1>7, <2>10, <2>11, <2>12, <2>13, <2>14, <2>15 DEF Poll, PollTick
<1> QED
  BY <1>2, <1>5, <1>6, <1>7 DEF Next

\* The types hold initially.
LEMMA InitTypes ==
    ASSUME Init
    PROVE  IngestTypes /\ RowsInHand
<1>0. InitTx \in Nat /\ InitTx <= MaxTx /\ InitTx <= MaxObs /\ MaxTx \in Nat
      /\ History \subseteq [first : Stamp, last : Stamp]
  BY HistoryAssumption, DBAssumption
<1>1. txs \in [1 .. InitTx -> History] /\ obs = [o \in 1 .. InitTx |-> o] /\ writer = Idle
      /\ store = EmptyStore
  BY DEF Init
<1>2. txs \in Seq([first : Stamp, last : Stamp]) /\ Len(txs) = InitTx
  <2> DEFINE RowType == [first : Stamp, last : Stamp]
  <2>1. txs \in [1 .. InitTx -> RowType]
    <3> HIDE DEF RowType
    <3>1. History \subseteq RowType
      BY <1>0 DEF RowType
    <3> QED
      BY <1>1, <3>1
  <2> HIDE DEF RowType
  <2>2. txs \in Seq(RowType) /\ Len(txs) = InitTx
    BY <1>0, <2>1, SeqDef, LenProperties
  <2> QED
    BY <2>2 DEF RowType
<1>3. obs \in Seq(Tx) /\ Len(obs) = InitTx /\ \A o \in 1 .. Len(obs) : obs[o] = o
  <2>1. \A o \in 1 .. InitTx : o \in Tx
    BY <1>0 DEF Tx
  <2> QED
    BY <1>0, <1>1, <2>1
<1>4. DBTypes
  BY <1>0, <1>2, <1>3 DEF DBTypes
<1>5. WriterTypes
  <2>1. 0 \in 0 .. MaxTx /\ 0 \in Stamp
    BY <1>0, DBAssumption DEF Stamp
  <2> QED
    BY <1>1, <2>1 DEF WriterTypes, Idle
<1>6. Store(store)
  <2>1. [t \in Tx |-> "none"] \in [Tx -> Maker \union {"none"}]
    OBVIOUS
  <2>2. [t \in Tx |-> [m \in Maker |-> {}]] \in [Tx -> [Maker -> SUBSET Nat]]
    OBVIOUS
  <2>3. 0 \in 0 .. Len(txs) /\ 0 \in 0 .. Len(obs)
    BY <1>0, <1>2, <1>3
  <2> QED
    BY <1>1, <2>1, <2>2, <2>3 DEF Store, EmptyStore
<1>7. /\ chunk = {} /\ newRows = {} /\ newObs = {} /\ heard = {} /\ lastID = 0 /\ startID = 0
      /\ lastObsID = 0 /\ nextObsID = 0 /\ poller = "unstarted"
  BY DEF Init, LoadInit, PollInit
<1>8. RowsOK(chunk) /\ RowsOK(newRows)
  BY <1>7 DEF RowsOK
<1> QED
  BY <1>0, <1>2, <1>3, <1>4, <1>5, <1>6, <1>7, <1>8 DEF IngestTypes, RowsInHand

\* The poller's query returns what follows the cursor, without a gap.
LEMMA RowsInHandStep ==
    ASSUME IngestTypes, RowsInHand, [Next]_vars
    PROVE  RowsInHand'
<1>1. ASSUME UNCHANGED <<poller, newRows, lastID>> PROVE RowsInHand'
  BY <1>1 DEF RowsInHand, TxsOf
<1>2. ASSUME poller' # "merge" PROVE RowsInHand'
  BY <1>2 DEF RowsInHand
<1>3. ASSUME PollTransmissions PROVE RowsInHand'
  <2> DEFINE ids == {t \in 1 .. Len(txs) : t > lastID}
             got == FirstN(ids, TxLimit)
  <2>0. Len(txs) \in Nat /\ lastID \in 0 .. Len(txs) /\ TxLimit \in Nat
    BY PollAssumption DEF IngestTypes, DBTypes
  <2>1. ids \in SUBSET Nat /\ IsFiniteSet(ids)
    <3>1. IsFiniteSet(1 .. Len(txs))
      BY <2>0, FS_Interval
    <3>2. ids \subseteq 1 .. Len(txs)
      OBVIOUS
    <3> QED
      BY <2>0, <3>1, <3>2, FS_Subset
  <2>2. newRows' = Rows(got) /\ lastID' = lastID
        /\ poller' = IF newRows' = {} THEN "nextObs" ELSE "merge"
    BY <1>3 DEF PollTransmissions
  <2>3. got \subseteq ids
    BY DEF FirstN
  <2>4. TxsOf(newRows') = got
    BY <2>2, <2>3, RowsAreOK
  <2>5. ASSUME NEW x \in got, NEW t \in lastID + 1 .. x PROVE t \in got
    <3>1. x \in ids
      BY <2>3
    <3>2. t \in ids /\ t <= x
      BY <2>0, <3>1
    <3> HIDE DEF ids
    <3> QED
      BY <2>0, <2>1, <3>2, FirstNClosed
  <2>6. \A r \in newRows' : r.tx \in got
    BY <2>4 DEF TxsOf
  <2>7. \A x \in got : x > lastID
    BY <2>3
  <2> HIDE DEF got
  <2>8. poller' = "merge" => newRows' # {}
    BY <2>2
  <2>9. TxsOf(newRows)' = got
    BY <2>4 DEF TxsOf
  <2> QED
    BY <2>2, <2>5, <2>6, <2>7, <2>8, <2>9 DEF RowsInHand
<1>4. ASSUME Poll PROVE PollTransmissions \/ poller' # "merge"
  BY <1>4 DEF Poll, StartPoller, PollTick, PollTransmissionsFails, IngestNewFromDB, NextObsID,
              PollObservations, IngestNewObservations
<1>5. ASSUME Write \/ RunEviction \/ UNCHANGED vars PROVE UNCHANGED <<poller, newRows, lastID>>
  BY <1>5 DEF Write, RunEviction, vars, pollVars
<1>6. ASSUME Load PROVE UNCHANGED <<poller, newRows, lastID>>
  BY <1>6 DEF Load, pollVars
<1> QED
  BY <1>1, <1>2, <1>3, <1>4, <1>5, <1>6 DEF Next

\* A step of the poller takes the cursor over rows it has just merged, and no
\* other step moves it.
LEMMA CursorStep ==
    ASSUME IngestTypes, RowsInHand, CursorCovers, [Next]_vars
    PROVE  CursorCovers'
<1>0. lastID \in Nat /\ startID \in Nat /\ Len(txs) \in Nat /\ lastID <= Len(txs)
      /\ Len(txs) <= MaxTx /\ MaxTx \in Nat
  BY DBAssumption DEF IngestTypes, DBTypes
<1>1. Kept
  BY StoreStep DEF IngestTypes
<1>2. ASSUME UNCHANGED <<lastID, startID>>, poller' # "unstarted" => poller # "unstarted"
      PROVE  CursorCovers'
  <2> SUFFICES ASSUME NEW t \in startID + 1 .. lastID, poller' # "unstarted"
               PROVE  InMemory(t)' \/ t \in evicted'
    BY <1>2 DEF CursorCovers
  <2>1. InMemory(t) \/ t \in evicted
    BY <1>2 DEF CursorCovers
  <2>2. t \in Tx
    BY <1>0 DEF Tx
  <2> QED
    BY <1>1, <2>1, <2>2 DEF Kept
<1>3. ASSUME StartPoller(firstChunkReady) PROVE CursorCovers'
  <2>1. startID' = lastID' /\ lastID' \in Nat
    <3>1. IngestTypes'
      BY TypesStep
    <3>2. lastID' \in 0 .. Len(txs')
      BY <3>1 DEF IngestTypes
    <3>3. startID' = lastID'
      BY <1>3 DEF StartPoller
    <3> QED
      BY <3>2, <3>3
  <2>2. \A n \in Nat : n + 1 .. n = {}
    OBVIOUS
  <2> QED
    BY <2>1, <2>2 DEF CursorCovers
<1>4. ASSUME IngestNewFromDB PROVE CursorCovers'
  <2>1. /\ poller = "merge" /\ store' = AddRows(store, newRows) /\ startID' = startID
        /\ lastID' = Max(TxsOf(newRows)) /\ evicted' = evicted
    BY <1>4 DEF IngestNewFromDB
  <2>2. DBTypes /\ Store(store) /\ RowsOK(newRows)
    BY DEF IngestTypes
  <2>3. store'.index = [t \in Tx |-> IF t \in TxsOf(newRows) /\ store.index[t] = "none"
                                     THEN "merged" ELSE store.index[t]]
    BY <2>1, <2>2, AddRowsStore
  <2>4. TxsOf(newRows) \in SUBSET (0 .. Len(txs)) /\ TxsOf(newRows) # {}
    <3>1. TxsOf(newRows) \subseteq 1 .. Len(txs)
      BY <2>2 DEF RowsOK, TxsOf
    <3>2. newRows # {}
      BY <2>1 DEF RowsInHand
    <3>3. TxsOf(newRows) # {}
      BY <3>2 DEF TxsOf
    <3> QED
      BY <1>0, <3>1, <3>3
  <2>5. lastID' \in TxsOf(newRows)
    BY <1>0, <2>1, <2>4, MaxIs
  <2>6. PICK r \in newRows : lastID' = r.tx
    BY <2>5 DEF TxsOf
  <2>7. lastID' \in 1 .. Len(txs)
    BY <2>2, <2>6 DEF RowsOK
  <2> SUFFICES ASSUME NEW t \in startID + 1 .. lastID' PROVE InMemory(t)' \/ t \in evicted'
    BY <2>1 DEF CursorCovers
  <2>8. t \in Tx /\ (t <= lastID => t \in startID + 1 .. lastID)
        /\ (~(t <= lastID) => t \in lastID + 1 .. lastID')
    BY <1>0, <2>7 DEF Tx
  <2>9. CASE t \in startID + 1 .. lastID
    <3>1. InMemory(t) \/ t \in evicted
      BY <2>1, <2>9 DEF CursorCovers
    <3> QED
      BY <1>1, <2>8, <3>1 DEF Kept
  <2>10. CASE t \in lastID + 1 .. lastID'
    <3>1. t \in TxsOf(newRows)
      BY <2>1, <2>6, <2>10 DEF RowsInHand
    <3> QED
      BY <2>3, <2>8, <3>1 DEF InMemory
  <2> QED
    BY <2>8, <2>9, <2>10
<1>5. ASSUME PollTick, ~IngestNewFromDB
      PROVE  UNCHANGED <<lastID, startID>> /\ poller # "unstarted"
  BY <1>5 DEF PollTick, PollTransmissions, PollTransmissionsFails, NextObsID, PollObservations,
              IngestNewObservations
<1>6. ASSUME Write \/ RunEviction \/ UNCHANGED vars PROVE UNCHANGED <<lastID, startID, poller>>
  BY <1>6 DEF Write, RunEviction, vars, pollVars
<1>7. ASSUME Load PROVE UNCHANGED <<lastID, startID, poller>>
  BY <1>7 DEF Load, pollVars
<1> QED
  BY <1>2, <1>3, <1>4, <1>5, <1>6, <1>7 DEF Next, Poll

------------------------------------------------------------------------------
\* LIMIT k after id a, in a table whose ids have no gap.
LEMMA FirstNAfter ==
    ASSUME NEW a \in Nat, NEW n \in Nat, NEW k \in Nat
    PROVE  FirstN({o \in 1 .. n : o > a}, k) = {x \in a + 1 .. n : x - a <= k}
<1> DEFINE ids == {o \in 1 .. n : o > a}
<1>1. ids = a + 1 .. n
  OBVIOUS
<1>2. ASSUME NEW x \in a + 1 .. n
      PROVE  Cardinality({y \in ids : y < x}) < k <=> x - a <= k
  <2> DEFINE lower == {y \in ids : y < x}
  <2>1. lower = a + 1 .. x - 1
    OBVIOUS
  <2>2. Cardinality(a + 1 .. x - 1) = IF a + 1 > x - 1 THEN 0 ELSE x - 1 - (a + 1) + 1
    BY FS_Interval
  <2>3. Cardinality(a + 1 .. x - 1) = x - 1 - a
    BY <2>2
  <2> HIDE DEF lower
  <2>4. Cardinality(lower) = x - 1 - a
    BY <2>1, <2>3
  <2>5. Cardinality(lower) < k <=> x - a <= k
    BY <2>4
  <2> QED
    BY <2>5 DEF lower
<1> QED
  BY <1>1, <1>2 DEF FirstN

\* One batch of the background fill: it indexes rows not indexed yet.
LEMMA FillIndexIs ==
    ASSUME IngestTypes, FillIndex
    PROVE  \E R \in SUBSET {r \in chunk : r.tx \notin indexed} :
              /\ store' = IndexRows(store, R) /\ indexed' = indexed \union TxsOf(R)
              /\ RowsOK(R) /\ TxsOf(R) \subseteq TxsOf(chunk) \ indexed
              /\ store'.index = [t \in Tx |-> IF t \in TxsOf(R) /\ store.index[t] = "none"
                                              THEN "filled" ELSE store.index[t]]
              /\ \A t \in Tx, m \in Maker :
                    (m # "filled" \/ t \notin TxsOf(R)) => store'.held[t][m] = store.held[t][m]
<1>1. PICK R \in SUBSET {r \in chunk : r.tx \notin indexed} :
         store' = IndexRows(store, R) /\ indexed' = indexed \union TxsOf(R)
  BY SMTT(30) DEF FillIndex
<1>2. DBTypes /\ Store(store) /\ RowsOK(R)
  <2>1. DBTypes /\ Store(store) /\ RowsOK(chunk)
    BY DEF IngestTypes
  <2> QED
    BY <2>1 DEF RowsOK
<1>3. TxsOf(R) \subseteq TxsOf(chunk) \ indexed
  BY DEF TxsOf
<1>4. /\ store'.index = [t \in Tx |-> IF t \in TxsOf(R) /\ store.index[t] = "none"
                                      THEN "filled" ELSE store.index[t]]
      /\ \A t \in Tx, m \in Maker :
            (m # "filled" \/ t \notin TxsOf(R)) => store'.held[t][m] = store.held[t][m]
  BY <1>1, <1>2, IndexRowsStore
<1> QED
  BY <1>1, <1>2, <1>3, <1>4

\* What any other step does to the store: no entry is filled, and a
\* transmission that stays in memory keeps its entry and its observations.
OnlyAdds ==
    \A t \in Tx :
        /\ InMemory(t)' => InMemory(t) \/ t \in 1 .. Len(txs)
        /\ InMemory(t)' /\ ~InMemory(t) => store'.index[t] = "merged"
        /\ InMemory(t) /\ t \notin evicted' =>
              /\ store'.index[t] = store.index[t]
              /\ store.held[t][store.index[t]] \subseteq store'.held[t][store.index[t]]
        /\ InMemory(t) => store'.index[t] \in {"none", store.index[t]}

\* Every step but FillIndex only adds to what the index and the held observations say.
LEMMA OtherSteps ==
    ASSUME IngestTypes, [Next]_vars, Load => ~FillIndex
    PROVE  OnlyAdds
<1>0. DBTypes /\ Store(store) /\ RowsOK(chunk) /\ RowsOK(newRows)
      /\ newObs \in SUBSET (1 .. Len(obs))
  BY DEF IngestTypes
<1>1. ASSUME store'.index = store.index, store'.held = store.held PROVE OnlyAdds
  BY <1>1 DEF OnlyAdds, InMemory
<1>2. ASSUME NEW R, RowsOK(R), store' = AddRows(store, R) PROVE OnlyAdds
  <2>1. /\ store'.index = [t \in Tx |-> IF t \in TxsOf(R) /\ store.index[t] = "none"
                                        THEN "merged" ELSE store.index[t]]
        /\ \A t \in Tx : store.index[t] # "none" =>
              store.held[t][store.index[t]] \subseteq store'.held[t][store.index[t]]
    BY <1>0, <1>2, AddRowsStore
  <2>2. TxsOf(R) \subseteq 1 .. Len(txs)
    BY <1>2 DEF RowsOK, TxsOf
  <2> QED
    BY <2>1, <2>2 DEF OnlyAdds, InMemory
<1>3. ASSUME store' = AddObservations(store, newObs) PROVE OnlyAdds
  <2>1. /\ store'.index = store.index
        /\ \A t \in Tx, m \in Maker : store.held[t][m] \subseteq store'.held[t][m]
    BY <1>0, <1>3, AddObservationsStore
  <2>2. \A t \in Tx : InMemory(t) => store.index[t] \in Maker
    BY <1>0 DEF Store, InMemory
  <2> QED
    BY <2>1, <2>2 DEF OnlyAdds, InMemory
<1>4. ASSUME Load PROVE OnlyAdds
  <2>1. CASE store' = store
    BY <1>1, <2>1
  <2>2. CASE \E R \in SUBSET chunk : store' = AddRows(store, R)
    <3>1. PICK R \in SUBSET chunk : store' = AddRows(store, R)
      BY <2>2
    <3>2. RowsOK(R)
      BY <1>0 DEF RowsOK
    <3> QED
      BY <1>2, <3>1, <3>2
  <2>3. CASE \E k : store' = PublishRows(store, chunk, k)
    BY <1>0, <1>1, <2>3, PublishRowsStore
  <2>4. CASE \E p : store' = [store EXCEPT !.packets = p]
    BY <1>0, <1>1, <2>4, SortStore
  <2> QED
    BY <1>4, <2>1, <2>2, <2>3, <2>4, LoadStore
<1>5. ASSUME Poll PROVE OnlyAdds
  <2>1. \/ store' = store \/ store' = AddRows(store, newRows)
        \/ store' = AddObservations(store, newObs)
    BY <1>5 DEF Poll, StartPoller, PollTick, PollTransmissions, PollTransmissionsFails,
                IngestNewFromDB, NextObsID, PollObservations, IngestNewObservations
  <2> QED
    BY <1>0, <1>1, <1>2, <1>3, <2>1
<1>6. ASSUME RunEviction PROVE OnlyAdds
  <2> DEFINE k == EvictCount(store)
             gone == {store.packets[i].tx : i \in 1 .. k}
  <2>2. store' = EvictHead(store, k) /\ evicted' = evicted \union gone
    BY <1>6 DEF RunEviction, EvictStale
  <2> HIDE DEF k
  <2>3. /\ \A t \in Tx : store'.index[t] = IF t \in gone THEN "none" ELSE store.index[t]
        /\ \A t \in Tx \ gone : store'.held[t] = store.held[t]
    BY <1>0, <2>2, EvictHeadStore
  <2> HIDE DEF gone
  <2> QED
    BY <2>2, <2>3 DEF OnlyAdds, InMemory
<1>7. ASSUME Write \/ UNCHANGED vars PROVE store' = store
  BY <1>7 DEF Write, vars
<1> QED
  BY <1>1, <1>4, <1>5, <1>6, <1>7 DEF Next

------------------------------------------------------------------------------
\* The program counters of the three parts of the load.
HotStates == {"begin", "hotCount", "hotQuery", "hotMerge", "hotFinish"}
FillStates == {"fillBegin", "fillQuery", "fillIndex"}
ReheardStates == {"reheard", "reheardQuery"}

\* The background fill is at its windows, not yet at the re-heard rows.
InWindows == loader \in FillStates /\ heard = {}

\* What holds wherever the background fill is: it goes back in time to the
\* floor, and the rows of the window in hand were seen in that window or later.
FillPlace ==
    /\ loader \in HotStates \union {"fillBegin", "fillQuery"} => heard = {}
    /\ loader \in ReheardStates => heard # {}
    /\ loader \in FillStates \union ReheardStates \union {"fillFinish"} => hotStartup
    /\ InWindows => oldestLoaded \in Floor .. Now
    /\ loader = "fillIndex" /\ heard = {} =>
          /\ oldestLoaded > Floor
          /\ \A t \in TxsOf(chunk) : txs[t].last >= oldestLoaded - 1

\* A window is one unit of time.
LEMMA WindowIs ==
    ASSUME oldestLoaded \in Floor .. Now, oldestLoaded > Floor
    PROVE  WindowStart = oldestLoaded - 1 /\ WindowStart \in Floor .. Now
<1>1. Floor \in Nat /\ Now \in Nat
  BY DBAssumption, StoreAssumption DEF Stamp
<1>2. {oldestLoaded - 1, Floor} \in SUBSET (0 .. Now) /\ {oldestLoaded - 1, Floor} # {}
  BY <1>1
<1>3. /\ Max({oldestLoaded - 1, Floor}) \in {oldestLoaded - 1, Floor}
      /\ \A x \in {oldestLoaded - 1, Floor} : x <= Max({oldestLoaded - 1, Floor})
  BY <1>1, <1>2, MaxIs
<1> QED
  BY <1>1, <1>3 DEF WindowStart

\* Everything but Load leaves the loader alone.
LEMMA LoadFrame ==
    ASSUME [Next]_vars, ~Load
    PROVE  UNCHANGED <<hotStartup, loader, cursorID, chunk, indexed, loadStartObsID, oldestLoaded,
                       heard, heardMaxID, loadComplete, retainedAtStart>>
<1>1. ASSUME Write PROVE UNCHANGED <<loadVars, retainedAtStart>>
  BY <1>1 DEF Write
<1>2. ASSUME Poll PROVE UNCHANGED <<loadVars, retainedAtStart>>
  BY <1>2 DEF Poll
<1>3. ASSUME RunEviction \/ UNCHANGED vars PROVE UNCHANGED <<loadVars, retainedAtStart>>
  BY <1>3 DEF RunEviction, vars
<1>4. UNCHANGED <<loadVars, retainedAtStart>>
  BY <1>1, <1>2, <1>3 DEF Next
<1> QED
  BY <1>4 DEF loadVars, fillVars, signals

\* Rows a query took keep being seen no earlier.
LEMMA ChunkStaysSeen ==
    ASSUME DBTypes, DBTypes', TablesGrow, NEW T \in SUBSET (1 .. Len(txs)), NEW from \in Int,
           \A t \in T : txs[t].last >= from
    PROVE  \A t \in T : txs'[t].last >= from
<1>1. ASSUME NEW t \in T
      PROVE  txs[t].last \in Nat /\ txs'[t].last \in Nat /\ txs[t].last <= txs'[t].last
  <2>1. t \in 1 .. Len(txs) /\ t \in 1 .. Len(txs')
    BY DEF DBTypes, TablesGrow
  <2>2. txs[t] \in [first : Stamp, last : Stamp] /\ txs'[t] \in [first : Stamp, last : Stamp]
    BY <2>1, ElementOfSeq DEF DBTypes
  <2>3. Stamp \subseteq Nat
    BY DBAssumption DEF Stamp
  <2> QED
    BY <2>1, <2>2, <2>3 DEF TablesGrow
<1> QED
  BY <1>1

\* FillPlace is preserved by every step.
LEMMA FillPlaceStep ==
    ASSUME IngestTypes, RowsInHand, FillPlace, [Next]_vars
    PROVE  FillPlace'
<1>0. /\ DBTypes /\ DBTypes' /\ TablesGrow /\ TxsOf(chunk) \in SUBSET (1 .. Len(txs))
      /\ Floor \in Nat /\ Now \in Nat /\ HotCutoff \in Floor .. Now
  <2>1. IngestTypes' /\ TablesGrow
    BY TypesStep
  <2>2. TxsOf(chunk) \in SUBSET (1 .. Len(txs))
    BY DEF IngestTypes, RowsOK, TxsOf
  <2> QED
    BY <2>1, <2>2, DBAssumption, StoreAssumption, LoadAssumption DEF IngestTypes, Stamp
<1>1. ASSUME ~Load PROVE FillPlace'
  <2>1. UNCHANGED <<hotStartup, loader, chunk, oldestLoaded, heard>>
    BY <1>1, LoadFrame
  <2>2. ASSUME loader = "fillIndex", heard = {}
        PROVE  \A t \in TxsOf(chunk) : txs'[t].last >= oldestLoaded - 1
    <3>1. oldestLoaded - 1 \in Int /\ \A t \in TxsOf(chunk) : txs[t].last >= oldestLoaded - 1
      BY <1>0, <2>2 DEF FillPlace, InWindows, FillStates
    <3> QED
      BY <1>0, <3>1, ChunkStaysSeen
  <2> QED
    BY <2>1, <2>2 DEF FillPlace, InWindows, TxsOf
<1>2. ASSUME Load PROVE FillPlace'
  <2>0. hotStartup' = hotStartup /\ UNCHANGED db
    BY <1>2, LoadRows DEF Load
  <2> USE DEF FillPlace, InWindows, HotStates, FillStates, ReheardStates
  <2>1. CASE BeginLoad \/ HotCount \/ HotQuery \/ HotMerge \/ HotFails
    BY <2>1 DEF BeginLoad, HotCount, HotQuery, HotMerge, HotFails, fillVars
  <2>2. CASE HotFinish
    BY <1>0, <2>0, <2>2 DEF HotFinish
  <2>3. CASE FillBegin
    BY <2>0, <2>3 DEF FillBegin
  <2>4. CASE FillQuery
    <3>1. WindowStart = oldestLoaded - 1 /\ WindowStart \in Floor .. Now
      BY <2>4, WindowIs DEF FillQuery
    <3>2. Window(WindowStart, oldestLoaded) \in SUBSET (1 .. Len(txs))
      BY DEF Window, SeenSince
    <3>3. TxsOf(chunk') = Window(WindowStart, oldestLoaded)
      BY <2>4, <3>2, RowsAreOK DEF FillQuery
    <3>4. \A t \in TxsOf(chunk') : txs[t].last >= oldestLoaded - 1
      BY <3>1, <3>3 DEF Window, SeenSince
    <3>5. TxsOf(chunk)' = TxsOf(chunk') /\ txs' = txs
      BY <2>0 DEF TxsOf, db
    <3> QED
      BY <2>0, <2>4, <3>1, <3>4, <3>5 DEF FillQuery
  <2>5. CASE FillFails
    <3>1. WindowStart \in Floor .. Now
      BY <2>5, WindowIs DEF FillFails
    <3> QED
      BY <2>0, <2>5, <3>1 DEF FillFails
  <2>6. CASE FillIndex
    <3>1. UNCHANGED <<loader, chunk, heard, oldestLoaded>>
      BY <2>6 DEF FillIndex, fillVars
    <3> QED
      BY <2>0, <3>1 DEF db, TxsOf
  <2>7. CASE FillPublish
    <3>1. heard = {} => WindowStart \in Floor .. Now
      BY <2>7, WindowIs DEF FillPublish
    <3> QED
      BY <2>0, <2>7, <3>1 DEF FillPublish
  <2>8. CASE ReheardQuery \/ ReheardMissing \/ ReheardFails
    BY <2>0, <2>8 DEF ReheardQuery, ReheardMissing, ReheardFails, fillVars
  <2>9. CASE ReheardLoad
    BY <2>0, <2>9 DEF ReheardLoad, fillVars
  <2>10. CASE FillMeasure \/ Finish(retainedFrom # Unproven)
    BY <2>10 DEF FillMeasure, Finish
  <2>11. CASE VerifyNext
    BY <2>11 DEF VerifyNext, VerifyEdge, VerifyCount, VerifyCountFails, VerifyCompare, Publish, At
  <2> QED
    BY <1>2, <2>1, <2>2, <2>3, <2>4, <2>5, <2>6, <2>7, <2>8, <2>9, <2>10, <2>11
       DEF Load, LoaderNext
<1> QED
  BY <1>1, <1>2

------------------------------------------------------------------------------
\* Only transmissions of the table are in memory.
IndexedExist == \A t \in Tx : InMemory(t) => t \in 1 .. Len(txs)

\* IndexedExist is preserved by every step.
LEMMA IndexedExistStep ==
    ASSUME IngestTypes, RowsInHand, IndexedExist, [Next]_vars
    PROVE  IndexedExist'
<1>0. 1 .. Len(txs) \subseteq 1 .. Len(txs')
  <2>1. IngestTypes' /\ TablesGrow
    BY TypesStep
  <2>2. Len(txs) \in Nat /\ Len(txs') \in Nat /\ Len(txs) <= Len(txs')
    BY <2>1 DEF IngestTypes, DBTypes, TablesGrow
  <2> QED
    BY <2>2
<1>1. \A t \in Tx : InMemory(t)' => t \in 1 .. Len(txs)
  <2>1. CASE Load => ~FillIndex
    BY <2>1, OtherSteps DEF OnlyAdds, IndexedExist
  <2>2. CASE FillIndex
    <3>1. PICK R \in SUBSET {r \in chunk : r.tx \notin indexed} :
             /\ RowsOK(R)
             /\ store'.index = [t \in Tx |-> IF t \in TxsOf(R) /\ store.index[t] = "none"
                                             THEN "filled" ELSE store.index[t]]
      BY <2>2, FillIndexIs
    <3>2. TxsOf(R) \subseteq 1 .. Len(txs)
      BY <3>1 DEF RowsOK, TxsOf
    <3> QED
      BY <3>1, <3>2 DEF IndexedExist, InMemory
  <2> QED
    BY <2>1, <2>2
<1> QED
  BY <1>0, <1>1 DEF IndexedExist

\* A transmission the background fill has indexed is never indexed by it
\* again, unless it was evicted: its observations are not lost that way.
FilledOnce ==
    /\ loader \in HotStates => \A t \in Tx : store.index[t] # "filled"
    /\ \A t \in 1 .. Len(txs) : store.index[t] = "filled" /\ t \notin evicted =>
          /\ loader = "fillIndex" => t \notin TxsOf(chunk) \ indexed
          /\ loader = "reheardQuery" => t \notin heard
          /\ InWindows =>
                \/ txs[t].last >= oldestLoaded
                \/ loader = "fillIndex" /\ t \in TxsOf(chunk)

\* What is filled after any step but a batch of the fill was filled before.
LEMMA WasFilled ==
    ASSUME IngestTypes, IndexedExist, [Next]_vars, Load => ~FillIndex,
           NEW t \in Tx, store'.index[t] = "filled"
    PROVE  /\ store.index[t] = "filled" /\ t \in 1 .. Len(txs)
           /\ t \notin evicted' => t \notin evicted
<1>1. OnlyAdds
  BY OtherSteps
<1>2. InMemory(t) /\ store.index[t] = "filled"
  BY <1>1 DEF OnlyAdds, InMemory
<1>3. evicted \subseteq evicted'
  BY StoreStep DEF IngestTypes, Kept
<1> QED
  BY <1>2, <1>3 DEF IndexedExist

\* FilledOnce is preserved: FillIndex never meets a row the fill already made.
LEMMA FilledOnceStep ==
    ASSUME IngestTypes, RowsInHand, FillPlace, IndexedExist, FilledOnce, [Next]_vars
    PROVE  FilledOnce'
<1>0. /\ DBTypes /\ DBTypes' /\ TablesGrow /\ Len(txs) \in Nat /\ Len(txs') \in Nat
      /\ 1 .. Len(txs) \subseteq Tx /\ 1 .. Len(txs') \subseteq Tx
      /\ \A t \in 1 .. Len(txs) : txs[t].last \in Nat /\ txs'[t].last \in Nat
                                  /\ txs[t].last <= txs'[t].last
  <2>1. IngestTypes' /\ TablesGrow
    BY TypesStep
  <2>2. /\ Len(txs) \in Nat /\ Len(txs') \in Nat /\ Len(txs) <= Len(txs') /\ Len(txs') <= MaxTx
        /\ MaxTx \in Nat
    BY <2>1, DBAssumption, SMTT(30) DEF IngestTypes, DBTypes, TablesGrow
  <2>3. 1 .. Len(txs) \subseteq Tx /\ 1 .. Len(txs') \subseteq Tx
    BY <2>2 DEF Tx
  <2>4. ASSUME NEW t \in 1 .. Len(txs) PROVE txs[t].last \in Nat /\ txs'[t].last \in Nat
    <3>1. t \in 1 .. Len(txs')
      BY <2>2
    <3>2. txs[t] \in [first : Stamp, last : Stamp] /\ txs'[t] \in [first : Stamp, last : Stamp]
      BY <2>1, <3>1, ElementOfSeq DEF IngestTypes, DBTypes
    <3> QED
      BY <3>2, DBAssumption DEF Stamp
  <2> QED
    BY <2>1, <2>2, <2>3, <2>4 DEF IngestTypes, TablesGrow
<1>1. ASSUME ~Load PROVE FilledOnce'
  <2>1. UNCHANGED <<loader, chunk, indexed, oldestLoaded, heard>>
    BY <1>1, LoadFrame
  <2>2. TxsOf(chunk)' = TxsOf(chunk) /\ InWindows' = InWindows
    BY <2>1 DEF TxsOf, InWindows
  <2>3. ASSUME NEW t \in Tx, store'.index[t] = "filled"
        PROVE  /\ store.index[t] = "filled" /\ t \in 1 .. Len(txs)
               /\ t \notin evicted' => t \notin evicted
    BY <1>1, <2>3, WasFilled
  <2>4. loader' \in HotStates => \A t \in Tx : store'.index[t] # "filled"
    BY <2>1, <2>3 DEF FilledOnce
  <2>5. ASSUME NEW t \in 1 .. Len(txs'), store'.index[t] = "filled", t \notin evicted'
        PROVE  /\ loader = "fillIndex" => t \notin TxsOf(chunk) \ indexed
               /\ loader = "reheardQuery" => t \notin heard
               /\ InWindows =>
                     \/ txs'[t].last >= oldestLoaded
                     \/ loader = "fillIndex" /\ t \in TxsOf(chunk)
    <3>1. t \in 1 .. Len(txs) /\ store.index[t] = "filled" /\ t \notin evicted
      BY <1>0, <2>3, <2>5
    <3>2. InWindows => oldestLoaded \in Int
      BY DEF FillPlace
    <3> QED
      BY <1>0, <3>1, <3>2 DEF FilledOnce
  <2> QED
    BY <2>1, <2>2, <2>4, <2>5 DEF FilledOnce
<1>2. ASSUME Load PROVE FilledOnce'
  <2>0. UNCHANGED db /\ evicted' = evicted /\ txs' = txs
    BY <1>2, LoadRows DEF db
  <2>1. ASSUME ~FillIndex, NEW t \in Tx, store'.index[t] = "filled"
        PROVE  store.index[t] = "filled" /\ t \in 1 .. Len(txs)
    BY <2>1, WasFilled
  <2>2. CASE BeginLoad \/ HotCount \/ HotQuery \/ HotMerge \/ HotFails \/ HotFinish
    <3>1. ~FillIndex /\ loader \in HotStates
      BY <2>2 DEF BeginLoad, HotCount, HotQuery, HotMerge, HotFails, HotFinish, FillIndex, HotStates
    <3>2. \A t \in Tx : store'.index[t] # "filled"
      BY <2>1, <3>1 DEF FilledOnce
    <3> QED
      BY <1>0, <3>2 DEF FilledOnce
  <2>3. ASSUME ~FillIndex, loader' \notin HotStates,
               \A t \in 1 .. Len(txs) : store.index[t] = "filled" /\ t \notin evicted =>
                  /\ loader' = "fillIndex" => t \notin TxsOf(chunk') \ indexed'
                  /\ loader' = "reheardQuery" => t \notin heard'
                  /\ loader' \in FillStates /\ heard' = {} =>
                        \/ txs[t].last >= oldestLoaded'
                        \/ loader' = "fillIndex" /\ t \in TxsOf(chunk')
        PROVE  FilledOnce'
    <3>1. TxsOf(chunk)' = TxsOf(chunk') /\ InWindows' = (loader' \in FillStates /\ heard' = {})
      BY DEF TxsOf, InWindows
    <3>2. \A t \in 1 .. Len(txs') : store'.index[t] = "filled" =>
             store.index[t] = "filled" /\ t \in 1 .. Len(txs)
      BY <1>0, <2>0, <2>1, <2>3
    <3> QED
      BY <2>0, <2>3, <3>1, <3>2 DEF FilledOnce
  <2>3a. ASSUME ~FillIndex, loader' = "fillQuery",
                \A t \in 1 .. Len(txs) : store.index[t] = "filled" /\ t \notin evicted =>
                   txs[t].last >= oldestLoaded'
         PROVE  FilledOnce'
    BY <2>3, <2>3a DEF HotStates
  <2>4. CASE FillBegin
    <3>1. /\ loader = "fillBegin" /\ loader' = "fillQuery" /\ heard = {}
          /\ UNCHANGED <<oldestLoaded, heard>> /\ ~FillIndex
      BY <2>4 DEF FillBegin, FillIndex, FillPlace
    <3>2. \A t \in 1 .. Len(txs) : store.index[t] = "filled" /\ t \notin evicted =>
             txs[t].last >= oldestLoaded
      BY <3>1 DEF FilledOnce, FillStates, InWindows
    <3> QED
      BY <2>3a, <3>1, <3>2
  <2>5. CASE FillQuery
    <3>1. WindowStart = oldestLoaded - 1 /\ oldestLoaded \in Int
      BY <2>5, WindowIs DEF FillQuery, FillPlace, InWindows, FillStates
    <3>2. /\ loader = "fillQuery" /\ heard = {} /\ heard' = heard /\ ~FillIndex
          /\ \/ loader' = "fillQuery" /\ oldestLoaded' = WindowStart
             \/ loader' = "fillIndex" /\ oldestLoaded' = oldestLoaded
      BY <2>5 DEF FillQuery, FillIndex, FillPlace
    <3>3. TxsOf(chunk') = Window(WindowStart, oldestLoaded)
      <4>1. Window(WindowStart, oldestLoaded) \in SUBSET (1 .. Len(txs))
        BY DEF Window, SeenSince
      <4> QED
        BY <2>5, <4>1, RowsAreOK DEF FillQuery
    <3>4. ASSUME NEW t \in 1 .. Len(txs), store.index[t] = "filled", t \notin evicted
          PROVE  txs[t].last >= oldestLoaded /\ t \notin TxsOf(chunk')
      <4>1. txs[t].last >= oldestLoaded
        BY <3>2, <3>4 DEF FilledOnce, InWindows, FillStates
      <4> QED
        BY <1>0, <3>1, <3>3, <4>1 DEF Window
    <3>5. \A t \in 1 .. Len(txs) : txs[t].last >= oldestLoaded =>
             txs[t].last >= oldestLoaded'
      BY <1>0, <3>1, <3>2
    <3>6. CASE loader' = "fillQuery"
      BY <2>3a, <3>2, <3>4, <3>5, <3>6
    <3>7. CASE loader' = "fillIndex"
      BY <2>3, <3>2, <3>4, <3>5, <3>7 DEF HotStates
    <3> QED
      BY <3>2, <3>6, <3>7
  <2>6. CASE FillFails
    <3>1. WindowStart = oldestLoaded - 1 /\ oldestLoaded \in Int
      BY <2>6, WindowIs DEF FillFails, FillPlace, InWindows, FillStates
    <3>2. /\ loader = "fillQuery" /\ heard = {} /\ UNCHANGED <<loader, heard>> /\ ~FillIndex
          /\ oldestLoaded' = WindowStart
      BY <2>6 DEF FillFails, FillIndex, FillPlace
    <3>3. \A t \in 1 .. Len(txs) : txs[t].last >= oldestLoaded => txs[t].last >= oldestLoaded'
      BY <1>0, <3>1, <3>2
    <3>4. \A t \in 1 .. Len(txs) : store.index[t] = "filled" /\ t \notin evicted =>
             txs[t].last >= oldestLoaded
      BY <3>2 DEF FilledOnce, FillStates, InWindows
    <3> QED
      BY <2>3a, <3>2, <3>3, <3>4
  <2>7. CASE FillIndex
    <3>1. PICK R \in SUBSET {r \in chunk : r.tx \notin indexed} :
             /\ indexed' = indexed \union TxsOf(R) /\ TxsOf(R) \subseteq TxsOf(chunk) \ indexed
             /\ store'.index = [t \in Tx |-> IF t \in TxsOf(R) /\ store.index[t] = "none"
                                             THEN "filled" ELSE store.index[t]]
      BY <2>7, FillIndexIs
    <3>2. UNCHANGED <<loader, chunk, heard, oldestLoaded>> /\ loader = "fillIndex"
      BY <2>7 DEF FillIndex, fillVars
    <3>3. TxsOf(chunk)' = TxsOf(chunk) /\ InWindows' = InWindows /\ loader' \notin HotStates
      BY <3>2 DEF TxsOf, InWindows, HotStates
    <3>4. ASSUME NEW t \in 1 .. Len(txs), store'.index[t] = "filled", t \notin evicted
          PROVE  /\ t \notin TxsOf(chunk) \ indexed'
                 /\ InWindows => txs[t].last >= oldestLoaded \/ t \in TxsOf(chunk)
      <4>1. t \in TxsOf(R) \/ store.index[t] = "filled"
        BY <1>0, <3>1, <3>4
      <4>2. CASE t \in TxsOf(R)
        BY <3>1, <4>2
      <4>3. CASE store.index[t] = "filled"
        BY <3>1, <3>2, <3>4, <4>3 DEF FilledOnce
      <4> QED
        BY <4>1, <4>2, <4>3
    <3> QED
      BY <2>0, <3>2, <3>3, <3>4 DEF FilledOnce
  <2>8. CASE FillPublish
    <3>1. /\ loader = "fillIndex" /\ heard' = heard /\ ~FillIndex
          /\ heard = {} => loader' = "fillQuery" /\ oldestLoaded' = WindowStart
          /\ heard # {} => loader' = "fillFinish"
      BY <2>8 DEF FillPublish, FillIndex
    <3>2. ASSUME heard = {}
          PROVE  /\ WindowStart = oldestLoaded - 1 /\ oldestLoaded \in Int
                 /\ \A t \in TxsOf(chunk) : txs[t].last >= oldestLoaded - 1
      BY <3>1, <3>2, WindowIs DEF FillPlace, InWindows, FillStates
    <3>3. ASSUME NEW t \in 1 .. Len(txs), store.index[t] = "filled", t \notin evicted, heard = {}
          PROVE  txs[t].last >= oldestLoaded'
      <4>1. txs[t].last >= oldestLoaded \/ t \in TxsOf(chunk)
        BY <3>1, <3>3 DEF FilledOnce, InWindows, FillStates
      <4> QED
        BY <1>0, <3>1, <3>2, <3>3, <4>1
    <3>4. CASE heard = {}
      BY <2>3a, <3>1, <3>3, <3>4
    <3>5. CASE heard # {}
      BY <2>3, <3>1, <3>5 DEF HotStates, FillStates
    <3> QED
      BY <3>4, <3>5
  <2>9. CASE ReheardQuery \/ ReheardFails \/ FillMeasure \/ Finish(retainedFrom # Unproven)
             \/ VerifyNext
    <3>1. ~FillIndex
      BY <2>9 DEF ReheardQuery, ReheardFails, FillMeasure, Finish, VerifyNext, VerifyEdge,
                  VerifyCount, VerifyCountFails, VerifyCompare, Publish, At, FillIndex
    <3>2. loader' \notin HotStates \union FillStates \union {"reheardQuery"}
      BY <2>9 DEF ReheardQuery, ReheardFails, FillMeasure, Finish, VerifyNext, VerifyEdge,
                  VerifyCount, VerifyCountFails, VerifyCompare, Publish, At, HotStates, FillStates
    <3> QED
      BY <2>3, <3>1, <3>2 DEF FillStates
  <2>10. CASE ReheardMissing
    <3>1. /\ heard' = {t \in heard : ~InMemory(t)} /\ ~FillIndex
          /\ loader' \in {"fillFinish", "reheardQuery"}
      BY <2>10 DEF ReheardMissing, FillIndex
    <3> QED
      BY <2>3, <3>1 DEF InMemory, HotStates, FillStates
  <2>11. CASE ReheardLoad
    <3>1. /\ loader = "reheardQuery" /\ chunk' = Rows(heard) /\ loader' = "fillIndex"
          /\ heard' = heard /\ heard # {} /\ ~FillIndex
      BY <2>11 DEF ReheardLoad, fillVars, FillIndex, FillPlace, ReheardStates
    <3>2. TxsOf(chunk') = heard
      BY <3>1, RowsAreOK DEF IngestTypes
    <3> QED
      BY <2>3, <3>1, <3>2 DEF FilledOnce, HotStates
  <2> QED
    BY <1>2, <2>2, <2>4, <2>5, <2>6, <2>7, <2>8, <2>9, <2>10, <2>11 DEF Load, LoaderNext
<1> QED
  BY <1>1, <1>2

------------------------------------------------------------------------------
\* An SQLite error is never forgotten.
LEMMA FaultsStep ==
    ASSUME [Next]_vars
    PROVE  faults' = faults \/ faults' = faults + 1
<1>1. ASSUME Write PROVE faults' = faults \/ faults' = faults + 1
  BY <1>1 DEF Write, WriterNext, InsertTransmission, RehearTransmission, WriteObservation,
              WriteObservationFails, BumpLastSeen, Fault
<1>2. ASSUME Load PROVE faults' = faults \/ faults' = faults + 1
  <2>1. \/ BeginLoad \/ HotCount \/ HotQuery \/ HotMerge \/ HotFails \/ HotFinish \/ FillBegin
        \/ FillQuery \/ FillFails
        => faults' = faults \/ faults' = faults + 1
    BY DEF BeginLoad, HotCount, HotQuery, HotMerge, HotFails, HotFinish, FillBegin, FillQuery,
           FillFails, Fault
  <2>2. \/ FillIndex \/ FillPublish \/ ReheardQuery \/ ReheardMissing \/ ReheardLoad
        \/ ReheardFails \/ FillMeasure \/ Finish(retainedFrom # Unproven)
        => faults' = faults \/ faults' = faults + 1
    BY DEF FillIndex, FillPublish, ReheardQuery, ReheardMissing, ReheardLoad, ReheardFails,
           FillMeasure, Finish, Fault
  <2>3. VerifyNext => faults' = faults \/ faults' = faults + 1
    BY DEF VerifyNext, VerifyEdge, VerifyCount, VerifyCountFails, VerifyCompare, Publish, Fault
  <2> QED
    BY <1>2, <2>1, <2>2, <2>3 DEF Load, LoaderNext
<1>3. ASSUME Poll PROVE faults' = faults \/ faults' = faults + 1
  BY <1>3 DEF Poll, StartPoller, PollTick, PollTransmissions, PollTransmissionsFails,
              IngestNewFromDB, NextObsID, PollObservations, IngestNewObservations, Fault
<1>4. ASSUME RunEviction \/ UNCHANGED vars PROVE faults' = faults
  BY <1>4 DEF RunEviction, vars
<1> QED
  BY <1>1, <1>2, <1>3, <1>4 DEF Next

\* What the poller's queries have in hand: a new transmission comes with every
\* observation the cursor has passed, and the second observation query returns
\* all that the first one made the next cursor of.
ObsInHand ==
    /\ poller = "merge" =>
          \A r \in newRows : \A o \in 1 .. lastObsID : obs[o] = r.tx => o \in r.obs
    /\ poller = "obsQuery" => nextObsID - lastObsID <= ObsLimit
    /\ poller = "obsMerge" /\ faults = 0 =>
          \A o \in lastObsID + 1 .. nextObsID : o \in newObs
    /\ poller = "unstarted" => startID = lastID

\* ObsInHand is preserved: the observations of a query follow the cursor.
LEMMA ObsInHandStep ==
    ASSUME IngestTypes, RowsInHand, faults \in Nat, ObsInHand, [Next]_vars
    PROVE  ObsInHand'
<1>0. /\ Len(obs) \in Nat /\ lastObsID \in 0 .. Len(obs) /\ nextObsID \in 0 .. Len(obs)
      /\ \A o \in 1 .. Len(obs) : obs'[o] = obs[o]
      /\ ObsLimit \in Nat
  BY TypesStep, PollAssumption DEF IngestTypes, DBTypes, TablesGrow
<1>1. faults' = 0 => faults = 0
  BY FaultsStep
<1>2. NewObservations = {x \in lastObsID + 1 .. Len(obs) : x - lastObsID <= ObsLimit}
  BY <1>0, FirstNAfter DEF NewObservations
<1>3. ASSUME UNCHANGED <<poller, newRows, newObs, lastObsID, nextObsID, lastID, startID>> PROVE ObsInHand'
  <2>1. \A o \in 1 .. lastObsID : obs'[o] = obs[o]
    BY <1>0
  <2> QED
    BY <1>1, <1>3, <2>1 DEF ObsInHand
<1>4. ASSUME PollTransmissions PROVE ObsInHand'
  <2> DEFINE got == FirstN({t \in 1 .. Len(txs) : t > lastID}, TxLimit)
  <2>1. /\ newRows' = Rows(got) /\ UNCHANGED <<obs, lastObsID>>
        /\ poller' \in {"nextObs", "merge"}
    BY <1>4 DEF PollTransmissions, db
  <2> HIDE DEF got
  <2>2. \A r \in Rows(got) : r.obs = ObsOf(r.tx)
    BY DEF Rows, Row
  <2>3. ASSUME NEW r \in Rows(got), NEW o \in 1 .. lastObsID, obs[o] = r.tx PROVE o \in r.obs
    BY <1>0, <2>2, <2>3 DEF ObsOf
  <2> QED
    BY <2>1, <2>3 DEF ObsInHand
<1>5. ASSUME NextObsID PROVE ObsInHand'
  <2> DEFINE S == {lastObsID} \union NewObservations
  <2>1. S \in SUBSET (0 .. Len(obs)) /\ S # {} /\ \A x \in S : x - lastObsID <= ObsLimit
    BY <1>0, <1>2
  <2>2. nextObsID' \in S
    <3>1. nextObsID' = Max(S) \/ nextObsID' = lastObsID
      BY <1>5 DEF NextObsID
    <3>2. lastObsID \in S
      OBVIOUS
    <3> HIDE DEF S
    <3>3. Max(S) \in S
      BY <1>0, <2>1, MaxIs
    <3> QED
      BY <3>1, <3>2, <3>3
  <2>3. poller' = "obsQuery" /\ lastObsID' = lastObsID
    BY <1>5 DEF NextObsID
  <2> HIDE DEF S
  <2> QED
    BY <2>1, <2>2, <2>3 DEF ObsInHand
<1>6. ASSUME PollObservations PROVE ObsInHand'
  <2>1. /\ poller = "obsQuery" /\ poller' = "obsMerge" /\ UNCHANGED <<lastObsID, nextObsID>>
        /\ newObs' = NewObservations \/ faults' = faults + 1
    BY <1>6 DEF PollObservations, Fault
  <2>2. \A o \in lastObsID + 1 .. nextObsID : o \in NewObservations
    BY <1>0, <1>2, <2>1 DEF ObsInHand
  <2>3. faults + 1 # 0
    OBVIOUS
  <2> QED
    BY <2>1, <2>2, <2>3 DEF ObsInHand
<1>7. ASSUME Poll, ~PollTransmissions, ~NextObsID, ~PollObservations
      PROVE  poller' \notin {"merge", "obsQuery", "obsMerge", "unstarted"}
  BY <1>7 DEF Poll, StartPoller, PollTick, PollTransmissionsFails, IngestNewFromDB,
              IngestNewObservations
<1>8. ASSUME poller' \notin {"merge", "obsQuery", "obsMerge", "unstarted"} PROVE ObsInHand'
  BY <1>8 DEF ObsInHand
<1>9. ASSUME Write \/ RunEviction \/ UNCHANGED vars
      PROVE  UNCHANGED <<poller, newRows, newObs, lastObsID, nextObsID, lastID, startID>>
  BY <1>9 DEF Write, RunEviction, vars, pollVars
<1>10. ASSUME Load PROVE UNCHANGED <<poller, newRows, newObs, lastObsID, nextObsID, lastID, startID>>
  BY <1>10 DEF Load, pollVars
<1> QED
  BY <1>3, <1>4, <1>5, <1>6, <1>7, <1>8, <1>9, <1>10 DEF Next

\* A transmission that stays in memory keeps its observations.
LEMMA HeldStep ==
    ASSUME IngestTypes, FilledOnce, [Next]_vars,
           NEW t \in Tx, t \in 1 .. Len(txs), InMemory(t), t \notin evicted, t \notin evicted'
    PROVE  HeldObs(t) \subseteq HeldObs(t)'
<1>0. Store(store) /\ store.index[t] \in Maker
  BY DEF IngestTypes, Store, InMemory
<1>1. CASE Load => ~FillIndex
  <2>1. /\ store'.index[t] = store.index[t]
        /\ store.held[t][store.index[t]] \subseteq store'.held[t][store.index[t]]
    BY <1>1, OtherSteps DEF OnlyAdds
  <2> QED
    BY <2>1 DEF HeldObs, InMemory
<1>2. CASE FillIndex
  <2>1. PICK R \in SUBSET {r \in chunk : r.tx \notin indexed} :
           /\ TxsOf(R) \subseteq TxsOf(chunk) \ indexed
           /\ store'.index = [u \in Tx |-> IF u \in TxsOf(R) /\ store.index[u] = "none"
                                           THEN "filled" ELSE store.index[u]]
           /\ \A u \in Tx, m \in Maker :
                 (m # "filled" \/ u \notin TxsOf(R)) => store'.held[u][m] = store.held[u][m]
    BY <1>2, FillIndexIs
  <2>2. store'.index[t] = store.index[t]
    BY <2>1 DEF InMemory
  <2>3. store.index[t] = "filled" => t \notin TxsOf(R)
    BY <1>2, <2>1 DEF FilledOnce, FillIndex
  <2>4. store'.held[t][store.index[t]] = store.held[t][store.index[t]]
    BY <1>0, <2>1, <2>3
  <2> QED
    BY <2>2, <2>4 DEF HeldObs, InMemory
<1> QED
  BY <1>1, <1>2

\* ObsCursorCovers is preserved by every step.
LEMMA ObsCursorStep ==
    ASSUME IngestTypes, RowsInHand, CursorCovers, IndexedExist, FilledOnce, faults \in Nat,
           ObsInHand, ObsCursorCovers, [Next]_vars
    PROVE  ObsCursorCovers'
<1> SUFFICES ASSUME faults' = 0, NEW o \in 1 .. lastObsID',
                    obs'[o] \in startID' + 1 .. lastID', InMemory(obs[o])', obs'[o] \notin evicted'
             PROVE  o \in HeldObs(obs[o])'
  BY DEF ObsCursorCovers
<1>0. /\ DBTypes /\ Store(store) /\ RowsOK(newRows) /\ newObs \in SUBSET (1 .. Len(obs))
      /\ Len(txs) \in Nat /\ Len(txs) <= MaxTx /\ MaxTx \in Nat /\ Len(obs) \in Nat
      /\ lastObsID \in 0 .. Len(obs) /\ nextObsID \in 0 .. Len(obs)
      /\ lastID \in 0 .. Len(txs) /\ startID \in 0 .. Len(txs)
      /\ \A p \in 1 .. Len(obs) : obs'[p] = obs[p] /\ obs[p] \in 1 .. Len(txs)
  <2>1. TablesGrow
    BY TypesStep
  <2>2. \A p \in 1 .. Len(obs) : obs'[p] = obs[p]
    BY <2>1 DEF TablesGrow
  <2>3. Len(txs) \in Nat /\ Len(obs) \in Nat /\ MaxTx \in Nat
    BY DBAssumption DEF IngestTypes, DBTypes
  <2> QED
    BY <2>2, <2>3 DEF IngestTypes, DBTypes
<1>1. faults = 0
  BY FaultsStep
<1>2. evicted \subseteq evicted'
  BY StoreStep DEF IngestTypes, Kept
<1>3. ASSUME NEW t \in 1 .. Len(txs), t \in startID + 1 .. lastID, t \notin evicted,
             poller # "unstarted"
      PROVE  InMemory(t) /\ t \in Tx
  BY <1>0, <1>3 DEF CursorCovers, Tx
<1>4. ASSUME NEW p \in 1 .. lastObsID, NEW t \in 1 .. Len(txs), t = obs[p],
             t \in startID + 1 .. lastID, t \notin evicted', poller # "unstarted"
      PROVE  p \in HeldObs(t)'
  <2>1. InMemory(t) /\ t \in Tx /\ t \notin evicted
    BY <1>2, <1>3, <1>4
  <2>2. p \in HeldObs(t)
    BY <1>1, <1>4, <2>1 DEF ObsCursorCovers
  <2>3. HeldObs(t) \subseteq HeldObs(t)'
    BY <1>4, <2>1, HeldStep
  <2> QED
    BY <2>2, <2>3
<1>5. CASE UNCHANGED <<lastObsID, lastID, startID>> /\ poller # "unstarted"
  <2>1. o \in 1 .. lastObsID /\ o \in 1 .. Len(obs)
    BY <1>0, <1>5
  <2>2. obs'[o] = obs[o] /\ obs[o] \in 1 .. Len(txs)
    BY <1>0, <2>1
  <2> DEFINE t == obs[o]
  <2>3. t \in 1 .. Len(txs) /\ t \in startID + 1 .. lastID /\ t \notin evicted'
    BY <1>5, <2>2
  <2> QED
    BY <1>4, <1>5, <2>1, <2>2, <2>3 DEF HeldObs, InMemory
<1>6. CASE StartPoller(firstChunkReady)
  <2>1. startID' = lastID' /\ lastID' \in Nat
    <3>1. IngestTypes'
      BY TypesStep
    <3>2. lastID' \in 0 .. Len(txs')
      BY <3>1 DEF IngestTypes
    <3>3. startID' = lastID'
      BY <1>6 DEF StartPoller
    <3> QED
      BY <3>2, <3>3
  <2>2. \A n \in Nat : n + 1 .. n = {}
    OBVIOUS
  <2> QED
    BY <2>1, <2>2
<1>7. CASE IngestNewFromDB
  <2>1. /\ poller = "merge" /\ store' = AddRows(store, newRows)
        /\ UNCHANGED <<startID, lastObsID, evicted, obs>> /\ lastID' = Max(TxsOf(newRows))
    BY <1>7 DEF IngestNewFromDB, db
  <2>2. o \in 1 .. lastObsID /\ o \in 1 .. Len(obs)
    BY <1>0, <2>1
  <2>3. obs'[o] = obs[o] /\ obs[o] \in 1 .. Len(txs)
    BY <1>0, <2>2
  <2>4. CASE obs[o] <= lastID
    <3>1. obs[o] \in startID + 1 .. lastID
      BY <1>0, <2>1, <2>3, <2>4
    <3>2. o \in HeldObs(obs[o])'
      BY <1>4, <2>1, <2>2, <2>3, <3>1
    <3> QED
      BY <2>3, <3>2
  <2>5. CASE ~(obs[o] <= lastID)
    <3>1. TxsOf(newRows) \in SUBSET (0 .. Len(txs)) /\ TxsOf(newRows) # {}
      <4>1. TxsOf(newRows) \subseteq 1 .. Len(txs)
        BY <1>0 DEF RowsOK, TxsOf
      <4>2. newRows # {}
        BY <2>1 DEF RowsInHand
      <4>3. TxsOf(newRows) # {}
        BY <4>2 DEF TxsOf
      <4> QED
        BY <1>0, <4>1, <4>3
    <3>2. lastID' \in TxsOf(newRows)
      BY <1>0, <2>1, <3>1, MaxIs
    <3>3. PICK q \in newRows : lastID' = q.tx
      BY <3>2 DEF TxsOf
    <3>4. obs[o] \in lastID + 1 .. q.tx
      BY <1>0, <2>3, <2>5, <3>3
    <3>5. obs[o] \in TxsOf(newRows)
      BY <2>1, <3>4 DEF RowsInHand
    <3>6. PICK r \in newRows : r.tx = obs[o]
      BY <3>5 DEF TxsOf
    <3>7. o \in r.obs
      BY <2>1, <2>2, <3>6 DEF ObsInHand
    <3>8. r.obs \subseteq store'.held[r.tx][store'.index[r.tx]]
      BY <1>0, <2>1, AddRowsStore
    <3> QED
      BY <2>3, <3>6, <3>7, <3>8 DEF HeldObs, InMemory
  <2> QED
    BY <2>4, <2>5
<1>8. CASE IngestNewObservations
  <2>1. /\ poller = "obsMerge" /\ store' = AddObservations(store, newObs)
        /\ UNCHANGED <<startID, lastID, evicted, obs>> /\ lastObsID' = nextObsID
    BY <1>8 DEF IngestNewObservations, db
  <2>2. o \in 1 .. Len(obs)
    BY <1>0, <2>1
  <2>3. obs'[o] = obs[o] /\ obs[o] \in 1 .. Len(txs)
    BY <1>0, <2>2
  <2>4. CASE o <= lastObsID
    <3>1. o \in 1 .. lastObsID
      BY <1>0, <2>2, <2>4
    <3>2. o \in HeldObs(obs[o])'
      BY <1>4, <2>1, <2>3, <3>1
    <3> QED
      BY <2>3, <3>2
  <2>5. CASE ~(o <= lastObsID)
    <3>1. o \in lastObsID + 1 .. nextObsID
      BY <1>0, <2>1, <2>2, <2>5
    <3>2. o \in newObs
      BY <1>1, <2>1, <3>1 DEF ObsInHand
    <3>3. InMemory(obs[o])
      BY <1>3, <2>1, <2>3
    <3>4. /\ store'.index = store.index
          /\ o \in store'.held[obs[o]][store.index[obs[o]]]
      BY <1>0, <2>1, <3>2, <3>3, AddObservationsStore DEF InMemory
    <3> QED
      BY <2>3, <3>3, <3>4 DEF HeldObs, InMemory
  <2> QED
    BY <2>4, <2>5
<1>9. ASSUME PollTick, ~IngestNewFromDB, ~IngestNewObservations
      PROVE  UNCHANGED <<lastObsID, lastID, startID>> /\ poller # "unstarted"
  BY <1>9 DEF PollTick, PollTransmissions, PollTransmissionsFails, NextObsID, PollObservations
<1>10. ASSUME Write \/ RunEviction \/ UNCHANGED vars
       PROVE  UNCHANGED <<lastObsID, lastID, startID, poller>>
  BY <1>10 DEF Write, RunEviction, vars, pollVars
<1>11. ASSUME Load PROVE UNCHANGED <<lastObsID, lastID, startID, poller>>
  BY <1>11 DEF Load, pollVars
<1>12. CASE UNCHANGED <<lastObsID, lastID, startID, poller>> /\ poller = "unstarted"
  <2>1. startID' = lastID /\ lastID' = lastID
    BY <1>12 DEF ObsInHand
  <2>2. \A n \in Nat : n + 1 .. n = {}
    OBVIOUS
  <2> QED
    BY <1>0, <2>1, <2>2
<1> QED
  BY <1>5, <1>6, <1>7, <1>8, <1>9, <1>10, <1>11, <1>12 DEF Next, Poll

\* The invariant behind the two cursors.
CursorInv ==
    /\ IngestTypes /\ RowsInHand /\ FillPlace /\ IndexedExist /\ FilledOnce
    /\ faults \in Nat /\ ObsInHand /\ CursorCovers /\ ObsCursorCovers

\* It holds for every retention window, chunk size, limit and memory bound,
\* with any SQLite errors, upserts and delayed uploads.
THEOREM CursorInvariant == Spec => []CursorInv
<1>1. Init => CursorInv
  <2> SUFFICES ASSUME Init PROVE CursorInv
    OBVIOUS
  <2>1. /\ poller = "unstarted" /\ startID = lastID /\ lastObsID = 0 /\ loader = "begin"
        /\ heard = {} /\ faults = 0 /\ store = EmptyStore
    BY DEF Init, PollInit, LoadInit
  <2>2. \A t \in Tx : store.index[t] = "none"
    BY <2>1 DEF EmptyStore
  <2>3. IngestTypes /\ RowsInHand
    BY InitTypes
  <2>4. 1 .. Len(txs) \subseteq Tx
    BY <2>3, DBAssumption DEF IngestTypes, DBTypes, Tx
  <2>5. FillPlace /\ CursorCovers /\ ObsInHand
    BY <2>1 DEF FillPlace, InWindows, FillStates, ReheardStates, CursorCovers, ObsInHand
  <2>6. IndexedExist /\ FilledOnce
    BY <2>2, <2>4 DEF IndexedExist, FilledOnce, InMemory
  <2>7. ObsCursorCovers
    BY <2>1 DEF ObsCursorCovers
  <2> QED
    BY <2>1, <2>3, <2>5, <2>6, <2>7 DEF CursorInv
<1>2. CursorInv /\ [Next]_vars => CursorInv'
  <2> SUFFICES ASSUME CursorInv, [Next]_vars PROVE CursorInv'
    OBVIOUS
  <2>1. /\ IngestTypes /\ RowsInHand /\ FillPlace /\ IndexedExist /\ FilledOnce
        /\ faults \in Nat /\ ObsInHand /\ CursorCovers /\ ObsCursorCovers
    BY DEF CursorInv
  <2>2. IngestTypes' /\ RowsInHand' /\ CursorCovers'
    BY <2>1, TypesStep, RowsInHandStep, CursorStep
  <2>3. FillPlace' /\ IndexedExist' /\ FilledOnce'
    BY <2>1, FillPlaceStep, IndexedExistStep, FilledOnceStep
  <2>4. faults' \in Nat
    BY <2>1, FaultsStep
  <2>5. ObsInHand' /\ ObsCursorCovers'
    BY <2>1, ObsInHandStep, ObsCursorStep
  <2> QED
    BY <2>2, <2>3, <2>4, <2>5 DEF CursorInv
<1> QED
  BY <1>1, <1>2, PTL DEF Spec

\* For every retention window, chunk size, limit and memory bound, with any
\* SQLite errors, the poller's transmission cursor has passed only rows that
\* were brought into memory: what is missing there was evicted.
THEOREM CursorCoversHolds == Spec => []CursorCovers
<1>1. CursorInv => CursorCovers
  BY DEF CursorInv
<1> QED
  BY <1>1, CursorInvariant, PTL

\* Until a query fails, no observation the cursor has passed is missing from a
\* transmission the poller brought into memory, whatever chunks the loader
\* merges meanwhile and however many observations a tick is limited to.
THEOREM ObsCursorCoversHolds == Spec => []ObsCursorCovers
<1>1. CursorInv => ObsCursorCovers
  BY DEF CursorInv
<1> QED
  BY <1>1, CursorInvariant, PTL

------------------------------------------------------------------------------
\* t is in memory, or was and has been evicted.
Seen(t) == InMemory(t) \/ t \in evicted
\* A later observation of t was written after the load began.
Reheard(t) == \E o \in 1 .. Len(obs) : o > loadStartObsID /\ obs[o] = t

\* Neither in memory nor going to be found by the look at re-heard rows.
Missing(t) == ~Seen(t) /\ ~(hotStartup /\ Reheard(t))

\* Where the load will still meet a missing row.
StillAhead(t) ==
    /\ loader \in {"hotCount", "hotQuery", "hotMerge"} /\ txs[t].last >= HotFrom => t > cursorID
    /\ loader = "hotMerge" /\ txs[t].last >= HotFrom =>
          \/ t \in TxsOf(chunk)
          \/ (\A x \in TxsOf(chunk) : x < t) /\ ~(Cardinality(TxsOf(chunk)) < ChunkSize)
    /\ loader = "hotFinish" => txs[t].last < HotFrom
    /\ InWindows => txs[t].last < oldestLoaded
    /\ InWindows /\ loader = "fillIndex" =>
          t \in TxsOf(chunk) \ indexed \/ txs[t].last < oldestLoaded - 1

\* Where the look at re-heard rows will.
LeftToReheard(t) ==
    \/ loader \in ReheardStates /\ t \in heard
    \/ loader = "fillIndex" /\ t \in TxsOf(chunk) \ indexed

\* The one gap: re-heard, and above the highest id in memory then.
Gap(t) == hotStartup /\ t > heardMaxID /\ Reheard(t)

\* The load has rows still to meet.
Loading == loader \in HotStates \/ InWindows

\* While the load runs, a missing row is one it will still meet.
Reached(t) == IF Loading THEN Missing(t) => StillAhead(t)
              ELSE Seen(t) \/ LeftToReheard(t) \/ Gap(t)

\* A bump of last_seen follows the observation it is for.
Announced(t) == writer.pc = "bump" /\ writer.tx = t => Reheard(t)

\* The inductive invariant of the completeness of the startup load.
HistoryInv ==
    /\ retainedAtStart \subseteq 1 .. Len(txs)
    /\ \A t \in retainedAtStart : txs[t].last >= Floor
    /\ cursorID \in 0 .. Len(txs)
    /\ loader = "begin" => cursorID = 0 /\ retainedAtStart = {}
    /\ loader = "hotCount" => cursorID = 0
    /\ faults = 0 /\ loader # "begin" =>
          /\ loadStartObsID \in 0 .. Len(obs)
          /\ \A t \in retainedAtStart : Announced(t) /\ Reached(t)

\* last_seen of a row moves in one place.
LEMMA LastMoves ==
    ASSUME IngestTypes, [Next]_vars, NEW t \in 1 .. Len(txs), txs'[t].last # txs[t].last
    PROVE  Write /\ writer.pc = "bump" /\ writer.tx = t
<1>0. txs \in Seq([first : Stamp, last : Stamp]) /\ Len(txs) \in Nat
  BY DEF IngestTypes, DBTypes
<1>1. ASSUME Load PROVE txs' = txs
  BY <1>1, LoadRows DEF db
<1>2. ASSUME Poll PROVE txs' = txs
  BY <1>2 DEF Poll, StartPoller, PollTick, PollTransmissions, PollTransmissionsFails,
              IngestNewFromDB, NextObsID, PollObservations, IngestNewObservations, db
<1>3. ASSUME RunEviction \/ UNCHANGED vars PROVE txs' = txs
  BY <1>3 DEF RunEviction, vars, db
<1>4. Write
  BY <1>1, <1>2, <1>3 DEF Next
<1>5. ASSUME NEW rx \in RxTimes, InsertTransmission(rx) PROVE txs'[t] = txs[t]
  <2>1. txs' = Append(txs, [first |-> rx, last |-> rx])
    BY <1>5 DEF InsertTransmission
  <2>2. rx \in Stamp
    BY DBAssumption DEF Stamp
  <2> QED
    BY <1>0, <2>1, <2>2, AppendProperties
<1>6. ASSUME NEW u \in 1 .. Len(txs), NEW rx \in RxTimes, RehearTransmission(u, rx)
      PROVE  txs'[t].last = txs[t].last
  <2>1. txs' = [txs EXCEPT ![u].first = IF rx < @ THEN rx ELSE @]
    BY <1>6 DEF RehearTransmission
  <2>2. txs[t] \in [first : Stamp, last : Stamp] /\ t \in DOMAIN txs /\ u \in DOMAIN txs
    BY <1>0, ElementOfSeq, LenProperties
  <2> QED
    BY <2>1, <2>2
<1>7. ASSUME WriteObservation \/ WriteObservationFails PROVE txs' = txs
  BY <1>7 DEF WriteObservation, WriteObservationFails
<1>8. BumpLastSeen
  BY <1>4, <1>5, <1>6, <1>7 DEF Write, WriterNext
<1>9. /\ writer.pc = "bump"
      /\ txs' = [txs EXCEPT ![writer.tx].last = IF @ < writer.rx THEN writer.rx ELSE @]
  BY <1>8 DEF BumpLastSeen
<1>10. ASSUME writer.tx # t PROVE FALSE
  <2>1. t \in DOMAIN txs
    BY <1>0, LenProperties
  <2> QED
    BY <1>9, <1>10, <2>1
<1> QED
  BY <1>4, <1>9, <1>10

\* With every observation a row of its own, a bump was announced by one.
LEMMA AnnouncedStep ==
    ASSUME IngestTypes, "upsert" \notin ObsWrites, [Next]_vars,
           loadStartObsID' = loadStartObsID, loadStartObsID \in 0 .. Len(obs),
           NEW t, Announced(t)
    PROVE  Announced(t)' /\ (Reheard(t) => Reheard(t)')
<1>0. obs \in Seq(Tx) /\ Len(obs) \in Nat /\ writer.tx \in 0 .. MaxTx
      /\ (writer.pc # "idle" => writer.tx \in Tx)
  <2>1. /\ obs \in Seq(Tx) /\ Len(txs) \in Nat /\ Len(txs) <= MaxTx
        /\ writer \in [pc : {"idle", "observe", "bump"}, tx : 0 .. MaxTx, rx : Stamp]
        /\ writer.pc # "idle" => writer.tx \in 1 .. Len(txs)
    BY DEF IngestTypes, DBTypes, WriterTypes
  <2> QED
    BY <2>1, DBAssumption DEF Tx
<1>1. ASSUME UNCHANGED <<obs, writer>> PROVE Announced(t)' /\ (Reheard(t) => Reheard(t)')
  BY <1>1 DEF Announced, Reheard
<1>2. ASSUME ~Write PROVE UNCHANGED <<obs, writer>>
  <2>1. ASSUME Load PROVE UNCHANGED <<obs, writer>>
    BY <2>1, LoadRows DEF db
  <2>2. ASSUME Poll PROVE UNCHANGED <<obs, writer>>
    BY <2>2 DEF Poll, StartPoller, PollTick, PollTransmissions, PollTransmissionsFails,
                IngestNewFromDB, NextObsID, PollObservations, IngestNewObservations, db
  <2>3. ASSUME RunEviction \/ UNCHANGED vars PROVE UNCHANGED <<obs, writer>>
    BY <2>3 DEF RunEviction, vars, db
  <2> QED
    BY <1>2, <2>1, <2>2, <2>3 DEF Next
<1>3. ASSUME obs' = obs, writer'.pc # "bump" PROVE Announced(t)' /\ (Reheard(t) => Reheard(t)')
  BY <1>3 DEF Announced, Reheard
<1>4. ASSUME Write, ~WriteObservation PROVE obs' = obs /\ writer'.pc # "bump"
  <2>1. ASSUME NEW rx, InsertTransmission(rx) PROVE obs' = obs /\ writer'.pc = "observe"
    BY <2>1 DEF InsertTransmission
  <2>2. ASSUME NEW u, NEW rx, RehearTransmission(u, rx) PROVE obs' = obs /\ writer'.pc = "observe"
    BY <2>2 DEF RehearTransmission
  <2>3. ASSUME WriteObservationFails \/ BumpLastSeen PROVE obs' = obs /\ writer'.pc = "idle"
    BY <2>3 DEF WriteObservationFails, BumpLastSeen, Idle
  <2> QED
    BY <1>4, <2>1, <2>2, <2>3 DEF Write, WriterNext
<1>5. ASSUME WriteObservation PROVE Announced(t)' /\ (Reheard(t) => Reheard(t)')
  <2>1. obs' = Append(obs, writer.tx) /\ writer' = [writer EXCEPT !.pc = "bump"]
        /\ writer.pc = "observe"
    BY <1>5 DEF WriteObservation
  <2>2. writer.tx \in Tx /\ writer'.tx = writer.tx
    BY <1>0, <2>1 DEF IngestTypes, WriterTypes
  <2>3. /\ Len(obs') = Len(obs) + 1 /\ obs'[Len(obs) + 1] = writer.tx
        /\ \A o \in 1 .. Len(obs) : obs'[o] = obs[o]
    BY <1>0, <2>1, <2>2, AppendProperties
  <2>4. writer.tx = t => Reheard(t)'
    <3>1. Len(obs) + 1 \in 1 .. Len(obs') /\ Len(obs) + 1 > loadStartObsID'
      BY <1>0, <2>3
    <3> QED
      BY <2>3, <3>1 DEF Reheard
  <2>5. Reheard(t) => Reheard(t)'
    <3>1. 1 .. Len(obs) \subseteq 1 .. Len(obs')
      BY <1>0, <2>3
    <3> QED
      BY <2>3, <3>1 DEF Reheard
  <2> QED
    BY <2>2, <2>4, <2>5 DEF Announced
<1> QED
  BY <1>1, <1>2, <1>3, <1>4, <1>5

\* Outside Load only the writer can disturb Reached, and it announces itself.
LEMMA ReachedFrame ==
    ASSUME CursorInv, HistoryInv, "upsert" \notin ObsWrites, [Next]_vars, ~Load,
           faults = 0, loader # "begin", NEW t \in retainedAtStart
    PROVE  Reached(t)'
<1>0. /\ IngestTypes /\ RowsInHand /\ FillPlace /\ t \in 1 .. Len(txs) /\ t \in Tx
      /\ txs[t].last >= Floor /\ Announced(t) /\ Reached(t) /\ loadStartObsID \in 0 .. Len(obs)
  <2>1. IngestTypes /\ RowsInHand /\ FillPlace /\ t \in 1 .. Len(txs)
    BY DEF CursorInv, HistoryInv
  <2>2. t \in Tx
    BY <2>1, DBAssumption DEF IngestTypes, DBTypes, Tx
  <2> QED
    BY <2>1, <2>2 DEF HistoryInv
<1>1. UNCHANGED <<hotStartup, loader, cursorID, chunk, indexed, loadStartObsID, oldestLoaded, heard,
                  heardMaxID>>
  BY LoadFrame
<1>2. Reheard(t) => Reheard(t)'
  BY <1>0, <1>1, AnnouncedStep
<1>3. Seen(t) => Seen(t)'
  BY <1>0, StoreStep DEF Kept, Seen, IngestTypes
<1>4. /\ Loading' = Loading /\ InWindows' = InWindows /\ TxsOf(chunk)' = TxsOf(chunk)
      /\ HotFrom' = HotFrom /\ LeftToReheard(t)' = LeftToReheard(t)
  BY <1>1 DEF Loading, InWindows, TxsOf, HotFrom, LeftToReheard
<1>5. CASE ~Loading
  BY <1>0, <1>1, <1>2, <1>3, <1>4, <1>5 DEF Reached, Gap
<1>6. CASE Loading /\ txs'[t].last = txs[t].last
  <2>1. Missing(t)' => Missing(t)
    BY <1>1, <1>2, <1>3 DEF Missing
  <2>2. StillAhead(t) => StillAhead(t)'
    BY <1>1, <1>4, <1>6 DEF StillAhead
  <2> QED
    BY <1>0, <1>4, <1>6, <2>1, <2>2 DEF Reached
<1>7. CASE Loading /\ txs'[t].last # txs[t].last
  <2>1. Reheard(t)
    BY <1>0, <1>7, LastMoves DEF Announced
  <2>2. CASE hotStartup
    BY <1>1, <1>2, <1>4, <1>7, <2>1, <2>2 DEF Reached, Missing
  <2>3. CASE ~hotStartup
    <3>1. HotFrom = Floor /\ ~InWindows
      BY <1>0, <2>3 DEF HotFrom, FillPlace, InWindows
    <3>2. Missing(t)' => Missing(t)
      BY <1>1, <1>2, <1>3 DEF Missing
    <3>3. Floor \in Nat /\ txs[t].last \in Nat
      <4>1. txs[t] \in [first : Stamp, last : Stamp]
        BY <1>0, ElementOfSeq DEF IngestTypes, DBTypes
      <4> QED
        BY <4>1, DBAssumption, StoreAssumption DEF Stamp
    <3>4. loader = "hotFinish" => ~(txs[t].last < HotFrom)
      BY <1>0, <3>1, <3>3
    <3>5. StillAhead(t) => StillAhead(t)'
      BY <1>0, <1>1, <1>4, <3>1, <3>4 DEF StillAhead
    <3> QED
      BY <1>0, <1>4, <1>7, <3>2, <3>5 DEF Reached
  <2> QED
    BY <2>2, <2>3
<1> QED
  BY <1>5, <1>6, <1>7

\* What the loader leaves alone once it has begun.
LEMMA LoadKeeps ==
    ASSUME Load, loader # "begin"
    PROVE  /\ UNCHANGED <<hotStartup, loadStartObsID, retainedAtStart>>
           /\ loader' # "begin" /\ loader' # "hotCount"
           /\ cursorID' = cursorID \/ HotMerge \/ HotFinish
           /\ heardMaxID' = heardMaxID \/ ReheardQuery
<1>1. \/ HotCount \/ HotQuery \/ HotMerge \/ HotFails \/ HotFinish \/ FillBegin \/ FillQuery
      \/ FillFails
      => /\ loadStartObsID' = loadStartObsID
         /\ loader' # "begin" /\ loader' # "hotCount"
         /\ cursorID' = cursorID \/ HotMerge \/ HotFinish
         /\ heardMaxID' = heardMaxID \/ ReheardQuery
  BY DEF HotCount, HotQuery, HotMerge, HotFails, HotFinish, FillBegin, FillQuery, FillFails, fillVars
<1>2. \/ FillIndex \/ FillPublish \/ ReheardQuery \/ ReheardMissing \/ ReheardLoad
      \/ ReheardFails \/ FillMeasure \/ Finish(retainedFrom # Unproven)
      => /\ loadStartObsID' = loadStartObsID
         /\ loader' # "begin" /\ loader' # "hotCount"
         /\ cursorID' = cursorID \/ HotMerge \/ HotFinish
         /\ heardMaxID' = heardMaxID \/ ReheardQuery
  BY DEF FillIndex, FillPublish, ReheardQuery, ReheardMissing, ReheardLoad, ReheardFails,
         FillMeasure, Finish, fillVars
<1>3. VerifyNext
      => /\ loadStartObsID' = loadStartObsID
         /\ loader' # "begin" /\ loader' # "hotCount"
         /\ cursorID' = cursorID \/ HotMerge \/ HotFinish
         /\ heardMaxID' = heardMaxID \/ ReheardQuery
  BY DEF VerifyNext, VerifyEdge, VerifyCount, VerifyCountFails, VerifyCompare, Publish, At, fillVars
<1>4. ~BeginLoad
  BY DEF BeginLoad
<1>5. UNCHANGED <<hotStartup, retainedAtStart>>
  BY DEF Load
<1> QED
  BY <1>1, <1>2, <1>3, <1>4, <1>5 DEF Load, LoaderNext

\* The loader's own steps: the hot load by ids, then the windows backwards,
\* then the re-heard rows.
LEMMA ReachedLoad ==
    ASSUME CursorInv, HistoryInv, Load, [Next]_vars, faults = 0, faults' = 0,
           loader # "begin", NEW t \in retainedAtStart
    PROVE  Reached(t)'
<1>0. /\ IngestTypes /\ FillPlace /\ t \in 1 .. Len(txs) /\ t \in Tx /\ Len(txs) \in Nat
      /\ txs[t].last >= Floor /\ Reached(t) /\ loadStartObsID \in 0 .. Len(obs)
      /\ cursorID \in 0 .. Len(txs) /\ Floor \in Nat /\ txs[t].last \in Nat /\ ChunkSize \in Nat
      /\ HotFrom \in Nat
  <2>1. IngestTypes /\ FillPlace /\ t \in 1 .. Len(txs) /\ Len(txs) \in Nat
    BY DEF CursorInv, HistoryInv, IngestTypes, DBTypes
  <2>2. t \in Tx
    BY <2>1, DBAssumption DEF IngestTypes, DBTypes, Tx
  <2>3. txs[t] \in [first : Stamp, last : Stamp]
    BY <2>1, ElementOfSeq DEF IngestTypes, DBTypes
  <2>4. /\ Floor \in Nat /\ txs[t].last \in Nat /\ ChunkSize \in Nat /\ HotFrom \in Nat
    BY <2>3, DBAssumption, StoreAssumption, LoadAssumption DEF Stamp, HotFrom
  <2> QED
    BY <2>1, <2>2, <2>4 DEF HistoryInv
<1>1. UNCHANGED <<txs, obs, evicted, hotStartup, loadStartObsID>>
  BY <1>0, LoadRows, LoadKeeps DEF db
<1>2. Seen(t) => Seen(t)'
  BY <1>0, StoreStep DEF Kept, Seen, IngestTypes
<1>3. /\ Reheard(t)' = Reheard(t) /\ (Missing(t)' => Missing(t)) /\ HotFrom' = HotFrom
      /\ TxsOf(chunk)' = TxsOf(chunk')
  BY <1>1, <1>2 DEF Reheard, Missing, HotFrom, TxsOf
<1>4. ~Fault
  BY DEF Fault
<1>5. ASSUME loader' \in HotStates \/ (loader' \in FillStates /\ heard' = {}),
             Missing(t)' => StillAhead(t)'
      PROVE  Reached(t)'
  BY <1>5 DEF Reached, Loading, InWindows
<1>6. ASSUME ~(loader' \in HotStates \/ (loader' \in FillStates /\ heard' = {})),
             Seen(t)' \/ LeftToReheard(t)' \/ Gap(t)'
      PROVE  Reached(t)'
  BY <1>6 DEF Reached, Loading, InWindows
<1>7. CASE HotCount
  <2>1. loader = "hotCount" /\ loader' = "hotQuery" /\ UNCHANGED <<cursorID, heard>>
    BY <1>7 DEF HotCount
  <2>2. Missing(t) => StillAhead(t)
    BY <1>0, <2>1 DEF Reached, Loading, HotStates
  <2>3. StillAhead(t) => StillAhead(t)'
    BY <1>1, <1>3, <2>1 DEF StillAhead, InWindows, FillStates
  <2> QED
    BY <1>3, <1>5, <2>1, <2>2, <2>3 DEF HotStates
<1>8. CASE HotQuery
  <2> DEFINE ids == {u \in SeenSince(HotFrom) : u > cursorID}
             got == FirstN(ids, ChunkSize)
  <2>1. /\ loader = "hotQuery" /\ loader' = "hotMerge" /\ UNCHANGED cursorID /\ chunk' = Rows(got)
    BY <1>8 DEF HotQuery
  <2>2. ids \in SUBSET Nat /\ IsFiniteSet(ids) /\ ids \subseteq 1 .. Len(txs)
    <3>1. IsFiniteSet(1 .. Len(txs))
      BY <1>0, FS_Interval
    <3>2. ids \subseteq 1 .. Len(txs)
      BY DEF SeenSince
    <3> QED
      BY <1>0, <3>1, <3>2, FS_Subset
  <2>3. got \subseteq ids
    BY DEF FirstN
  <2>4. TxsOf(chunk') = got
    BY <2>1, <2>2, <2>3, RowsAreOK
  <2>5. ASSUME Missing(t), txs[t].last >= HotFrom
        PROVE  /\ t > cursorID
               /\ \/ t \in got
                  \/ (\A x \in got : x < t) /\ ~(Cardinality(got) < ChunkSize)
    <3>1. t > cursorID
      BY <1>0, <2>1, <2>5 DEF Reached, Loading, HotStates, StillAhead
    <3>2. t \in ids
      BY <1>0, <2>5, <3>1 DEF SeenSince
    <3> HIDE DEF ids
    <3>3. ASSUME t \notin got, NEW x \in got PROVE x < t
      <4>1. x \in ids
        BY <2>3, <3>3
      <4>2. x \in Nat /\ t \in Nat
        BY <1>0, <2>2, <4>1
      <4>3. ASSUME t <= x PROVE FALSE
        <5>1. x \in FirstN(ids, ChunkSize)
          BY <3>3
        <5>2. t \in FirstN(ids, ChunkSize)
          BY <1>0, <2>2, <3>2, <4>3, <5>1, FirstNClosed
        <5> QED
          BY <3>3, <5>2
      <4> QED
        BY <4>2, <4>3
    <3>4. Cardinality(got) < ChunkSize => got = ids
      BY <1>0, <2>2, ShortIsAll
    <3> QED
      BY <3>1, <3>2, <3>3, <3>4
  <2> HIDE DEF got
  <2>6. Missing(t)' => StillAhead(t)'
    BY <1>1, <1>3, <2>1, <2>4, <2>5 DEF StillAhead, InWindows, FillStates
  <2> QED
    BY <1>5, <2>1, <2>6 DEF HotStates
<1>9. CASE HotMerge
  <2>1. /\ loader = "hotMerge" /\ store' = AddRows(store, chunk)
        /\ cursorID' = Max({cursorID} \union TxsOf(chunk))
        /\ loader' = IF Cardinality(TxsOf(chunk)) < ChunkSize THEN "hotFinish" ELSE "hotQuery"
    BY <1>9 DEF HotMerge
  <2>2. DBTypes /\ Store(store) /\ RowsOK(chunk)
    BY <1>0 DEF IngestTypes
  <2>3. t \in TxsOf(chunk) => Seen(t)'
    <3>1. store'.index = [u \in Tx |-> IF u \in TxsOf(chunk) /\ store.index[u] = "none"
                                       THEN "merged" ELSE store.index[u]]
      BY <2>1, <2>2, AddRowsStore
    <3> QED
      BY <1>0, <3>1 DEF Seen, InMemory
  <2>4. cursorID' \in {cursorID} \union TxsOf(chunk)
    <3> DEFINE S == {cursorID} \union TxsOf(chunk)
    <3>1. TxsOf(chunk) \subseteq 1 .. Len(txs)
      BY <2>2 DEF RowsOK, TxsOf
    <3>2. S \in SUBSET (0 .. Len(txs)) /\ S # {}
      BY <1>0, <3>1
    <3>3. cursorID' = Max(S)
      BY <2>1
    <3> HIDE DEF S
    <3>4. Max(S) \in S
      BY <1>0, <3>2, MaxIs
    <3> QED
      BY <3>3, <3>4 DEF S
  <2>5. ASSUME Missing(t)', txs[t].last >= HotFrom
        PROVE  t > cursorID' /\ loader' = "hotQuery"
    <3>1. Missing(t) /\ t \notin TxsOf(chunk)
      BY <1>3, <2>3, <2>5 DEF Missing
    <3>2. StillAhead(t)
      BY <1>0, <2>1, <3>1 DEF Reached, Loading, HotStates
    <3>3. t > cursorID /\ (\A x \in TxsOf(chunk) : x < t) /\ ~(Cardinality(TxsOf(chunk)) < ChunkSize)
      BY <2>1, <2>5, <3>1, <3>2 DEF StillAhead
    <3>4. \A x \in TxsOf(chunk) : x \in Nat
      BY <2>2 DEF RowsOK, TxsOf
    <3> QED
      BY <1>0, <2>1, <2>4, <3>3, <3>4
  <2>6. loader' \in {"hotQuery", "hotFinish"}
    BY <2>1
  <2>7. txs[t].last >= HotFrom \/ txs[t].last < HotFrom
    BY <1>0
  <2>8. Missing(t)' => StillAhead(t)'
    BY <1>1, <1>3, <2>5, <2>6, <2>7 DEF StillAhead, InWindows, FillStates
  <2> QED
    BY <1>5, <2>6, <2>8 DEF HotStates
<1>10. CASE HotFinish
  <2>1. /\ loader = "hotFinish" /\ loader' = IF hotStartup THEN "fillBegin" ELSE "verify"
        /\ hotStartup => oldestLoaded' = HotCutoff
        /\ heard' = heard /\ heard = {}
    BY <1>0, <1>10 DEF HotFinish, FillPlace, HotStates
  <2>2. Missing(t) => txs[t].last < HotFrom
    BY <1>0, <2>1 DEF Reached, Loading, HotStates, StillAhead
  <2>3. CASE hotStartup
    <3>1. Missing(t)' => StillAhead(t)'
      BY <1>1, <1>3, <2>1, <2>2, <2>3 DEF StillAhead, HotFrom
    <3> QED
      BY <1>5, <2>1, <2>3, <3>1 DEF FillStates
  <2>4. CASE ~hotStartup
    <3>1. Seen(t)
      BY <1>0, <2>2, <2>4 DEF Missing, HotFrom
    <3> QED
      BY <1>2, <1>6, <2>1, <2>4, <3>1 DEF HotStates, FillStates
  <2> QED
    BY <2>3, <2>4
<1>11. CASE FillBegin
  <2>1. loader = "fillBegin" /\ loader' = "fillQuery" /\ UNCHANGED <<heard, oldestLoaded>>
        /\ heard = {}
    BY <1>0, <1>11 DEF FillBegin, FillPlace
  <2>2. Missing(t) => StillAhead(t)
    BY <1>0, <2>1 DEF Reached, Loading, InWindows, FillStates
  <2>3. StillAhead(t) => StillAhead(t)'
    BY <1>1, <2>1 DEF StillAhead, InWindows, FillStates
  <2> QED
    BY <1>3, <1>5, <2>1, <2>2, <2>3 DEF FillStates
<1>12. CASE FillQuery
  <2>1. WindowStart = oldestLoaded - 1 /\ oldestLoaded \in Nat
    BY <1>0, <1>12, WindowIs DEF FillQuery, FillPlace, InWindows, FillStates
  <2> DEFINE W == Window(WindowStart, oldestLoaded)
  <2>2. /\ loader = "fillQuery" /\ heard = {} /\ heard' = heard
        /\ chunk' = Rows(W) /\ indexed' = {}
        /\ loader' = IF chunk' = {} THEN "fillQuery" ELSE "fillIndex"
        /\ oldestLoaded' = IF chunk' = {} THEN WindowStart ELSE oldestLoaded
    BY <1>0, <1>12 DEF FillQuery, FillPlace
  <2>3. TxsOf(chunk') = W
    <3>1. W \in SUBSET (1 .. Len(txs))
      BY DEF Window, SeenSince
    <3> HIDE DEF W
    <3> QED
      BY <2>2, <3>1, RowsAreOK
  <2>4. Missing(t) => txs[t].last < oldestLoaded
    BY <1>0, <2>2 DEF Reached, Loading, InWindows, FillStates, StillAhead
  <2>5. Missing(t) => t \in W \/ txs[t].last < oldestLoaded - 1
    BY <1>0, <2>1, <2>4 DEF Window, SeenSince
  <2>6. chunk' = {} => W = {}
    BY <2>3 DEF TxsOf
  <2> HIDE DEF W
  <2>7. CASE chunk' = {}
    <3>1. Missing(t)' => StillAhead(t)'
      BY <1>1, <1>3, <2>1, <2>2, <2>5, <2>6, <2>7 DEF StillAhead, InWindows, FillStates
    <3> QED
      BY <1>5, <2>2, <2>7, <3>1 DEF FillStates
  <2>8. CASE chunk' # {}
    <3>1. Missing(t)' => StillAhead(t)'
      BY <1>1, <1>3, <2>1, <2>2, <2>3, <2>4, <2>5, <2>8 DEF StillAhead, InWindows, FillStates
    <3> QED
      BY <1>5, <2>2, <2>8, <3>1 DEF FillStates
  <2> QED
    BY <2>7, <2>8

<1>13. CASE FillIndex
  <2>1. PICK R \in SUBSET {r \in chunk : r.tx \notin indexed} :
           /\ indexed' = indexed \union TxsOf(R)
           /\ store'.index = [u \in Tx |-> IF u \in TxsOf(R) /\ store.index[u] = "none"
                                           THEN "filled" ELSE store.index[u]]
    BY <1>0, <1>13, FillIndexIs
  <2>2. UNCHANGED <<loader, chunk, heard, heardMaxID, oldestLoaded>> /\ loader = "fillIndex"
    BY <1>13 DEF FillIndex, fillVars
  <2>3. t \in TxsOf(R) => Seen(t)'
    BY <1>0, <2>1 DEF Seen, InMemory
  <2>4. CASE heard = {}
    <3>1. Missing(t) => StillAhead(t)
      BY <1>0, <2>2, <2>4 DEF Reached, Loading, InWindows, FillStates
    <3>2. Missing(t)' => t \notin TxsOf(R)
      BY <2>3 DEF Missing
    <3>3. StillAhead(t) /\ t \notin TxsOf(R) => StillAhead(t)'
      BY <1>1, <1>3, <2>1, <2>2 DEF StillAhead, InWindows, FillStates
    <3> QED
      BY <1>3, <1>5, <2>2, <2>4, <3>1, <3>2, <3>3 DEF FillStates
  <2>5. CASE heard # {}
    <3>1. Seen(t) \/ t \in TxsOf(chunk) \ indexed \/ Gap(t)
      BY <1>0, <2>2, <2>5 DEF Reached, Loading, InWindows, HotStates, LeftToReheard, ReheardStates
    <3>2. Gap(t) => Gap(t)'
      BY <1>1, <1>3, <2>2 DEF Gap
    <3>3. t \in TxsOf(chunk) \ indexed => Seen(t)' \/ LeftToReheard(t)'
      BY <1>3, <2>1, <2>2, <2>3 DEF LeftToReheard
    <3> QED
      BY <1>2, <1>6, <2>2, <2>5, <3>1, <3>2, <3>3 DEF HotStates
  <2> QED
    BY <2>4, <2>5
<1>14. CASE FillPublish
  <2>1. /\ loader = "fillIndex" /\ indexed = TxsOf(chunk) /\ UNCHANGED <<heard, heardMaxID>>
        /\ heard = {} => loader' = "fillQuery" /\ oldestLoaded' = WindowStart
        /\ heard # {} => loader' = "fillFinish"
    BY <1>14 DEF FillPublish
  <2>2. CASE heard = {}
    <3>1. WindowStart = oldestLoaded - 1
      BY <1>0, <2>1, <2>2, WindowIs DEF FillPlace, InWindows, FillStates
    <3>2. Missing(t) => txs[t].last < oldestLoaded - 1
      BY <1>0, <2>1, <2>2 DEF Reached, Loading, InWindows, FillStates, StillAhead
    <3>3. Missing(t)' => StillAhead(t)'
      BY <1>1, <1>3, <2>1, <2>2, <3>1, <3>2 DEF StillAhead, InWindows, FillStates
    <3> QED
      BY <1>5, <2>1, <2>2, <3>3 DEF FillStates
  <2>3. CASE heard # {}
    <3>1. Seen(t) \/ Gap(t)
      BY <1>0, <2>1, <2>3 DEF Reached, Loading, InWindows, HotStates, LeftToReheard, ReheardStates
    <3>2. Gap(t) => Gap(t)'
      BY <1>1, <1>3, <2>1 DEF Gap
    <3> QED
      BY <1>2, <1>6, <2>1, <2>3, <3>1, <3>2 DEF HotStates, FillStates
  <2> QED
    BY <2>2, <2>3
<1>15. CASE ReheardQuery
  <2> DEFINE since == {obs[o] : o \in {o \in 1 .. Len(obs) : o > loadStartObsID}}
  <2>1. /\ loader = "fillQuery" /\ oldestLoaded <= Floor /\ heard = {}
        /\ heard' = {u \in since : u <= heardMaxID'} /\ heardMaxID' = store.maxTxID
        /\ loader' = IF heard' = {} THEN "fillFinish" ELSE "reheard"
    <3>1. ~(loadStartObsID < 0)
      BY <1>0
    <3> QED
      BY <1>0, <1>15, <3>1 DEF ReheardQuery, FillPlace
  <2>2. oldestLoaded \in Nat /\ hotStartup
    BY <1>0, <2>1 DEF FillPlace, InWindows, FillStates
  <2>3. Missing(t) => txs[t].last < oldestLoaded
    BY <1>0, <2>1 DEF Reached, Loading, InWindows, FillStates, StillAhead
  <2>4. ~Missing(t)
    BY <1>0, <2>1, <2>2, <2>3
  <2>5. Seen(t) \/ Reheard(t)
    BY <2>4 DEF Missing
  <2>6. store.maxTxID \in Nat
    BY <1>0 DEF IngestTypes, Store
  <2>7. Reheard(t) => t \in heard' \/ Gap(t)'
    <3>1. Reheard(t) => t \in since
      BY DEF Reheard
    <3>2. t <= heardMaxID' \/ t > heardMaxID'
      BY <1>0, <2>1, <2>6
    <3> QED
      BY <1>1, <1>3, <2>1, <2>2, <3>1, <3>2 DEF Gap
  <2>8. t \in heard' => LeftToReheard(t)'
    BY <2>1 DEF LeftToReheard, ReheardStates
  <2> QED
    BY <1>2, <1>6, <2>1, <2>5, <2>7, <2>8 DEF HotStates, FillStates
<1>16. ASSUME ~Loading, loader' \notin HotStates, ~(loader' \in FillStates /\ heard' = {}),
              heardMaxID' = heardMaxID, LeftToReheard(t) => Seen(t)' \/ LeftToReheard(t)'
       PROVE  Reached(t)'
  <2>1. Seen(t) \/ LeftToReheard(t) \/ Gap(t)
    BY <1>0, <1>16 DEF Reached
  <2>2. Gap(t) => Gap(t)'
    BY <1>1, <1>3, <1>16 DEF Gap
  <2> QED
    BY <1>2, <1>6, <1>16, <2>1, <2>2
<1>17. CASE ReheardMissing
  <2>1. /\ loader = "reheard" /\ heard' = {u \in heard : ~InMemory(u)} /\ heardMaxID' = heardMaxID
        /\ loader' = IF heard' = {} THEN "fillFinish" ELSE "reheardQuery"
    BY <1>17 DEF ReheardMissing
  <2>2. LeftToReheard(t) => Seen(t) \/ t \in heard'
    BY <2>1 DEF LeftToReheard, Seen
  <2>3. t \in heard' => LeftToReheard(t)'
    BY <2>1 DEF LeftToReheard, ReheardStates
  <2> QED
    BY <1>2, <1>16, <2>1, <2>2, <2>3 DEF Loading, InWindows, HotStates, FillStates
<1>18. CASE ReheardLoad
  <2>1. /\ loader = "reheardQuery" /\ chunk' = Rows(heard) /\ indexed' = {} /\ heard # {}
        /\ loader' = "fillIndex" /\ UNCHANGED <<heard, heardMaxID>>
    BY <1>0, <1>18 DEF ReheardLoad, fillVars, FillPlace, ReheardStates
  <2>2. TxsOf(chunk') = heard
    BY <1>0, <2>1, RowsAreOK DEF IngestTypes
  <2>3. LeftToReheard(t) => LeftToReheard(t)'
    BY <1>3, <2>1, <2>2 DEF LeftToReheard
  <2> QED
    BY <1>16, <2>1, <2>3 DEF Loading, InWindows, HotStates, FillStates
<1>19. CASE FillMeasure \/ Finish(retainedFrom # Unproven) \/ VerifyNext
  <2>1. loader \in {"fillFinish", "finish", "verify", "count", "compare", "publish"}
    BY <1>19 DEF FillMeasure, Finish, VerifyNext, VerifyEdge, VerifyCount, VerifyCountFails,
                 VerifyCompare, Publish, At
  <2>2. loader' \in {"verify", "finish", "ended", "count", "compare", "publish"}
    BY <1>19 DEF FillMeasure, Finish, VerifyNext, VerifyEdge, VerifyCount, VerifyCountFails,
                 VerifyCompare, Publish, At
  <2>3. heardMaxID' = heardMaxID
    BY <2>1, LoadKeeps DEF ReheardQuery
  <2>4. ~LeftToReheard(t)
    BY <2>1 DEF LeftToReheard, ReheardStates
  <2> QED
    BY <1>16, <2>1, <2>2, <2>3, <2>4 DEF Loading, InWindows, HotStates, FillStates
<1>20. ~BeginLoad /\ ~HotFails /\ ~FillFails /\ ~ReheardFails
  BY <1>4 DEF BeginLoad, HotFails, FillFails, ReheardFails
<1> QED
  BY <1>7, <1>8, <1>9, <1>10, <1>11, <1>12, <1>13, <1>14, <1>15, <1>17, <1>18, <1>19, <1>20
     DEF Load, LoaderNext

\* Where the hot cursor is.
LEMMA HotCursorStep ==
    ASSUME CursorInv, HistoryInv, [Next]_vars
    PROVE  /\ cursorID' \in 0 .. Len(txs')
           /\ loader' = "begin" => cursorID' = 0 /\ retainedAtStart' = {}
           /\ loader' = "hotCount" => cursorID' = 0
<1>0. /\ IngestTypes /\ cursorID \in 0 .. Len(txs) /\ Len(txs) \in Nat /\ Len(txs') \in Nat
      /\ Len(txs) <= Len(txs')
  <2>1. IngestTypes /\ IngestTypes'
    BY TypesStep DEF CursorInv
  <2>2. Len(txs) <= Len(txs')
    BY TypesStep DEF CursorInv, TablesGrow
  <2> QED
    BY <2>1, <2>2, SMTT(30) DEF HistoryInv, IngestTypes, DBTypes
<1>1. CASE ~Load
  <2>1. UNCHANGED <<loader, cursorID, retainedAtStart>>
    BY <1>1, LoadFrame
  <2> QED
    BY <1>0, <2>1 DEF HistoryInv
<1>2. CASE Load /\ loader = "begin"
  <2>1. BeginLoad
    BY <1>2 DEF Load, LoaderNext, HotCount, HotQuery, HotMerge, HotFails, HotFinish, FillBegin,
                FillQuery, FillFails, FillIndex, FillPublish, ReheardQuery, ReheardMissing,
                ReheardLoad, ReheardFails, FillMeasure, Finish, VerifyNext, VerifyEdge,
                VerifyCount, VerifyCountFails, VerifyCompare, Publish, At
  <2>2. cursorID' = cursorID /\ cursorID = 0 /\ loader' = "hotCount"
    BY <1>2, <2>1 DEF BeginLoad, HistoryInv
  <2> QED
    BY <1>0, <2>2
<1>3. CASE Load /\ loader # "begin"
  <2>1. /\ loader' # "begin" /\ loader' # "hotCount"
        /\ cursorID' = cursorID \/ HotMerge \/ HotFinish
    BY <1>3, LoadKeeps
  <2>2. ASSUME HotMerge PROVE cursorID' \in 0 .. Len(txs)
    <3> DEFINE S == {cursorID} \union TxsOf(chunk)
    <3>1. TxsOf(chunk) \subseteq 1 .. Len(txs)
      BY <1>0 DEF IngestTypes, RowsOK, TxsOf
    <3>2. S \in SUBSET (0 .. Len(txs)) /\ S # {}
      BY <1>0, <3>1
    <3>3. cursorID' = Max(S)
      BY <2>2 DEF HotMerge
    <3> HIDE DEF S
    <3> QED
      BY <1>0, <3>2, <3>3, MaxIs
  <2>3. HotFinish => cursorID' = 0
    BY DEF HotFinish
  <2> QED
    BY <1>0, <2>1, <2>2, <2>3
<1> QED
  BY <1>1, <1>2, <1>3

\* What retainedAtStart counts on stays in the table and in the window.
LEMMA RetainedStep ==
    ASSUME CursorInv, HistoryInv, [Next]_vars
    PROVE  /\ retainedAtStart' \subseteq 1 .. Len(txs')
           /\ \A t \in retainedAtStart' : txs'[t].last >= Floor
<1>0. /\ IngestTypes /\ TablesGrow /\ Len(txs) \in Nat /\ Len(txs') \in Nat
  <2>1. IngestTypes /\ IngestTypes' /\ TablesGrow
    BY TypesStep DEF CursorInv
  <2> QED
    BY <2>1 DEF IngestTypes, DBTypes
<1>1. retainedAtStart' \subseteq retainedAtStart \union SeenSince(Floor)
  <2>1. CASE Load
    BY <2>1 DEF Load
  <2>2. CASE ~Load
    BY <2>2, LoadFrame
  <2> QED
    BY <2>1, <2>2
<1>2. \A t \in retainedAtStart' : t \in 1 .. Len(txs) /\ txs[t].last >= Floor
  BY <1>1 DEF HistoryInv, SeenSince
<1>3. ASSUME NEW t \in retainedAtStart' PROVE t \in 1 .. Len(txs') /\ txs'[t].last >= Floor
  <2>1. t \in 1 .. Len(txs) /\ txs[t].last >= Floor /\ txs[t].last <= txs'[t].last
        /\ Len(txs) <= Len(txs')
    BY <1>0, <1>2 DEF TablesGrow
  <2>2. t \in 1 .. Len(txs')
    BY <1>0, <2>1
  <2>3. txs[t].last \in Nat /\ txs'[t].last \in Nat /\ Floor \in Nat
    <3>1. txs[t] \in [first : Stamp, last : Stamp]
      BY <1>0, <2>1, ElementOfSeq DEF IngestTypes, DBTypes
    <3>2. txs'[t] \in [first : Stamp, last : Stamp]
      <4>1. IngestTypes'
        BY TypesStep DEF CursorInv
      <4>2. txs' \in Seq([first : Stamp, last : Stamp])
        BY <4>1 DEF IngestTypes, DBTypes
      <4> QED
        BY <2>2, <4>2, ElementOfSeq
    <3> QED
      BY <3>1, <3>2, DBAssumption, StoreAssumption DEF Stamp
  <2> QED
    BY <2>1, <2>2, <2>3
<1> QED
  BY <1>3

\* Every step keeps each row of the retained history within the load's reach.
LEMMA HistoryStep ==
    ASSUME CursorInv, HistoryInv, "upsert" \notin ObsWrites, [Next]_vars
    PROVE  HistoryInv'
<1>0. /\ IngestTypes /\ TablesGrow /\ Len(obs) \in Nat /\ Len(obs') \in Nat /\ faults \in Nat
      /\ Len(obs) <= Len(obs')
  <2>1. IngestTypes /\ IngestTypes' /\ TablesGrow /\ faults \in Nat
    BY TypesStep DEF CursorInv
  <2> QED
    BY <2>1 DEF IngestTypes, DBTypes, TablesGrow
<1>1. /\ retainedAtStart' \subseteq 1 .. Len(txs')
      /\ \A t \in retainedAtStart' : txs'[t].last >= Floor
      /\ cursorID' \in 0 .. Len(txs')
      /\ loader' = "begin" => cursorID' = 0 /\ retainedAtStart' = {}
      /\ loader' = "hotCount" => cursorID' = 0
  BY RetainedStep, HotCursorStep
<1>2. ASSUME faults' = 0, loader' # "begin"
      PROVE  /\ loadStartObsID' \in 0 .. Len(obs')
             /\ \A t \in retainedAtStart' : Announced(t)' /\ Reached(t)'
  <2>1. faults = 0
    BY <1>0, <1>2, FaultsStep
  <2>2. CASE loader # "begin"
    <3>1. UNCHANGED <<loadStartObsID, retainedAtStart>>
      BY <2>2, LoadFrame, LoadKeeps
    <3>2. loadStartObsID \in 0 .. Len(obs) /\ \A t \in retainedAtStart : Announced(t)
      BY <2>1, <2>2 DEF HistoryInv
    <3>3. \A t \in retainedAtStart : Announced(t)'
      BY <1>0, <3>1, <3>2, AnnouncedStep
    <3>4. \A t \in retainedAtStart : Reached(t)'
      BY <1>2, <2>1, <2>2, ReachedFrame, ReachedLoad
    <3> QED
      BY <1>0, <3>1, <3>2, <3>3, <3>4
  <2>3. CASE loader = "begin"
    <3>1. Load
      BY <1>2, <2>3, LoadFrame
    <3>2. BeginLoad
      BY <2>3, <3>1 DEF Load, LoaderNext, HotCount, HotQuery, HotMerge, HotFails, HotFinish,
                FillBegin, FillQuery, FillFails, FillIndex, FillPublish, ReheardQuery,
                ReheardMissing, ReheardLoad, ReheardFails, FillMeasure, Finish, VerifyNext,
                VerifyEdge, VerifyCount, VerifyCountFails, VerifyCompare, Publish, At
    <3>3. /\ loader' = "hotCount" /\ UNCHANGED <<txs, obs, writer, cursorID>> /\ cursorID = 0
          /\ loadStartObsID' = Len(obs)
      BY <1>2, <2>1, <2>3, <3>2 DEF BeginLoad, Fault, db, HistoryInv
    <3>4. ASSUME NEW t \in retainedAtStart' PROVE Announced(t)' /\ Reached(t)'
      <4>1. t \in SeenSince(Floor) /\ ~(writer.pc = "bump" /\ writer.tx = t)
        BY <2>3, <3>1, <3>4 DEF Load
      <4>2. Announced(t)'
        BY <3>3, <4>1 DEF Announced
      <4>3. t > cursorID'
        BY <1>1, <3>3, <3>4, <4>1 DEF SeenSince
      <4>4. StillAhead(t)' /\ Loading'
        BY <3>3, <4>3 DEF StillAhead, InWindows, FillStates, Loading, HotStates
      <4> QED
        BY <4>2, <4>4 DEF Reached
    <3> QED
      BY <1>0, <3>3, <3>4
  <2> QED
    BY <2>2, <2>3
<1> QED
  BY <1>1, <1>2 DEF HistoryInv

\* While every observation is a row of its own, a load without errors leaves
\* out no row of the retention window but those of the named gap, although the
\* hot load, the windows and the look at re-heard rows each read the table at
\* another time and re-hearings move rows between them.  (An upsert leaves no
\* new row to find a re-heard transmission by: see RehearingsAreSeen.)
THEOREM HistoryLoadedHolds ==
    ASSUME "upsert" \notin ObsWrites
    PROVE  Spec => []HistoryLoaded
<1>1. Init => HistoryInv
  <2> SUFFICES ASSUME Init PROVE HistoryInv
    OBVIOUS
  <2>1. loader = "begin" /\ cursorID = 0 /\ retainedAtStart = {}
    BY DEF Init, LoadInit
  <2>2. Len(txs) \in Nat
    BY InitTypes DEF IngestTypes, DBTypes
  <2> QED
    BY <2>1, <2>2 DEF HistoryInv
<1>2. CursorInv /\ HistoryInv /\ [Next]_vars => HistoryInv'
  BY HistoryStep
<1>3. HistoryInv => HistoryLoaded
  <2> SUFFICES ASSUME HistoryInv, loader = "ended", faults = 0, NEW t \in retainedAtStart
               PROVE  Seen(t) \/ Gap(t)
    BY DEF HistoryLoaded, Seen, Gap, Reheard
  <2>1. Reached(t) /\ ~Loading /\ ~LeftToReheard(t)
    BY DEF HistoryInv, Loading, HotStates, InWindows, FillStates, LeftToReheard, ReheardStates
  <2> QED
    BY <2>1 DEF Reached
<1> QED
  BY <1>1, <1>2, <1>3, CursorInvariant, PTL DEF Spec

------------------------------------------------------------------------------
\* A strict total order, as a set of pairs.
Orders(before, S) ==
    /\ \A x \in S : <<x, x>> \notin before
    /\ \A x, y \in S : x # y => <<x, y>> \in before \/ <<y, x>> \in before
    /\ \A x, y, z \in S : <<x, y>> \in before /\ <<y, z>> \in before => <<x, z>> \in before

\* Arranged lists every member once, in the order.
LEMMA ArrangedIs ==
    ASSUME NEW S, IsFiniteSet(S), NEW before, Orders(before, S)
    PROVE  LET a == Arranged(S, before)
               n == Cardinality(S)
           IN  /\ n \in Nat
               /\ \A k \in 1 .. n : a[k] \in S
               /\ \A x \in S : \E k \in 1 .. n : a[k] = x
               /\ \A j, k \in 1 .. n : j < k => <<a[j], a[k]>> \in before
               /\ \A j, k \in 1 .. n : a[j] = a[k] => j = k
<1> DEFINE lower(x) == {y \in S : <<y, x>> \in before}
           n == Cardinality(S)
           a == Arranged(S, before)
           f == [x \in S |-> Cardinality(lower(x)) + 1]
<1>0. n \in Nat
  BY FS_CardinalityType
<1>1. \A x \in S : lower(x) \subseteq S /\ IsFiniteSet(lower(x)) /\ Cardinality(lower(x)) \in Nat
  <2> SUFFICES ASSUME NEW x \in S
               PROVE  lower(x) \subseteq S /\ IsFiniteSet(lower(x)) /\ Cardinality(lower(x)) \in Nat
    OBVIOUS
  <2>1. lower(x) \subseteq S
    OBVIOUS
  <2> HIDE DEF lower
  <2> QED
    BY <2>1, FS_Subset, FS_CardinalityType
<1>2. ASSUME NEW x \in S, NEW y \in S, <<x, y>> \in before
      PROVE  Cardinality(lower(x)) < Cardinality(lower(y))
  <2>1. lower(x) \subseteq lower(y)
    BY <1>2 DEF Orders
  <2>2. x \in lower(y) /\ x \notin lower(x)
    BY <1>2 DEF Orders
  <2> HIDE DEF lower
  <2>3. Cardinality(lower(x)) <= Cardinality(lower(y))
        /\ Cardinality(lower(x)) # Cardinality(lower(y))
    BY <1>1, <2>1, <2>2, FS_Subset
  <2> QED
    BY <1>1, <2>3
<1>3. ASSUME NEW x \in S PROVE Cardinality(lower(x)) < n
  <2>1. x \notin lower(x)
    BY DEF Orders
  <2> HIDE DEF lower
  <2>2. Cardinality(lower(x)) <= n /\ Cardinality(lower(x)) # n
    BY <1>1, <2>1, FS_Subset
  <2> QED
    BY <1>0, <1>1, <2>2
<1> HIDE DEF lower
<1>4. f \in [S -> 1 .. n]
  BY <1>0, <1>1, <1>3
<1>5. \A x, y \in S : x # y => f[x] # f[y]
  <2> SUFFICES ASSUME NEW x \in S, NEW y \in S, x # y PROVE f[x] # f[y]
    OBVIOUS
  <2>1. <<x, y>> \in before \/ <<y, x>> \in before
    BY DEF Orders
  <2>2. \/ Cardinality(lower(x)) < Cardinality(lower(y))
        \/ Cardinality(lower(y)) < Cardinality(lower(x))
    BY <1>2, <2>1
  <2>3. Cardinality(lower(x)) \in Nat /\ Cardinality(lower(y)) \in Nat
    BY <1>1
  <2> QED
    BY <2>2, <2>3
<1> HIDE DEF f
<1>6. f \in Injection(S, 1 .. n)
  BY <1>4, <1>5 DEF Injection, IsInjective
<1>7. IsFiniteSet(1 .. n) /\ Cardinality(1 .. n) = n
  BY <1>0, FS_Interval
<1>8. f \in Surjection(S, 1 .. n)
  BY <1>6, <1>7, FS_Injection
<1>9. \A k \in 1 .. n : \E x \in S : f[x] = k
  BY <1>8 DEF Surjection
<1>10. \A k \in 1 .. n : a[k] \in S /\ f[a[k]] = k
  <2> SUFFICES ASSUME NEW k \in 1 .. n PROVE a[k] \in S /\ f[a[k]] = k
    OBVIOUS
  <2>1. a[k] = CHOOSE x \in S : Cardinality(lower(x)) = k - 1
    BY DEF Arranged, lower
  <2>2. \E x \in S : Cardinality(lower(x)) = k - 1
    <3>1. PICK x \in S : f[x] = k
      BY <1>9
    <3>2. Cardinality(lower(x)) + 1 = k
      BY <3>1 DEF f
    <3> QED
      BY <1>0, <1>1, <3>2
  <2>3. a[k] \in S /\ Cardinality(lower(a[k])) = k - 1
    BY <2>1, <2>2
  <2>4. f[a[k]] = (k - 1) + 1
    BY <2>3 DEF f
  <2> QED
    BY <1>0, <2>3, <2>4
<1> HIDE DEF a
<1>11. ASSUME NEW x \in S PROVE \E k \in 1 .. n : a[k] = x
  <2>1. f[x] \in 1 .. n
    BY <1>4
  <2>2. f[a[f[x]]] = f[x] /\ a[f[x]] \in S
    BY <1>10, <2>1
  <2> QED
    BY <1>5, <2>1, <2>2
<1>12. ASSUME NEW j \in 1 .. n, NEW k \in 1 .. n, j < k PROVE <<a[j], a[k]>> \in before
  <2>1. a[j] \in S /\ a[k] \in S /\ f[a[j]] = j /\ f[a[k]] = k
    BY <1>10
  <2>2. a[j] # a[k]
    BY <1>0, <1>12, <2>1
  <2>3. ~(<<a[k], a[j]>> \in before)
    <3> SUFFICES ASSUME <<a[k], a[j]>> \in before PROVE FALSE
      OBVIOUS
    <3>1. f[a[k]] < f[a[j]]
      BY <1>1, <1>2, <2>1 DEF f
    <3> QED
      BY <1>0, <1>12, <2>1, <3>1
  <2> QED
    BY <2>1, <2>2, <2>3 DEF Orders
<1>13. ASSUME NEW j \in 1 .. n, NEW k \in 1 .. n, a[j] = a[k] PROVE j = k
  BY <1>10, <1>13
<1> QED
  BY <1>0, <1>10, <1>11, <1>12, <1>13 DEF a

\* A reordered slice has the same entries, each in one place, in the order.
Rearranges(out, packets, before, f) ==
    /\ f \in [1 .. Len(packets) -> 1 .. Len(packets)]
    /\ \A i \in 1 .. Len(packets) : \E k \in 1 .. Len(packets) : f[k] = i
    /\ \A j, k \in 1 .. Len(packets) : f[j] = f[k] => j = k
    /\ \A j, k \in 1 .. Len(packets) : j < k => <<f[j], f[k]>> \in before
    /\ \A k \in 1 .. Len(packets) : out[k] = packets[f[k]]

\* Reordered rearranges the table: the same entries, by a one-to-one map of positions.
LEMMA ReorderedIs ==
    ASSUME NEW E, NEW packets \in Seq(E), NEW before, Orders(before, 1 .. Len(packets))
    PROVE  LET out == Reordered(packets, before)
           IN  /\ out \in Seq(E) /\ Len(out) = Len(packets)
               /\ \E f : Rearranges(out, packets, before, f)
<1> DEFINE n == Len(packets)
           S == 1 .. n
           a == Arranged(S, before)
           out == Reordered(packets, before)
           f == [k \in S |-> a[k]]
<1>0. n \in Nat /\ IsFiniteSet(S) /\ Cardinality(S) = n
  <2>1. n \in Nat
    BY LenProperties
  <2> HIDE DEF n
  <2>2. IsFiniteSet(1 .. n) /\ Cardinality(1 .. n) = n
    BY <2>1, FS_Interval
  <2> QED
    BY <2>1, <2>2
<1>1. /\ \A k \in S : a[k] \in S
      /\ \A x \in S : \E k \in S : a[k] = x
      /\ \A j, k \in S : j < k => <<a[j], a[k]>> \in before
      /\ \A j, k \in S : a[j] = a[k] => j = k
  <2> HIDE DEF n
  <2>1. /\ \A k \in 1 .. Cardinality(S) : a[k] \in S
        /\ \A x \in S : \E k \in 1 .. Cardinality(S) : a[k] = x
        /\ \A j, k \in 1 .. Cardinality(S) : j < k => <<a[j], a[k]>> \in before
        /\ \A j, k \in 1 .. Cardinality(S) : a[j] = a[k] => j = k
    <3> HIDE DEF S
    <3> QED
      BY <1>0, ArrangedIs DEF n, S
  <2> QED
    BY <1>0, <2>1
<1>2. out = [k \in S |-> packets[a[k]]]
  BY DEF Reordered
<1> HIDE DEF a, out
<1>3. \A k \in S : packets[a[k]] \in E
  BY <1>1, ElementOfSeq
<1>4. out \in Seq(E) /\ Len(out) = n
  BY <1>0, <1>2, <1>3, SeqDef, LenProperties
<1>5. Rearranges(out, packets, before, f)
  BY <1>1, <1>2 DEF Rearranges
<1> QED
  BY <1>4, <1>5 DEF out

\* What a query's rows become in s.packets: one entry each.
LEMMA EntriesIs ==
    ASSUME NEW rows, IsFiniteSet(rows), \A r \in rows : r.tx \in Tx /\ r.first \in Stamp,
           \A r, q \in rows : r.tx = q.tx => r = q, NEW by \in Maker
    PROVE  LET es == Entries(rows, by)
           IN  /\ es \in Seq(Entry)
               /\ \A i \in 1 .. Len(es) : \E r \in rows :
                     es[i] = [tx |-> r.tx, by |-> by, first |-> r.first]
               /\ \A r \in rows : \E i \in 1 .. Len(es) : es[i].tx = r.tx
               /\ \A i, j \in 1 .. Len(es) : es[i].tx = es[j].tx => i = j
<1> DEFINE before == {p \in rows \X rows : p[1].tx < p[2].tx}
           a == Arranged(rows, before)
           n == Cardinality(rows)
           es == Entries(rows, by)
<1>0. MaxTx \in Nat /\ Now \in Nat /\ n \in Nat
  BY DBAssumption, FS_CardinalityType
<1>1. \A x, y \in rows : <<x, y>> \in before <=> x.tx < y.tx
  OBVIOUS
<1>2. \A x \in rows : x.tx \in Int
  BY <1>0 DEF Tx
<1>3. Orders(before, rows)
  <2> HIDE DEF before
  <2>1. \A x \in rows : <<x, x>> \notin before
    BY <1>1, <1>2
  <2>2. \A x, y \in rows : x # y => <<x, y>> \in before \/ <<y, x>> \in before
    BY <1>1, <1>2
  <2>3. \A x, y, z \in rows : <<x, y>> \in before /\ <<y, z>> \in before => <<x, z>> \in before
    BY <1>1, <1>2
  <2> QED
    BY <2>1, <2>2, <2>3 DEF Orders
<1>4. es = [i \in 1 .. n |-> [tx |-> a[i].tx, by |-> by, first |-> a[i].first]]
  BY DEF Entries
<1> HIDE DEF before, a, n, es
<1>5. /\ \A k \in 1 .. n : a[k] \in rows
      /\ \A x \in rows : \E k \in 1 .. n : a[k] = x
      /\ \A j, k \in 1 .. n : a[j] = a[k] => j = k
  BY <1>3, ArrangedIs DEF a, n
<1>6. \A i \in 1 .. n : [tx |-> a[i].tx, by |-> by, first |-> a[i].first] \in Entry
  BY <1>5 DEF Entry
<1>7. es \in [1 .. n -> Entry]
  BY <1>4, <1>6
<1>8. es \in Seq(Entry) /\ Len(es) = n
  BY <1>0, <1>7, SeqDef, LenProperties
<1>9. \A i \in 1 .. n : es[i] = [tx |-> a[i].tx, by |-> by, first |-> a[i].first]
  BY <1>4
<1> QED
  BY <1>5, <1>8, <1>9, SMTT(30) DEF es

\* The entries of one slice are those of another, in another order.
SameEntries(out, packets) ==
    /\ out \in Seq(Entry) /\ Len(out) = Len(packets)
    /\ \A k \in 1 .. Len(out) : \E i \in 1 .. Len(packets) : out[k] = packets[i]
    /\ \A i \in 1 .. Len(packets) : \E k \in 1 .. Len(out) : out[k] = packets[i]
    /\ (\A i, j \in 1 .. Len(packets) : packets[i].tx = packets[j].tx => i = j)
       => (\A i, j \in 1 .. Len(out) : out[i].tx = out[j].tx => i = j)

\* The table is in the order of first_seen.
Sorted(packets) ==
    \A i, j \in 1 .. Len(packets) : i < j => packets[i].first <= packets[j].first

\* Reordered keeps the entries, and sorts them when the order follows first_seen.
LEMMA ReorderedSame ==
    ASSUME NEW packets \in Seq(Entry), NEW before, Orders(before, 1 .. Len(packets))
    PROVE  /\ SameEntries(Reordered(packets, before), packets)
           /\ (\A i, j \in 1 .. Len(packets) :
                  <<i, j>> \in before => packets[i].first <= packets[j].first)
              => Sorted(Reordered(packets, before))
<1> DEFINE out == Reordered(packets, before)
<1>1. out \in Seq(Entry) /\ Len(out) = Len(packets)
  BY ReorderedIs
<1>2. PICK f : Rearranges(out, packets, before, f)
  BY ReorderedIs
<1> DEFINE S == 1 .. Len(packets)
<1>3. /\ f \in [S -> S]
      /\ \A i \in S : \E k \in S : f[k] = i
      /\ \A j, k \in S : f[j] = f[k] => j = k
      /\ \A j, k \in S : j < k => <<f[j], f[k]>> \in before
      /\ \A k \in S : out[k] = packets[f[k]]
  BY <1>2 DEF Rearranges
<1> HIDE DEF out, S
<1>4. /\ \A k \in S : \E i \in S : out[k] = packets[i]
      /\ \A i \in S : \E k \in S : out[k] = packets[i]
  BY <1>3
<1>5. ASSUME \A i, j \in S : packets[i].tx = packets[j].tx => i = j,
             NEW i \in S, NEW j \in S, out[i].tx = out[j].tx
      PROVE  i = j
  <2>1. f[i] \in S /\ f[j] \in S /\ packets[f[i]].tx = packets[f[j]].tx
    BY <1>3, <1>5
  <2>2. f[i] = f[j]
    BY <1>5, <2>1
  <2> QED
    BY <1>3, <2>2
<1>6. SameEntries(out, packets)
  BY <1>1, <1>4, <1>5 DEF SameEntries, S
<1>7. ASSUME \A i, j \in S : <<i, j>> \in before => packets[i].first <= packets[j].first,
             NEW i \in S, NEW j \in S, i < j
      PROVE  out[i].first <= out[j].first
  <2>1. f[i] \in S /\ f[j] \in S /\ <<f[i], f[j]>> \in before
    BY <1>3, <1>7
  <2> QED
    BY <1>3, <1>7, <2>1
<1> QED
  BY <1>1, <1>6, <1>7 DEF out, S, Sorted

\* An entry's first_seen is a number.
LEMMA FirstIsInt ==
    ASSUME NEW packets \in Seq(Entry), NEW i \in 1 .. Len(packets)
    PROVE  packets[i] \in Entry /\ packets[i].first \in Int
<1>1. packets[i] \in Entry
  BY ElementOfSeq
<1> QED
  BY <1>1, DBAssumption DEF Entry, Stamp

\* sort.SliceStable sorts.
LEMMA SortIs ==
    ASSUME NEW packets \in Seq(Entry)
    PROVE  SameEntries(SortByFirstSeen(packets), packets) /\ Sorted(SortByFirstSeen(packets))
<1> DEFINE n == Len(packets)
           first(i) == packets[i].first
           before == {p \in Pairs(n) : \/ first(p[1]) < first(p[2])
                                       \/ first(p[1]) = first(p[2]) /\ p[1] < p[2]}
<1>1. SortByFirstSeen(packets) = Reordered(packets, before)
  BY DEF SortByFirstSeen
<1>2. n \in Nat /\ \A i \in 1 .. n : first(i) \in Int
  BY FirstIsInt, LenProperties
<1>3. \A i, j \in 1 .. n :
         <<i, j>> \in before <=> first(i) < first(j) \/ (first(i) = first(j) /\ i < j)
  BY DEF Pairs
<1> HIDE DEF before, first
<1>4. Orders(before, 1 .. n)
  <2> HIDE DEF n
  <2>1. \A x \in 1 .. n : <<x, x>> \notin before
    BY <1>2, <1>3
  <2>2. \A x, y \in 1 .. n : x # y => <<x, y>> \in before \/ <<y, x>> \in before
    BY <1>2, <1>3
  <2>3. \A x, y, z \in 1 .. n : <<x, y>> \in before /\ <<y, z>> \in before => <<x, z>> \in before
    BY <1>2, <1>3
  <2> QED
    BY <2>1, <2>2, <2>3 DEF Orders
<1>5. \A i, j \in 1 .. n : <<i, j>> \in before => first(i) <= first(j)
  BY <1>2, <1>3
<1> QED
  BY <1>1, <1>4, <1>5, ReorderedSame DEF first

\* mergeSortedRuns keeps every entry, and merges two sorted runs into one.
LEMMA MergeIs ==
    ASSUME NEW existing \in Seq(Entry), NEW incoming \in Seq(Entry), Sorted(incoming),
           NEW skipped \in 0 .. Len(existing)
    PROVE  LET out == MergeByFirstSeen(existing, incoming, skipped)
           IN  /\ SameEntries(out, existing \o incoming)
               /\ /\ Sorted(existing)
                  /\ skipped > 0 => \A j \in 1 .. Len(incoming) :
                                       existing[skipped].first < incoming[j].first
                  => Sorted(out)
<1> DEFINE n == Len(existing)
           all == existing \o incoming
           first(i) == all[i].first
           ahead(j, i) == \E h \in skipped + 1 .. i : first(j) <= first(h)
           before == {p \in Pairs(Len(all)) :
                         \/ (p[1] <= n <=> p[2] <= n) /\ p[1] < p[2]
                         \/ p[1] > n /\ p[2] <= n /\ ahead(p[1], p[2])
                         \/ p[1] <= n /\ p[2] > n /\ ~ahead(p[2], p[1])}
<1>1. MergeByFirstSeen(existing, incoming, skipped) = Reordered(all, before)
  BY DEF MergeByFirstSeen
<1>2. /\ n \in Nat /\ skipped \in Nat /\ skipped <= n
      /\ all \in Seq(Entry) /\ Len(all) \in Nat /\ Len(all) = n + Len(incoming)
      /\ Len(incoming) \in Nat
  BY ConcatProperties, LenProperties
<1>3. /\ \A i \in 1 .. Len(all) : first(i) \in Int
      /\ \A i \in 1 .. n : first(i) = existing[i].first
      /\ \A i \in n + 1 .. Len(all) : first(i) = incoming[i - n].first
  <2>1. \A i \in 1 .. Len(all) : first(i) \in Int
    BY <1>2, FirstIsInt
  <2>2. /\ \A i \in 1 .. n : all[i] = existing[i]
        /\ \A i \in n + 1 .. Len(all) : all[i] = incoming[i - n]
    BY <1>2, ConcatProperties
  <2> QED
    BY <2>1, <2>2
<1>4. \A i, j \in 1 .. Len(all) :
         <<i, j>> \in before <=>
             \/ (i <= n <=> j <= n) /\ i < j
             \/ i > n /\ j <= n /\ ahead(i, j)
             \/ i <= n /\ j > n /\ ~ahead(j, i)
  <2> HIDE DEF ahead
  <2> QED
    BY DEF Pairs
<1> DEFINE N == Len(all)
<1>5. \A i, j \in n + 1 .. N : i < j => first(i) <= first(j)
  <2> SUFFICES ASSUME NEW i \in n + 1 .. N, NEW j \in n + 1 .. N, i < j
               PROVE  first(i) <= first(j)
    OBVIOUS
  <2>1. i - n \in 1 .. Len(incoming) /\ j - n \in 1 .. Len(incoming) /\ i - n < j - n
    BY <1>2
  <2> QED
    BY <1>3, <2>1 DEF Sorted
<1> HIDE DEF before, first, all
\* Who is ahead of an entry is ahead of those after it ...
<1>6. ASSUME NEW j \in n + 1 .. N, NEW i \in 1 .. n, NEW k \in 1 .. n, ahead(j, i), i <= k
      PROVE  ahead(j, k)
  <2>1. PICK h \in skipped + 1 .. i : first(j) <= first(h)
    BY <1>6
  <2> QED
    BY <1>2, <1>6, <2>1
\* ... and so are the incoming entries before him.
<1>7. ASSUME NEW j \in n + 1 .. N, NEW k \in n + 1 .. N, NEW i \in 1 .. n, ahead(k, i), j <= k
      PROVE  ahead(j, i)
  <2>1. PICK h \in skipped + 1 .. i : first(k) <= first(h)
    BY <1>7
  <2>2. first(j) <= first(k)
    BY <1>2, <1>3, <1>5, <1>7
  <2>3. first(j) \in Int /\ first(k) \in Int /\ first(h) \in Int
    BY <1>2, <1>3, <2>1
  <2> QED
    BY <2>1, <2>2, <2>3
<1>8. Orders(before, 1 .. N)
  <2> HIDE DEF ahead, N
  <2>0. N \in Nat /\ n \in Nat
    BY <1>2 DEF N
  <2>1. \A x \in 1 .. N : <<x, x>> \notin before
    BY <1>4, <2>0 DEF N
  <2>2. \A x, y \in 1 .. N : x # y => <<x, y>> \in before \/ <<y, x>> \in before
    <3> SUFFICES ASSUME NEW x \in 1 .. N, NEW y \in 1 .. N, x < y
                 PROVE  <<x, y>> \in before \/ <<y, x>> \in before
      BY <2>0
    <3>1. <<x, y>> \in before <=>
             \/ (x <= n <=> y <= n) /\ x < y
             \/ x > n /\ y <= n /\ ahead(x, y)
             \/ x <= n /\ y > n /\ ~ahead(y, x)
      BY <1>4 DEF N
    <3>2. <<y, x>> \in before <=>
             \/ (y <= n <=> x <= n) /\ y < x
             \/ y > n /\ x <= n /\ ahead(y, x)
             \/ y <= n /\ x > n /\ ~ahead(x, y)
      BY <1>4 DEF N
    <3> QED
      BY <2>0, <3>1, <3>2
  <2>3. ASSUME NEW x \in 1 .. N, NEW y \in 1 .. N, NEW z \in 1 .. N,
               <<x, y>> \in before, <<y, z>> \in before
        PROVE  <<x, z>> \in before
    <3>1. \/ (x <= n <=> y <= n) /\ x < y
          \/ x > n /\ y <= n /\ ahead(x, y)
          \/ x <= n /\ y > n /\ ~ahead(y, x)
      BY <1>4, <2>3 DEF N
    <3>2. \/ (y <= n <=> z <= n) /\ y < z
          \/ y > n /\ z <= n /\ ahead(y, z)
          \/ y <= n /\ z > n /\ ~ahead(z, y)
      BY <1>4, <2>3 DEF N
    <3>3. \/ (x <= n <=> z <= n) /\ x < z
          \/ x > n /\ z <= n /\ ahead(x, z)
          \/ x <= n /\ z > n /\ ~ahead(z, x)
          => <<x, z>> \in before
      BY <1>4 DEF N
    <3>4. CASE x <= n /\ y <= n /\ z <= n
      BY <2>0, <3>1, <3>2, <3>3, <3>4
    <3>5. CASE x <= n /\ y <= n /\ z > n
      BY <1>6, <2>0, <3>1, <3>2, <3>3, <3>5
    <3>6. CASE x <= n /\ y > n /\ z <= n
      <4>1. ~ahead(y, x) /\ ahead(y, z)
        BY <2>0, <3>1, <3>2, <3>6
      <4>2. ~(z <= x)
        BY <1>6, <2>0, <3>6, <4>1
      <4> QED
        BY <2>0, <3>3, <3>6, <4>2
    <3>7. CASE x <= n /\ y > n /\ z > n
      <4>1. ~ahead(y, x) /\ y < z
        BY <2>0, <3>1, <3>2, <3>7
      <4>2. ~ahead(z, x)
        BY <1>7, <2>0, <3>7, <4>1
      <4> QED
        BY <2>0, <3>3, <3>7, <4>2
    <3>8. CASE x > n /\ y <= n /\ z <= n
      <4>1. ahead(x, y) /\ y < z
        BY <2>0, <3>1, <3>2, <3>8
      <4>2. ahead(x, z)
        BY <1>6, <2>0, <3>8, <4>1
      <4> QED
        BY <2>0, <3>3, <3>8, <4>2
    <3>9. CASE x > n /\ y <= n /\ z > n
      <4>1. ahead(x, y) /\ ~ahead(z, y)
        BY <2>0, <3>1, <3>2, <3>9
      <4>2. ~(z <= x)
        BY <1>7, <2>0, <3>9, <4>1
      <4> QED
        BY <2>0, <3>3, <3>9, <4>2
    <3>10. CASE x > n /\ y > n /\ z <= n
      <4>1. x < y /\ ahead(y, z)
        BY <2>0, <3>1, <3>2, <3>10
      <4>2. ahead(x, z)
        BY <1>7, <2>0, <3>10, <4>1
      <4> QED
        BY <2>0, <3>3, <3>10, <4>2
    <3>11. CASE x > n /\ y > n /\ z > n
      BY <2>0, <3>1, <3>2, <3>3, <3>11
    <3> QED
      BY <2>0, <3>4, <3>5, <3>6, <3>7, <3>8, <3>9, <3>10, <3>11
  <2> QED
    BY <2>1, <2>2, <2>3 DEF Orders
<1>9. SameEntries(Reordered(all, before), all)
  BY <1>2, <1>8, ReorderedSame
<1>10. ASSUME Sorted(existing),
              skipped > 0 => \A j \in 1 .. Len(incoming) :
                                existing[skipped].first < incoming[j].first,
              NEW i \in 1 .. N, NEW j \in 1 .. N, <<i, j>> \in before
       PROVE  first(i) <= first(j)
  <2>0. N \in Nat /\ n \in Nat /\ first(i) \in Int /\ first(j) \in Int
    BY <1>2, <1>3
  <2>1. \/ (i <= n <=> j <= n) /\ i < j
        \/ i > n /\ j <= n /\ ahead(i, j)
        \/ i <= n /\ j > n /\ ~ahead(j, i)
    <3> HIDE DEF ahead
    <3> QED
      BY <1>4, <1>10
  <2>2. \A h, k \in 1 .. n : h <= k => first(h) <= first(k)
    <3> SUFFICES ASSUME NEW h \in 1 .. n, NEW k \in 1 .. n, h <= k PROVE first(h) <= first(k)
      OBVIOUS
    <3>1. first(h) \in Int /\ first(h) = existing[h].first /\ first(k) = existing[k].first
      BY <1>2, <1>3
    <3>2. CASE h = k
      BY <3>1, <3>2
    <3>3. CASE h < k
      BY <1>10, <3>1, <3>3 DEF Sorted
    <3> QED
      BY <2>0, <3>2, <3>3
  <2>3. CASE i <= n /\ j <= n
    <3>1. i <= j
      BY <2>0, <2>1, <2>3
    <3> QED
      BY <2>0, <2>2, <2>3, <3>1
  <2>4. CASE i > n /\ j > n
    <3>1. i < j
      BY <2>0, <2>1, <2>4
    <3> QED
      BY <1>5, <2>0, <2>4, <3>1
  <2>5. CASE i > n /\ j <= n
    <3>1. ahead(i, j)
      <4> HIDE DEF ahead
      <4> QED
        BY <2>0, <2>1, <2>5
    <3>2. PICK h \in skipped + 1 .. j : first(i) <= first(h)
      BY <3>1
    <3>3. h \in 1 .. n /\ h <= j
      BY <1>2, <2>5, <3>2
    <3>4. first(h) <= first(j) /\ first(h) \in Int
      BY <1>2, <1>3, <2>0, <2>2, <2>5, <3>3
    <3> QED
      BY <2>0, <3>2, <3>4
  <2>6. CASE i <= n /\ j > n
    <3>1. ~ahead(j, i)
      <4> HIDE DEF ahead
      <4> QED
        BY <2>0, <2>1, <2>6
    <3>2. CASE i > skipped
      <4>1. ~(first(j) <= first(i))
        BY <1>2, <2>0, <3>1, <3>2
      <4> QED
        BY <2>0, <4>1
    <3>3. CASE i <= skipped
      <4>1. skipped \in 1 .. n /\ skipped > 0 /\ j - n \in 1 .. Len(incoming)
        BY <1>2, <2>6, <3>3
      <4>2. first(i) <= first(skipped)
        BY <2>0, <2>2, <2>6, <3>3, <4>1
      <4>3. first(skipped) < first(j)
        <5>1. existing[skipped].first < incoming[j - n].first
          BY <1>10, <4>1
        <5> QED
          BY <1>2, <1>3, <2>0, <2>6, <4>1, <5>1
      <4>4. first(skipped) \in Int
        BY <1>2, <1>3, <4>1
      <4> QED
        BY <2>0, <4>2, <4>3, <4>4
    <3> QED
      BY <1>2, <2>0, <3>2, <3>3
  <2> QED
    BY <2>0, <2>3, <2>4, <2>5, <2>6
<1> QED
  BY <1>1, <1>2, <1>8, <1>9, <1>10, ReorderedSame DEF all, first

------------------------------------------------------------------------------
\* Times never change: a new row is written with the present, and the present
\* moves neither first_seen back nor last_seen on.
TimesFixed ==
    /\ InitTx <= Len(txs)
    /\ \A t \in InitTx + 1 .. Len(txs) : txs[t].first = Now /\ txs[t].last = Now

\* A query's rows: one a transmission, with the first_seen it has.
RowsTrue(rows) ==
    /\ IsFiniteSet(rows)
    /\ \A r \in rows : r.first = txs[r.tx].first
    /\ \A r, q \in rows : r.tx = q.tx => r = q

\* s.packets: entries of transmissions that exist, with their first_seen.
EntriesTrue(packets) ==
    /\ packets \in Seq(Entry)
    /\ \A i \in 1 .. Len(packets) :
          /\ packets[i].tx \in 1 .. Len(txs)
          /\ packets[i].first = txs[packets[i].tx].first

\* An entry holds observations of its own transmission only.
HeldTrue(held) == \A t \in Tx, m \in Maker : held[t][m] \subseteq ObsOf(t)

\* Where rows are in hand, and from where on the slice must be sorted.
LoadPlace ==
    /\ loader \notin {"hotMerge", "fillIndex"} => chunk = {}
    /\ loader # "fillIndex" => indexed = {}
    /\ indexed \subseteq TxsOf(chunk)
    /\ loader = "fillIndex" => chunk # {}
    /\ loader \in HotStates => ~loadComplete
    /\ loadComplete \/ loader \in HotStates \union {"ended"}

\* The hot cursor passes no row written since the server started: all of them
\* lie in the hot window.
HotCovers ==
    loader \in HotStates =>
        /\ cursorID \in 0 .. Len(txs)
        /\ \A t \in InitTx + 1 .. cursorID : Seen(t)
        /\ \A t \in TxsOf(chunk) : txs[t].last >= HotFrom
        /\ \A x \in TxsOf(chunk) : \A t \in 1 .. Len(txs) :
              InitTx < t /\ cursorID < t /\ t <= x => t \in TxsOf(chunk)

\* The data in memory and in hand is that of the tables.
DataTrue ==
    /\ TimesFixed /\ RowsTrue(chunk) /\ RowsTrue(newRows)
    /\ EntriesTrue(store.packets) /\ HeldTrue(store.held)
    /\ store.totalObs \in Int
    /\ LoadPlace /\ HotCovers
    /\ heardMaxID \in 0 .. store.maxTxID

\* The observations in memory.
HeldNow(s) == {o \in 1 .. Len(obs) : /\ s.index[obs[o]] # "none"
                                     /\ o \in s.held[obs[o]][s.index[obs[o]]]}

\* Counting ids: parts add up.
LEMMA CardAdd ==
    ASSUME NEW n \in Nat, NEW S \in SUBSET (1 .. n), NEW T \in SUBSET (1 .. n), S \cap T = {}
    PROVE  /\ IsFiniteSet(S) /\ IsFiniteSet(T)
           /\ Cardinality(S) \in Nat /\ Cardinality(T) \in Nat
           /\ Cardinality(S \union T) = Cardinality(S) + Cardinality(T)
<1>1. IsFiniteSet(1 .. n)
  BY FS_Interval
<1>2. IsFiniteSet(S) /\ IsFiniteSet(T)
  BY <1>1, FS_Subset
<1>3. Cardinality(S \union T) = Cardinality(S) + Cardinality(T) - Cardinality({})
  BY <1>2, FS_Union
<1>4. Cardinality(S) \in Nat /\ Cardinality(T) \in Nat /\ Cardinality({}) = 0
  BY <1>2, FS_CardinalityType, FS_EmptySet
<1> QED
  BY <1>2, <1>3, <1>4

\* addObservation counts what it adds.
LEMMA AddObservationsIs ==
    ASSUME DBTypes, NEW s, Store(s), NEW os \in SUBSET (1 .. Len(obs)), HeldTrue(s.held),
           s.totalObs \in Int
    PROVE  LET a == AddObservations(s, os)
           IN  /\ a.packets = s.packets /\ a.evictedFrom = s.evictedFrom
               /\ HeldTrue(a.held) /\ a.totalObs \in Int
               /\ HeldNow(s) \subseteq HeldNow(a)
               /\ a.totalObs - Cardinality(HeldNow(a)) = s.totalObs - Cardinality(HeldNow(s))
<1> DEFINE new == {o \in os : /\ s.index[obs[o]] # "none"
                              /\ o \notin s.held[obs[o]][s.index[obs[o]]]}
           held == [t \in Tx |-> [m \in Maker |->
                       s.held[t][m] \union {o \in new : obs[o] = t /\ s.index[t] = m}]]
           a == AddObservations(s, os)
<1>0. /\ Len(obs) \in Nat /\ new \subseteq 1 .. Len(obs)
      /\ \A o \in 1 .. Len(obs) : obs[o] \in Tx
      /\ \A t \in Tx : s.index[t] # "none" => s.index[t] \in Maker
  BY ElementOfSeq DEF DBTypes, Store
<1>1. a = [s EXCEPT !.held = held, !.totalObs = @ + Cardinality(new),
                    !.maxObsID = Max({@} \union new)]
  BY DEF AddObservations
<1>2. \A t \in Tx, m \in Maker :
         held[t][m] = s.held[t][m] \union {o \in new : obs[o] = t /\ s.index[t] = m}
  OBVIOUS
<1>3. HeldTrue(held)
  BY <1>0, <1>2 DEF HeldTrue, ObsOf
<1> HIDE DEF held, a
<1>4. /\ a.packets = s.packets /\ a.evictedFrom = s.evictedFrom /\ a.index = s.index
      /\ a.held = held /\ a.totalObs = s.totalObs + Cardinality(new)
  <2> HIDE DEF new
  <2> QED
    BY <1>1 DEF Store
<1>5. HeldNow(s) \cap new = {} /\ HeldNow(a) = HeldNow(s) \union new
  <2>1. HeldNow(s) \cap new = {}
    BY DEF HeldNow
  <2>2. ASSUME NEW o \in 1 .. Len(obs) PROVE o \in HeldNow(a) <=> o \in HeldNow(s) \union new
    <3>1. CASE s.index[obs[o]] = "none"
      BY <1>4, <3>1 DEF HeldNow
    <3>2. CASE s.index[obs[o]] # "none"
      <4>1. held[obs[o]][s.index[obs[o]]] =
                s.held[obs[o]][s.index[obs[o]]]
                \union {q \in new : obs[q] = obs[o] /\ s.index[obs[o]] = s.index[obs[o]]}
        BY <1>0, <1>2, <3>2
      <4>2. o \in held[obs[o]][s.index[obs[o]]] <=>
                o \in s.held[obs[o]][s.index[obs[o]]] \/ o \in new
        BY <4>1
      <4> QED
        BY <1>4, <3>2, <4>2 DEF HeldNow
    <3> QED
      BY <3>1, <3>2
  <2>3. HeldNow(a) \subseteq 1 .. Len(obs) /\ HeldNow(s) \subseteq 1 .. Len(obs)
    BY DEF HeldNow
  <2> QED
    BY <1>0, <2>1, <2>2, <2>3
<1>6. HeldNow(s) \subseteq 1 .. Len(obs)
  BY DEF HeldNow
<1> HIDE DEF new
<1>7. /\ Cardinality(HeldNow(a)) = Cardinality(HeldNow(s)) + Cardinality(new)
      /\ Cardinality(HeldNow(s)) \in Nat /\ Cardinality(new) \in Nat
  BY <1>0, <1>5, <1>6, CardAdd, ZenonT(60)
<1> QED
  BY <1>3, <1>4, <1>5, <1>7 DEF a

\* scanAndMergeChunk and IngestNewFromDB: an entry for each row not there yet.
LEMMA AddRowsIs ==
    ASSUME DBTypes, NEW s, Store(s), NEW rows, RowsOK(rows), HeldTrue(s.held), s.totalObs \in Int
    PROVE  LET a == AddRows(s, rows)
               fresh == {r \in rows : s.index[r.tx] = "none"}
           IN  /\ a.packets = s.packets \o Entries(fresh, "merged")
               /\ a.evictedFrom = s.evictedFrom
               /\ a.maxTxID = Max({s.maxTxID} \union TxsOf(fresh))
               /\ HeldTrue(a.held) /\ a.totalObs \in Int
               /\ HeldNow(s) \subseteq HeldNow(a)
               /\ a.totalObs - Cardinality(HeldNow(a)) = s.totalObs - Cardinality(HeldNow(s))
<1> DEFINE fresh == {r \in rows : s.index[r.tx] = "none"}
           index == [t \in Tx |-> IF t \in TxsOf(fresh) THEN "merged" ELSE s.index[t]]
           held == [t \in Tx |-> [m \in Maker |->
                       IF m = "merged" /\ t \in TxsOf(fresh) THEN {} ELSE s.held[t][m]]]
           c == CreateRows(s, rows)
           os == UNION {r.obs : r \in rows}
           a == AddRows(s, rows)
<1>0. /\ MaxTx \in Nat /\ Len(txs) \in Nat /\ Len(txs) <= MaxTx
      /\ \A o \in 1 .. Len(obs) : obs[o] \in Tx
      /\ TxsOf(fresh) \subseteq 1 .. Len(txs) /\ TxsOf(fresh) \subseteq Tx
      /\ \A t \in TxsOf(fresh) : s.index[t] = "none"
  <2>1. MaxTx \in Nat /\ Len(txs) \in Nat /\ Len(txs) <= MaxTx
    BY DBAssumption DEF DBTypes
  <2>2. TxsOf(fresh) \subseteq 1 .. Len(txs) /\ \A t \in TxsOf(fresh) : s.index[t] = "none"
    BY DEF RowsOK, TxsOf
  <2>3. \A o \in 1 .. Len(obs) : obs[o] \in Tx
    BY ElementOfSeq DEF DBTypes
  <2> QED
    BY <2>1, <2>2, <2>3 DEF Tx
<1>1. /\ \A t \in Tx : index[t] = IF t \in TxsOf(fresh) THEN "merged" ELSE s.index[t]
      /\ \A t \in Tx, m \in Maker :
            held[t][m] = IF m = "merged" /\ t \in TxsOf(fresh) THEN {} ELSE s.held[t][m]
      /\ index \in [Tx -> Maker \union {"none"}] /\ held \in [Tx -> [Maker -> SUBSET Nat]]
  BY DEF Store, Maker
<1>2. HeldTrue(held)
  BY <1>1 DEF HeldTrue
<1>3. Max({s.maxTxID} \union TxsOf(fresh)) \in 0 .. Len(txs)
  <2> DEFINE S == {s.maxTxID} \union TxsOf(fresh)
  <2>0. s.maxTxID \in 0 .. Len(txs)
    BY DEF Store
  <2>1. S \in SUBSET (0 .. Len(txs)) /\ S # {}
    <3> HIDE DEF fresh
    <3> QED
      BY <1>0, <2>0
  <2> HIDE DEF S
  <2>2. Max(S) \in S
    BY <1>0, <2>1, MaxIs
  <2> QED
    BY <2>1, <2>2 DEF S
<1>4. c = [s EXCEPT !.packets = @ \o Entries(fresh, "merged"), !.index = index, !.held = held,
                    !.maxTxID = Max({@} \union TxsOf(fresh))]
  BY DEF CreateRows
<1>5. os \in SUBSET (1 .. Len(obs))
  BY DEF RowsOK, ObsOf
<1>6. a = AddObservations(c, os)
  BY DEF AddRows
<1> HIDE DEF index, held, c, fresh, os, a
<1>7. c = [packets |-> s.packets \o Entries(fresh, "merged"), index |-> index, held |-> held,
           totalObs |-> s.totalObs, maxTxID |-> Max({s.maxTxID} \union TxsOf(fresh)),
           maxObsID |-> s.maxObsID, evictedFrom |-> s.evictedFrom]
  BY <1>4 DEF Store
<1>8. /\ Store(c) /\ c.index = index /\ c.held = held /\ c.totalObs = s.totalObs
      /\ c.packets = s.packets \o Entries(fresh, "merged") /\ c.evictedFrom = s.evictedFrom
      /\ c.maxTxID = Max({s.maxTxID} \union TxsOf(fresh))
  BY <1>1, <1>3, <1>7 DEF Store
<1>9. HeldNow(c) = HeldNow(s)
  <2> SUFFICES ASSUME NEW o \in 1 .. Len(obs) PROVE o \in HeldNow(c) <=> o \in HeldNow(s)
    BY DEF HeldNow
  <2>0. obs[o] \in Tx
    BY <1>0
  <2>1. CASE obs[o] \in TxsOf(fresh)
    <3>1. s.index[obs[o]] = "none" /\ index[obs[o]] = "merged" /\ held[obs[o]]["merged"] = {}
      BY <1>0, <1>1, <2>0, <2>1 DEF Maker
    <3> QED
      BY <1>8, <3>1 DEF HeldNow
  <2>2. CASE obs[o] \notin TxsOf(fresh)
    <3>1. index[obs[o]] = s.index[obs[o]]
      BY <1>1, <2>0, <2>2
    <3>2. CASE s.index[obs[o]] = "none"
      BY <1>8, <3>1, <3>2 DEF HeldNow
    <3>3. CASE s.index[obs[o]] # "none"
      <4>1. s.index[obs[o]] \in Maker
        BY <2>0, <3>3 DEF Store
      <4>2. held[obs[o]][s.index[obs[o]]] = s.held[obs[o]][s.index[obs[o]]]
        BY <1>1, <2>0, <2>2, <4>1
      <4> QED
        BY <1>8, <3>1, <4>2 DEF HeldNow
    <3> QED
      BY <3>2, <3>3
  <2> QED
    BY <2>1, <2>2
<1>10. /\ a.packets = c.packets /\ a.evictedFrom = c.evictedFrom
       /\ HeldTrue(a.held) /\ a.totalObs \in Int
       /\ HeldNow(c) \subseteq HeldNow(a)
       /\ a.totalObs - Cardinality(HeldNow(a)) = c.totalObs - Cardinality(HeldNow(c))
  BY <1>2, <1>5, <1>6, <1>8, AddObservationsIs
<1>11. a.maxTxID = c.maxTxID
  BY <1>5, <1>6, <1>8, AddObservationsStore
<1> QED
  BY <1>8, <1>9, <1>10, <1>11 DEF a, fresh

\* A batch of loadChunkWhere whose rows are not in memory: they come with their
\* observations, not yet counted.
LEMMA IndexRowsIs ==
    ASSUME DBTypes, NEW s, Store(s), NEW rows, RowsOK(rows), HeldTrue(s.held),
           \A r, q \in rows : r.tx = q.tx => r = q
    PROVE  LET a == IndexRows(s, rows)
               all == UNION {r.obs : r \in rows}
           IN  /\ a.packets = s.packets /\ a.evictedFrom = s.evictedFrom
               /\ a.totalObs = s.totalObs /\ a.maxTxID = s.maxTxID
               /\ HeldTrue(a.held)
               /\ (\A r \in rows : s.index[r.tx] = "none") =>
                     HeldNow(s) \cap all = {} /\ HeldNow(a) = HeldNow(s) \union all
<1> DEFINE index == [t \in Tx |-> IF t \in TxsOf(rows) /\ s.index[t] = "none"
                                  THEN "filled" ELSE s.index[t]]
           of(t) == UNION {r.obs : r \in {q \in rows : q.tx = t}}
           held == [t \in Tx |-> [m \in Maker |->
                           IF m = "filled" /\ t \in TxsOf(rows) THEN of(t) ELSE s.held[t][m]]]
           all == UNION {r.obs : r \in rows}
           a == IndexRows(s, rows)
<1>0. \A o \in 1 .. Len(obs) : obs[o] \in Tx
  BY ElementOfSeq DEF DBTypes
<1>1. \A r \in rows : r.obs \subseteq 1 .. Len(obs) /\ \A o \in r.obs : obs[o] = r.tx
  BY DEF RowsOK, ObsOf
<1>2. /\ \A t \in Tx : index[t] = IF t \in TxsOf(rows) /\ s.index[t] = "none"
                                  THEN "filled" ELSE s.index[t]
      /\ \A t \in Tx, m \in Maker :
            held[t][m] = IF m = "filled" /\ t \in TxsOf(rows) THEN of(t) ELSE s.held[t][m]
  <2> HIDE DEF of
  <2> QED
    OBVIOUS
<1>3. \A t \in Tx : of(t) \subseteq ObsOf(t)
  BY <1>1 DEF ObsOf
<1>4. HeldTrue(held)
  <2> HIDE DEF of, held
  <2> QED
    BY <1>2, <1>3 DEF HeldTrue
<1>5. a = [s EXCEPT !.index = index, !.held = held]
  BY DEF IndexRows
<1>6. \A t \in Tx, o \in 1 .. Len(obs) : o \in of(t) <=> o \in all /\ obs[o] = t
  BY <1>1
<1>7. all \subseteq 1 .. Len(obs) /\ \A o \in all : obs[o] \in TxsOf(rows)
  BY <1>1 DEF TxsOf
<1>8. \A t \in TxsOf(rows) : \E r \in rows : r.tx = t
  BY DEF TxsOf
<1> HIDE DEF index, held, a, all, of
<1>9. /\ a.packets = s.packets /\ a.evictedFrom = s.evictedFrom /\ a.totalObs = s.totalObs
      /\ a.maxTxID = s.maxTxID /\ a.index = index /\ a.held = held
  BY <1>5 DEF Store
<1>10. ASSUME \A r \in rows : s.index[r.tx] = "none"
       PROVE  HeldNow(s) \cap all = {} /\ HeldNow(a) = HeldNow(s) \union all
  <2>1. \A t \in TxsOf(rows) : s.index[t] = "none"
    BY <1>8, <1>10
  <2>2. HeldNow(s) \cap all = {}
    BY <1>7, <2>1 DEF HeldNow
  <2>3. ASSUME NEW o \in 1 .. Len(obs) PROVE o \in HeldNow(a) <=> o \in HeldNow(s) \/ o \in all
    <3>0. obs[o] \in Tx
      BY <1>0
    <3>1. CASE obs[o] \in TxsOf(rows)
      <4>1. index[obs[o]] = "filled" /\ held[obs[o]]["filled"] = of(obs[o])
            /\ s.index[obs[o]] = "none"
        BY <1>2, <2>1, <3>0, <3>1 DEF Maker
      <4>2. o \in of(obs[o]) <=> o \in all
        BY <1>6, <3>0
      <4> QED
        BY <1>9, <4>1, <4>2 DEF HeldNow
    <3>2. CASE obs[o] \notin TxsOf(rows)
      <4>1. index[obs[o]] = s.index[obs[o]] /\ o \notin all
        BY <1>2, <1>7, <3>0, <3>2
      <4>2. CASE s.index[obs[o]] = "none"
        BY <1>9, <4>1, <4>2 DEF HeldNow
      <4>3. CASE s.index[obs[o]] # "none"
        <5>1. s.index[obs[o]] \in Maker
          BY <3>0, <4>3 DEF Store
        <5>2. held[obs[o]][s.index[obs[o]]] = s.held[obs[o]][s.index[obs[o]]]
          BY <1>2, <3>0, <3>2, <5>1
        <5> QED
          BY <1>9, <4>1, <5>2 DEF HeldNow
      <4> QED
        BY <4>2, <4>3
    <3> QED
      BY <3>1, <3>2
  <2>4. HeldNow(a) \subseteq 1 .. Len(obs) /\ HeldNow(s) \subseteq 1 .. Len(obs)
    BY DEF HeldNow
  <2> QED
    BY <1>7, <2>2, <2>3, <2>4
<1> QED
  BY <1>4, <1>9, <1>10 DEF a, all

\* The last critical section of a chunk.
LEMMA PublishRowsIs ==
    ASSUME NEW s, Store(s), NEW rows, NEW skipped,
           NEW in, in = SortByFirstSeen(Entries(rows, "filled"))
    PROVE  LET a == PublishRows(s, rows, skipped)
           IN  /\ a.packets = MergeByFirstSeen(s.packets, in, skipped)
               /\ a.index = s.index /\ a.held = s.held /\ a.evictedFrom = s.evictedFrom
<1> DEFINE a == PublishRows(s, rows, skipped)
           merged == MergeByFirstSeen(s.packets, in, skipped)
           all == UNION {r.obs : r \in rows}
<1>1. a = [s EXCEPT !.packets = merged, !.totalObs = @ + Cardinality(all),
                    !.maxTxID = Max({@} \union TxsOf(rows)),
                    !.maxObsID = Max({@} \union all)]
  BY DEF PublishRows
<1> HIDE DEF a, merged, all
<1>2. /\ a.packets = merged
      /\ a.index = s.index /\ a.held = s.held /\ a.evictedFrom = s.evictedFrom
  BY <1>1 DEF Store
<1> QED
  BY <1>2 DEF a, merged

\* A published chunk adds its observations to the running total.
LEMMA PublishCounts ==
    ASSUME NEW s, Store(s), NEW rows, NEW skipped,
           NEW all, all = UNION {r.obs : r \in rows}
    PROVE  PublishRows(s, rows, skipped).totalObs = s.totalObs + Cardinality(all)
<1> DEFINE a == PublishRows(s, rows, skipped)
           merged == MergeByFirstSeen(s.packets, SortByFirstSeen(Entries(rows, "filled")), skipped)
<1>1. a = [s EXCEPT !.packets = merged, !.totalObs = @ + Cardinality(all),
                    !.maxTxID = Max({@} \union TxsOf(rows)),
                    !.maxObsID = Max({@} \union all)]
  BY DEF PublishRows
<1> HIDE DEF a, merged
<1>2. a.totalObs = s.totalObs + Cardinality(all)
  BY <1>1 DEF Store
<1> QED
  BY <1>2 DEF a

\* The highest id stays at least what it was, and becomes no id but a row's.
LEMMA PublishMax ==
    ASSUME NEW s, Store(s), NEW rows, RowsOK(rows), NEW skipped, Len(txs) \in Nat
    PROVE  /\ s.maxTxID <= PublishRows(s, rows, skipped).maxTxID
           /\ PublishRows(s, rows, skipped).maxTxID \in {s.maxTxID} \union TxsOf(rows)
<1> DEFINE a == PublishRows(s, rows, skipped)
           merged == MergeByFirstSeen(s.packets, SortByFirstSeen(Entries(rows, "filled")), skipped)
           all == UNION {r.obs : r \in rows}
           ids == {s.maxTxID} \union TxsOf(rows)
<1>1. a = [s EXCEPT !.packets = merged, !.totalObs = @ + Cardinality(all),
                    !.maxTxID = Max({@} \union TxsOf(rows)),
                    !.maxObsID = Max({@} \union all)]
  BY DEF PublishRows
<1> HIDE DEF a, merged, all
<1>2. a.maxTxID = Max(ids)
  BY <1>1 DEF Store
<1>3. ids \in SUBSET (0 .. Len(txs)) /\ ids # {} /\ s.maxTxID \in ids
  <2>1. TxsOf(rows) \subseteq 0 .. Len(txs) /\ s.maxTxID \in 0 .. Len(txs)
    BY DEF RowsOK, TxsOf, Store
  <2> QED
    BY <2>1
<1> HIDE DEF ids
<1>4. Max(ids) \in ids /\ \A x \in ids : x <= Max(ids)
  BY <1>3, MaxIs
<1> QED
  BY <1>2, <1>3, <1>4 DEF a, ids

\* An initial segment of the naturals is finite.
LEMMA UpToFinite ==
    ASSUME NEW n \in Nat
    PROVE  IsFiniteSet(1 .. n)
BY FS_Interval

\* A nonempty set of naturals has a minimum, and Min is it.
LEMMA MinIs ==
    ASSUME NEW S \in SUBSET Nat, S # {}
    PROVE  Min(S) \in S /\ \A x \in S : Min(S) <= x
<1>1. \E m \in S : \A k \in S : m <= k
  BY LeastNatural
<1> QED
  BY <1>1 DEF Min

\* What is below the minimum is below every element.
LEMMA BelowMin ==
    ASSUME NEW S \in SUBSET Nat, NEW x \in S, NEW y \in Int, y < Min(S)
    PROVE  y < x
<1> DEFINE m == Min(S)
<1>1. m \in S /\ m <= x
  BY MinIs
<1>2. y < m
  OBVIOUS
<1> HIDE DEF m
<1>3. m \in Nat /\ x \in Nat
  BY <1>1
<1> QED
  BY <1>1, <1>2, <1>3

\* EvictStale takes entries from the head, without a memory bound only those
\* before the retention window.
LEMMA EvictCountIs ==
    ASSUME NEW s, s.packets \in Seq(Entry)
    PROVE  /\ EvictCount(s) \in 0 .. Len(s.packets)
           /\ MaxMemory = 0 => \A i \in 1 .. EvictCount(s) : s.packets[i].first < Floor
<1> DEFINE n == Len(s.packets)
           old(k) == \A i \in 1 .. k : s.packets[i].first < Floor
           S == {0} \union {k \in 1 .. n : old(k)}
<1>0. n \in Nat /\ MaxMemory \in Nat
  BY StoreAssumption, LenProperties
<1>1. Expired(s) = Max(S)
  BY DEF Expired
<1>2. Expired(s) \in S
  <2>1. S \in SUBSET (0 .. n) /\ S # {}
    BY <1>0
  <2> HIDE DEF S, n
  <2> QED
    BY <1>0, <1>1, <2>1, MaxIs
<1>3. Expired(s) \in 0 .. n /\ old(Expired(s))
  <2>1. CASE Expired(s) = 0
    BY <1>0, <2>1
  <2>2. CASE Expired(s) \in {k \in 1 .. n : old(k)}
    BY <1>0, <2>2
  <2> QED
    BY <1>2, <2>1, <2>2
<1> HIDE DEF old, S
<1>4. MemoryCutoff(s) \in 0 .. n
  <2> DEFINE from == Expired(s)
             freed(k) == (k - from) + HeldBy(s, from + 1 .. k)
             A == {n} \union {k \in from .. n : Accounted(s) - freed(k) <= LowWatermark}
             stop == Min(A)
             q == n \div 4
             B == {1, q}
             T == {stop, Max(B)}
  <2>1. MemoryCutoff(s) = Min(T)
    BY DEF MemoryCutoff
  <2>2. A \in SUBSET Nat /\ A # {} /\ n \in A
    <3> HIDE DEF freed
    <3> QED
      BY <1>0, <1>3
  <2>3. stop \in Nat /\ stop <= n
    <3> HIDE DEF A
    <3> QED
      BY <2>2, MinIs
  <2>4. q \in Nat /\ q <= n
    <3> HIDE DEF n
    <3> QED
      BY <1>0
  <2> HIDE DEF q
  <2>5. Max(B) \in Nat
    <3>1. B \in SUBSET (0 .. n + 1) /\ B # {} /\ n + 1 \in Nat
      BY <1>0, <2>4
    <3>2. Max(B) \in B
      <4> HIDE DEF B
      <4> QED
        BY <3>1, MaxIs
    <3> QED
      BY <2>4, <3>2
  <2> HIDE DEF A, B, stop
  <2>6. T \in SUBSET Nat /\ T # {} /\ stop \in T
    BY <2>3, <2>5
  <2> HIDE DEF T
  <2>7. Min(T) \in Nat /\ Min(T) <= stop
    BY <2>6, MinIs
  <2> QED
    BY <1>0, <2>1, <2>3, <2>7
<1>5. Max({Expired(s), MemoryCutoff(s)}) \in 0 .. n
  <2> DEFINE T == {Expired(s), MemoryCutoff(s)}
  <2>1. T \in SUBSET (0 .. n) /\ T # {}
    BY <1>3, <1>4
  <2> HIDE DEF T, n
  <2>2. Max(T) \in T
    BY <1>0, <2>1, MaxIs
  <2> QED
    BY <2>1, <2>2 DEF T
<1>6. /\ EvictCount(s) = Expired(s) \/ EvictCount(s) = Max({Expired(s), MemoryCutoff(s)})
      /\ MaxMemory = 0 => EvictCount(s) = Expired(s)
  BY <1>0 DEF EvictCount
<1> QED
  BY <1>3, <1>5, <1>6 DEF old

\* In a store whose index leads to its entries, each of them in one place.
Leads(s) ==
    /\ \A i \in 1 .. Len(s.packets) : s.index[s.packets[i].tx] = s.packets[i].by
    /\ \A i, j \in 1 .. Len(s.packets) : s.packets[i].tx = s.packets[j].tx => i = j

\* ... the observations of some entries are those of their transmissions.
LEMMA HeldByIs ==
    ASSUME DBTypes, NEW s, Store(s), s.packets \in Seq(Entry), HeldTrue(s.held), Leads(s),
           NEW I \in SUBSET (1 .. Len(s.packets))
    PROVE  HeldBy(s, I) = Cardinality({o \in HeldNow(s) : \E i \in I : s.packets[i].tx = obs[o]})
<1> DEFINE P == {p \in I \X Obs : p[2] \in s.held[s.packets[p[1]].tx][s.packets[p[1]].by]}
           Q == {o \in HeldNow(s) : \E i \in I : s.packets[i].tx = obs[o]}
           f == [p \in P |-> p[2]]
<1>0. /\ Len(s.packets) \in Nat /\ MaxObs \in Nat /\ Len(obs) \in Nat /\ Len(obs) <= MaxObs
      /\ \A i \in I : s.packets[i].tx \in Tx /\ s.packets[i].by \in Maker
      /\ 1 .. Len(obs) \subseteq Obs
  <2>1. Len(s.packets) \in Nat /\ MaxObs \in Nat /\ Len(obs) \in Nat /\ Len(obs) <= MaxObs
    BY DBAssumption, LenProperties DEF DBTypes
  <2>2. \A i \in I : s.packets[i] \in Entry
    BY ElementOfSeq
  <2> QED
    BY <2>1, <2>2 DEF Entry, Obs
<1>1. HeldBy(s, I) = Cardinality(P)
  BY DEF HeldBy
<1>2. IsFiniteSet(P)
  <2>1. IsFiniteSet(1 .. Len(s.packets)) /\ IsFiniteSet(Obs)
    BY <1>0, UpToFinite DEF Obs
  <2>2. IsFiniteSet(I \X Obs)
    BY <2>1, FS_Subset, FS_Product
  <2>3. P \in SUBSET (I \X Obs)
    OBVIOUS
  <2> HIDE DEF P
  <2> QED
    BY <2>2, <2>3, FS_Subset
<1>3. ASSUME NEW p \in P
      PROVE  /\ p[1] \in I /\ p[2] \in 1 .. Len(obs) /\ obs[p[2]] = s.packets[p[1]].tx
             /\ p[2] \in HeldNow(s) /\ p = <<p[1], p[2]>>
  <2>1. p[1] \in I /\ p[2] \in s.held[s.packets[p[1]].tx][s.packets[p[1]].by] /\ p = <<p[1], p[2]>>
    OBVIOUS
  <2>2. p[2] \in ObsOf(s.packets[p[1]].tx)
    BY <1>0, <2>1 DEF HeldTrue
  <2>3. p[2] \in 1 .. Len(obs) /\ obs[p[2]] = s.packets[p[1]].tx
    BY <2>2 DEF ObsOf
  <2>4. s.index[obs[p[2]]] = s.packets[p[1]].by /\ s.index[obs[p[2]]] # "none"
    BY <1>0, <2>1, <2>3 DEF Leads, Maker
  <2> QED
    BY <2>1, <2>3, <2>4 DEF HeldNow
<1>4. ASSUME NEW o \in Q PROVE \E p \in P : p[2] = o
  <2>1. PICK i \in I : s.packets[i].tx = obs[o]
    OBVIOUS
  <2>2. s.index[obs[o]] = s.packets[i].by
    BY <2>1 DEF Leads
  <2>3. o \in 1 .. Len(obs) /\ o \in s.held[s.packets[i].tx][s.packets[i].by]
    BY <2>1, <2>2 DEF HeldNow
  <2>4. <<i, o>> \in P
    BY <1>0, <2>3
  <2> QED
    BY <2>4
<1>5. \A p \in P : f[p] \in Q /\ f[p] = p[2]
  BY <1>3
<1> HIDE DEF P, Q
<1>6. f \in Surjection(P, Q)
  <2>1. f \in [P -> Q]
    BY <1>5
  <2>2. \A o \in Q : \E p \in P : f[p] = o
    BY <1>4, <1>5
  <2> HIDE DEF f
  <2> QED
    BY <2>1, <2>2 DEF Surjection
<1>7. f \in Injection(P, Q)
  <2>1. f \in [P -> Q]
    BY <1>5
  <2>2. ASSUME NEW p \in P, NEW q \in P, f[p] = f[q] PROVE p = q
    <3>1. p[2] = q[2]
      BY <1>5, <2>2
    <3>2. s.packets[p[1]].tx = s.packets[q[1]].tx /\ p[1] \in I /\ q[1] \in I
      BY <1>3, <3>1
    <3>3. p[1] = q[1]
      BY <3>2 DEF Leads
    <3> QED
      BY <1>3, <3>1, <3>3
  <2> HIDE DEF f
  <2> QED
    BY <2>1, <2>2 DEF Injection, IsInjective
<1>8. Cardinality(Q) = Cardinality(P)
  <2> HIDE DEF f
  <2> QED
    BY <1>2, <1>6, <1>7, FS_Surjection
<1> QED
  BY <1>1, <1>8 DEF Q

\* EvictStale trims the head, and what it held with it.
LEMMA EvictHeadIs ==
    ASSUME DBTypes, NEW s, Store(s), s.packets \in Seq(Entry), HeldTrue(s.held),
           s.totalObs \in Int, NEW k \in 0 .. Len(s.packets)
    PROVE  LET a == EvictHead(s, k)
           IN  /\ a.packets \in Seq(Entry) /\ Len(a.packets) = Len(s.packets) - k
               /\ \A i \in 1 .. Len(a.packets) : a.packets[i] = s.packets[i + k]
               /\ HeldTrue(a.held) /\ a.totalObs \in Int
               /\ Leads(s) =>
                    /\ HeldNow(a) \subseteq HeldNow(s)
                    /\ \A o \in HeldNow(s) \ HeldNow(a) : \E i \in 1 .. k : s.packets[i].tx = obs[o]
                    /\ a.totalObs - Cardinality(HeldNow(a)) = s.totalObs - Cardinality(HeldNow(s))
<1> DEFINE n == Len(s.packets)
           g == {s.packets[i] : i \in 1 .. k}
           txsGone == {e.tx : e \in g}
           index == [t \in Tx |-> IF t \in txsGone THEN "none" ELSE s.index[t]]
           held == [t \in Tx |-> [m \in Maker |->
                       IF \E e \in g : e.tx = t /\ e.by = m THEN {} ELSE s.held[t][m]]]
           a == EvictHead(s, k)
           P == {p \in (1 .. k) \X Obs : p[2] \in s.held[s.packets[p[1]].tx][s.packets[p[1]].by]}
<1>0. /\ n \in Nat /\ k \in Nat /\ k <= n /\ MaxObs \in Nat
      /\ Len(obs) \in Nat /\ Len(obs) <= MaxObs
      /\ \A o \in 1 .. Len(obs) : obs[o] \in Tx
  BY DBAssumption, ElementOfSeq, LenProperties DEF DBTypes
<1>1. \A t : t \in txsGone <=> \E i \in 1 .. k : s.packets[i].tx = t
  OBVIOUS
<1>2. /\ \A t \in Tx : index[t] = IF t \in txsGone THEN "none" ELSE s.index[t]
      /\ \A t \in Tx, m \in Maker : held[t][m] = {} \/ held[t][m] = s.held[t][m]
      /\ \A t \in Tx, m \in Maker : t \notin txsGone => held[t][m] = s.held[t][m]
  <2>1. \A t \in Tx : t \notin txsGone => ~\E e \in g : e.tx = t
    OBVIOUS
  <2> HIDE DEF g, txsGone
  <2> QED
    BY <2>1
<1>3. HeldTrue(held)
  <2> HIDE DEF held
  <2> QED
    BY <1>2 DEF HeldTrue
<1>4. a = [s EXCEPT !.packets = SubSeq(@, k + 1, Len(@)), !.index = index, !.held = held,
                    !.evictedFrom = Max({@} \union {e.first + 1 : e \in g}),
                    !.totalObs = @ - HeldBy(s, 1 .. k)]
  BY DEF EvictHead
<1> HIDE DEF index, held, a, g, txsGone
<1>5. /\ a.packets = SubSeq(s.packets, k + 1, n) /\ a.index = index /\ a.held = held
      /\ a.totalObs = s.totalObs - HeldBy(s, 1 .. k)
  BY <1>4 DEF Store
<1>6. /\ a.packets \in Seq(Entry) /\ Len(a.packets) = n - k
      /\ \A i \in 1 .. Len(a.packets) : a.packets[i] = s.packets[i + k]
  <2>1. k + 1 \in 1 .. n + 1 /\ n \in k + 1 - 1 .. n
    BY <1>0
  <2>2. /\ SubSeq(s.packets, k + 1, n) \in Seq(Entry)
        /\ Len(SubSeq(s.packets, k + 1, n)) = IF k + 1 <= n THEN n - (k + 1) + 1 ELSE 0
        /\ \A i \in 1 .. n - (k + 1) + 1 :
              SubSeq(s.packets, k + 1, n)[i] = s.packets[k + 1 + i - 1]
    BY <1>0, SubSeqProperties
  <2>3. Len(a.packets) = n - k
    BY <1>0, <1>5, <2>2
  <2>4. \A i \in 1 .. n - k : a.packets[i] = s.packets[i + k]
    <3> SUFFICES ASSUME NEW i \in 1 .. n - k PROVE a.packets[i] = s.packets[i + k]
      OBVIOUS
    <3>1. i \in 1 .. n - (k + 1) + 1 /\ k + 1 + i - 1 = i + k
      BY <1>0
    <3> QED
      BY <1>5, <2>2, <3>1
  <2> QED
    BY <1>5, <2>2, <2>3, <2>4
<1>7. HeldBy(s, 1 .. k) \in Int
  <2>1. IsFiniteSet(1 .. k) /\ IsFiniteSet(Obs)
    BY <1>0, FS_Interval DEF Obs
  <2>2. IsFiniteSet((1 .. k) \X Obs)
    BY <2>1, FS_Product
  <2>3. P \in SUBSET ((1 .. k) \X Obs) /\ HeldBy(s, 1 .. k) = Cardinality(P)
    BY DEF HeldBy
  <2> HIDE DEF P
  <2>4. Cardinality(P) \in Nat
    BY <2>2, <2>3, FS_Subset, FS_CardinalityType
  <2> QED
    BY <2>3, <2>4
<1>8. ASSUME Leads(s)
      PROVE  /\ HeldNow(a) \subseteq HeldNow(s)
             /\ \A o \in HeldNow(s) \ HeldNow(a) : \E i \in 1 .. k : s.packets[i].tx = obs[o]
             /\ a.totalObs - Cardinality(HeldNow(a)) = s.totalObs - Cardinality(HeldNow(s))
  <2> DEFINE Q == {o \in HeldNow(s) : \E i \in 1 .. k : s.packets[i].tx = obs[o]}
  <2>1. ASSUME NEW o \in 1 .. Len(obs) PROVE o \in HeldNow(a) <=> o \in HeldNow(s) /\ o \notin Q
    <3>0. obs[o] \in Tx
      BY <1>0
    <3>1. CASE obs[o] \in txsGone
      <4>1. index[obs[o]] = "none" /\ \E i \in 1 .. k : s.packets[i].tx = obs[o]
        BY <1>1, <1>2, <3>0, <3>1
      <4> QED
        BY <1>5, <4>1 DEF HeldNow
    <3>2. CASE obs[o] \notin txsGone
      <4>1. index[obs[o]] = s.index[obs[o]] /\ ~\E i \in 1 .. k : s.packets[i].tx = obs[o]
        BY <1>1, <1>2, <3>0, <3>2
      <4>2. CASE s.index[obs[o]] = "none"
        BY <1>5, <4>1, <4>2 DEF HeldNow
      <4>3. CASE s.index[obs[o]] # "none"
        <5>1. s.index[obs[o]] \in Maker
          BY <3>0, <4>3 DEF Store
        <5>2. held[obs[o]][s.index[obs[o]]] = s.held[obs[o]][s.index[obs[o]]]
          BY <1>2, <3>0, <3>2, <5>1
        <5> QED
          BY <1>5, <4>1, <5>2 DEF HeldNow
      <4> QED
        BY <4>2, <4>3
    <3> QED
      BY <3>1, <3>2
  <2>2. HeldNow(a) \subseteq 1 .. Len(obs) /\ HeldNow(s) \subseteq 1 .. Len(obs)
    BY DEF HeldNow
  <2>3. Q \subseteq HeldNow(s) /\ \A o \in Q : \E i \in 1 .. k : s.packets[i].tx = obs[o]
    OBVIOUS
  <2>4. HeldBy(s, 1 .. k) = Cardinality(Q)
    <3>1. 1 .. k \in SUBSET (1 .. Len(s.packets))
      BY <1>0
    <3> QED
      BY <1>8, <3>1, HeldByIs
  <2> HIDE DEF Q
  <2>5. HeldNow(s) = HeldNow(a) \union Q /\ HeldNow(a) \cap Q = {}
    BY <2>1, <2>2, <2>3
  <2>6. /\ Cardinality(HeldNow(s)) = Cardinality(HeldNow(a)) + Cardinality(Q)
        /\ Cardinality(HeldNow(a)) \in Nat /\ Cardinality(Q) \in Nat
    <3>1. HeldNow(a) \in SUBSET (1 .. Len(obs)) /\ Q \in SUBSET (1 .. Len(obs))
      BY <2>2, <2>3
    <3>2. /\ Cardinality(HeldNow(a)) \in Nat /\ Cardinality(Q) \in Nat
          /\ Cardinality(HeldNow(a) \union Q) = Cardinality(HeldNow(a)) + Cardinality(Q)
      <4> DEFINE H == HeldNow(a)
      <4>1. Len(obs) \in Nat /\ H \in SUBSET (1 .. Len(obs)) /\ H \cap Q = {}
        BY <1>0, <2>5, <3>1
      <4> HIDE DEF H
      <4>2. /\ Cardinality(H) \in Nat /\ Cardinality(Q) \in Nat
            /\ Cardinality(H \union Q) = Cardinality(H) + Cardinality(Q)
        BY <3>1, <4>1, CardAdd
      <4> QED
        BY <4>2 DEF H
    <3> QED
      BY <2>5, <3>2
  <2> QED
    BY <1>5, <2>3, <2>4, <2>5, <2>6
<1> QED
  BY <1>3, <1>5, <1>6, <1>7, <1>8, SMTT(30) DEF a

\* Live traffic moves no first_seen: packets carry the present.
FirstsKept == \A t \in 1 .. Len(txs) : txs'[t].first = txs[t].first

\* TimesFixed is preserved, and the first_seen of a stored row never changes.
LEMMA TimesStep ==
    ASSUME RxTimes \subseteq {Now}, IngestTypes, RowsInHand, TimesFixed, [Next]_vars
    PROVE  TimesFixed' /\ FirstsKept
<1> DEFINE R == [first : Stamp, last : Stamp]
<1>0. /\ DBTypes /\ DBTypes' /\ WriterTypes /\ TablesGrow
      /\ txs \in Seq(R) /\ Len(txs) \in Nat /\ txs' \in Seq(R) /\ Len(txs') \in Nat
      /\ Len(txs) <= Len(txs')
      /\ \A t \in 1 .. Len(txs) : txs[t] \in R
      /\ \A t \in 1 .. Len(txs') : txs'[t] \in R
      /\ Now \in Nat /\ InitTx \in Nat
  <2>1. IngestTypes' /\ TablesGrow
    BY TypesStep
  <2>2. DBTypes /\ DBTypes' /\ WriterTypes
    BY <2>1 DEF IngestTypes
  <2>3. txs \in Seq(R) /\ txs' \in Seq(R)
    BY <2>2 DEF DBTypes
  <2>4. /\ \A t \in 1 .. Len(txs) : txs[t] \in R
        /\ \A t \in 1 .. Len(txs') : txs'[t] \in R
    BY <2>3, ElementOfSeq
  <2>5. Now \in Nat /\ InitTx \in Nat
    BY DBAssumption, HistoryAssumption
  <2> QED
    BY <2>1, <2>2, <2>3, <2>4, <2>5 DEF TablesGrow
<1>1. /\ \A t \in 1 .. Len(txs) : txs[t].first \in 0 .. Now /\ txs[t].last \in 0 .. Now
      /\ \A t \in 1 .. Len(txs') : txs'[t].first \in 0 .. Now /\ txs'[t].last \in 0 .. Now
  BY <1>0 DEF Stamp
<1> DEFINE New == \A t \in Len(txs) + 1 .. Len(txs') : txs'[t].first = Now /\ txs'[t].last = Now
<1>2. FirstsKept /\ New
  <2>1. ASSUME NEW rx \in RxTimes, InsertTransmission(rx) PROVE FirstsKept /\ New
    <3>0. rx = Now /\ rx \in Stamp
      BY DBAssumption DEF Stamp
    <3>1. [first |-> rx, last |-> rx] \in R
      BY <3>0
    <3>2. txs' = Append(txs, [first |-> rx, last |-> rx])
      BY <2>1 DEF InsertTransmission
    <3>3. /\ Len(txs') = Len(txs) + 1
          /\ \A t \in 1 .. Len(txs) : txs'[t] = txs[t]
          /\ txs'[Len(txs) + 1] = [first |-> rx, last |-> rx]
      BY <1>0, <3>1, <3>2, AppendProperties
    <3> QED
      BY <1>0, <3>0, <3>3 DEF FirstsKept
  <2>2. ASSUME NEW t \in 1 .. Len(txs), NEW rx \in RxTimes, RehearTransmission(t, rx)
        PROVE  FirstsKept /\ New
    <3>0. rx = Now /\ ~(rx < txs[t].first)
      BY <1>0, <1>1
    <3> DEFINE f == IF rx < txs[t].first THEN rx ELSE txs[t].first
    <3>1. txs' = [txs EXCEPT ![t] = [txs[t] EXCEPT !.first = f]]
      BY <2>2 DEF RehearTransmission
    <3>2. f = txs[t].first
      BY <3>0
    <3> HIDE DEF f
    <3>3. /\ Len(txs') = Len(txs)
          /\ \A k \in 1 .. Len(txs) : txs'[k].first = txs[k].first
      BY <1>0, <3>1, <3>2
    <3> QED
      BY <1>0, <3>3 DEF FirstsKept
  <2>3. ASSUME BumpLastSeen PROVE FirstsKept /\ New
    <3> DEFINE t == writer.tx
               l == IF txs[t].last < writer.rx THEN writer.rx ELSE txs[t].last
    <3>1. t \in 1 .. Len(txs)
      BY <1>0, <2>3 DEF BumpLastSeen, WriterTypes
    <3>2. txs' = [txs EXCEPT ![t] = [txs[t] EXCEPT !.last = l]]
      BY <2>3 DEF BumpLastSeen
    <3> HIDE DEF l, t
    <3>3. /\ Len(txs') = Len(txs)
          /\ \A k \in 1 .. Len(txs) : txs'[k].first = txs[k].first
      BY <1>0, <3>1, <3>2
    <3> QED
      BY <1>0, <3>3 DEF FirstsKept
  <2>4. ASSUME txs' = txs PROVE FirstsKept /\ New
    BY <1>0, <2>4 DEF FirstsKept
  <2>5. WriteObservation \/ WriteObservationFails => txs' = txs
    BY DEF WriteObservation, WriteObservationFails
  <2>6. Load \/ Poll \/ RunEviction \/ UNCHANGED vars => txs' = txs
    BY LoadRows DEF Poll, StartPoller, PollTick, PollTransmissions, PollTransmissionsFails,
          IngestNewFromDB, NextObsID, PollObservations, IngestNewObservations, RunEviction, vars, db
  <2> HIDE DEF R, New
  <2> QED
    BY <2>1, <2>2, <2>3, <2>4, <2>5, <2>6 DEF Next, Write, WriterNext
<1>3. ASSUME NEW t \in InitTx + 1 .. Len(txs') PROVE txs'[t].first = Now /\ txs'[t].last = Now
  <2>1. CASE t <= Len(txs)
    <3>1. t \in 1 .. Len(txs) /\ t \in InitTx + 1 .. Len(txs) /\ t \in 1 .. Len(txs')
      BY <1>0, <2>1
    <3>2. txs[t].first = Now /\ txs[t].last = Now
      BY <3>1 DEF TimesFixed
    <3>3. txs'[t].first = Now
      BY <1>2, <3>1, <3>2 DEF FirstsKept
    <3>4. txs[t].last <= txs'[t].last /\ txs'[t].last \in 0 .. Now
      BY <1>0, <1>1, <3>1 DEF TablesGrow
    <3> QED
      BY <1>0, <3>2, <3>3, <3>4
  <2> QED
    BY <1>0, <1>2, <2>1
<1> QED
  BY <1>0, <1>2, <1>3 DEF TimesFixed

------------------------------------------------------------------------------
\* The rows of a query are true, and what is kept of them stays true.
LEMMA RowsAreTrue ==
    ASSUME DBTypes, NEW T \in SUBSET (1 .. Len(txs))
    PROVE  RowsTrue(Rows(T))
<1> DEFINE f == [t \in T |-> Row(t)]
<1>1. IsFiniteSet(T)
  <2>1. Len(txs) \in Nat
    BY DEF DBTypes
  <2> QED
    BY <2>1, UpToFinite, FS_Subset
<1>2. f \in Surjection(T, Rows(T))
  <2>1. f \in [T -> Rows(T)]
    BY DEF Rows
  <2>2. \A r \in Rows(T) : \E t \in T : f[t] = r
    BY DEF Rows
  <2> HIDE DEF f
  <2> QED
    BY <2>1, <2>2 DEF Surjection
<1>3. IsFiniteSet(Rows(T))
  <2> HIDE DEF f
  <2> QED
    BY <1>1, <1>2, FS_Surjection
<1>4. \A t \in T : Row(t).tx = t /\ Row(t).first = txs[t].first
  BY DEF Row
<1>5. ASSUME NEW r \in Rows(T) PROVE r.tx \in T /\ r = Row(r.tx)
  <2>1. PICK t \in T : r = Row(t)
    BY DEF Rows
  <2> QED
    BY <1>4, <2>1
<1>6. \A r \in Rows(T) : r.first = txs[r.tx].first
  BY <1>4, <1>5
<1>7. \A r, q \in Rows(T) : r.tx = q.tx => r = q
  BY <1>5
<1> QED
  BY <1>3, <1>6, <1>7 DEF RowsTrue

\* Some of a set of true rows are true rows.
LEMMA SomeRowsTrue ==
    ASSUME NEW rows, RowsTrue(rows), NEW R \in SUBSET rows
    PROVE  RowsTrue(R)
<1>1. IsFiniteSet(R)
  BY FS_Subset DEF RowsTrue
<1> QED
  BY <1>1 DEF RowsTrue

\* The rows in hand are true after every step.
LEMMA RowsTrueStep ==
    ASSUME RxTimes \subseteq {Now}, IngestTypes, RowsInHand, TimesFixed, [Next]_vars,
           RowsTrue(chunk), RowsTrue(newRows)
    PROVE  RowsTrue(chunk)' /\ RowsTrue(newRows)'
<1>0. FirstsKept /\ DBTypes /\ RowsOK(chunk) /\ RowsOK(newRows)
  BY TimesStep DEF IngestTypes
<1>1. ASSUME NEW R, RowsOK(R), RowsTrue(R)
      PROVE  \A r \in R : r.first = txs'[r.tx].first
  BY <1>0, <1>1 DEF RowsOK, RowsTrue, FirstsKept
<1>2. chunk' = chunk => RowsTrue(chunk)'
  BY <1>0, <1>1 DEF RowsTrue
<1>3. newRows' = newRows => RowsTrue(newRows)'
  BY <1>0, <1>1 DEF RowsTrue
<1>4. ASSUME Load PROVE RowsTrue(chunk)'
  <2>1. ASSUME NEW T \in SUBSET (1 .. Len(txs)), chunk' = Rows(T) PROVE RowsTrue(chunk)'
    <3>1. RowsTrue(Rows(T)) /\ txs' = txs
      BY <1>0, <1>4, RowsAreTrue, LoadRows DEF db
    <3> QED
      BY <2>1, <3>1 DEF RowsTrue
  <2> QED
    BY <1>2, <1>4, <2>1, LoadRows
<1>5. ~Load => chunk' = chunk
  BY LoadFrame
<1>6. ASSUME PollTransmissions PROVE RowsTrue(newRows)'
  <2> DEFINE T == FirstN({t \in 1 .. Len(txs) : t > lastID}, TxLimit)
  <2>1. T \in SUBSET (1 .. Len(txs))
    BY DEF FirstN
  <2>2. newRows' = Rows(T) /\ txs' = txs
    BY <1>6 DEF PollTransmissions, db
  <2> HIDE DEF T
  <2>3. RowsTrue(Rows(T))
    BY <1>0, <2>1, RowsAreTrue
  <2> QED
    BY <2>2, <2>3 DEF RowsTrue
<1>7. ASSUME IngestNewFromDB PROVE RowsTrue(newRows)'
  <2>1. newRows' = {}
    BY <1>7 DEF IngestNewFromDB
  <2> QED
    BY <2>1, FS_EmptySet DEF RowsTrue
<1>8. \/ Write \/ Load \/ RunEviction \/ UNCHANGED vars \/ StartPoller(firstChunkReady)
      \/ PollTransmissionsFails \/ NextObsID \/ PollObservations \/ IngestNewObservations
      => newRows' = newRows
  BY DEF Write, Load, RunEviction, vars, pollVars, StartPoller, PollTransmissionsFails,
         NextObsID, PollObservations, IngestNewObservations
<1> QED
  BY <1>2, <1>3, <1>4, <1>5, <1>6, <1>7, <1>8 DEF Next, Poll, PollTick

\* Only these steps of the loader touch the store.
LEMMA LoadStoreIs ==
    ASSUME Load
    PROVE  \/ store' = store
           \/ HotMerge /\ store' = AddRows(store, chunk)
           \/ HotFails /\ \E R \in SUBSET chunk : store' = AddRows(store, R)
           \/ FillIndex
           \/ /\ FillPublish
              /\ \E k \in Boundaries(store.packets, Min({r.first : r \in chunk})) :
                    store' = PublishRows(store, chunk, k)
           \/ HotFinish /\ store' = [store EXCEPT !.packets = SortByFirstSeen(@)]
<1>1. \/ BeginLoad \/ HotCount \/ HotQuery \/ FillBegin \/ FillQuery \/ FillFails
      \/ ReheardQuery \/ ReheardMissing \/ ReheardLoad \/ ReheardFails \/ FillMeasure
      => store' = store
  BY DEF BeginLoad, HotCount, HotQuery, FillBegin, FillQuery, FillFails, ReheardQuery,
         ReheardMissing, ReheardLoad, ReheardFails, FillMeasure
<1>2. HotMerge => store' = AddRows(store, chunk)
  BY DEF HotMerge
<1>3. HotFails => \E R \in SUBSET chunk : store' = AddRows(store, R)
  <2> SUFFICES ASSUME HotFails PROVE \E R \in SUBSET chunk : store' = AddRows(store, R)
    OBVIOUS
  <2>1. PICK id \in {0} \union TxsOf(chunk) : store' = AddRows(store, {r \in chunk : r.tx <= id})
    BY DEF HotFails
  <2> QED
    BY <2>1
<1>4. HotFinish => store' = [store EXCEPT !.packets = SortByFirstSeen(@)]
  BY DEF HotFinish
<1>5. FillPublish => \E k \in Boundaries(store.packets, Min({r.first : r \in chunk})) :
                        store' = PublishRows(store, chunk, k)
  BY DEF FillPublish
<1>6. Finish(retainedFrom # Unproven) => store' = store
  BY DEF Finish
<1>7. VerifyNext => store' = store
  BY DEF VerifyNext, VerifyEdge, VerifyCount, VerifyCountFails, VerifyCompare, Publish, At
<1> QED
  BY <1>1, <1>2, <1>3, <1>4, <1>5, <1>6, <1>7 DEF Load, LoaderNext

\* And these of the poller.
LEMMA PollStoreIs ==
    ASSUME Poll
    PROVE  /\ UNCHANGED db /\ evicted' = evicted
           /\ \/ store' = store
              \/ IngestNewFromDB /\ store' = AddRows(store, newRows)
              \/ IngestNewObservations /\ store' = AddObservations(store, newObs)
BY DEF Poll, StartPoller, PollTick, PollTransmissions, PollTransmissionsFails,
       IngestNewFromDB, NextObsID, PollObservations, IngestNewObservations

\* A reordering keeps the entries true.
LEMMA SameTrue ==
    ASSUME NEW packets, EntriesTrue(packets), NEW out, SameEntries(out, packets)
    PROVE  EntriesTrue(out)
<1>1. ASSUME NEW k \in 1 .. Len(out)
      PROVE  out[k].tx \in 1 .. Len(txs) /\ out[k].first = txs[out[k].tx].first
  <2>1. PICK i \in 1 .. Len(packets) : out[k] = packets[i]
    BY DEF SameEntries
  <2> QED
    BY <2>1 DEF EntriesTrue
<1> QED
  BY <1>1 DEF EntriesTrue, SameEntries

\* Two runs of true entries make one.
LEMMA ConcatTrue ==
    ASSUME NEW p, EntriesTrue(p), NEW q, EntriesTrue(q)
    PROVE  EntriesTrue(p \o q)
<1>1. p \in Seq(Entry) /\ q \in Seq(Entry) /\ Len(p) \in Nat /\ Len(q) \in Nat
  BY DEF EntriesTrue
<1>2. /\ p \o q \in Seq(Entry) /\ Len(p \o q) = Len(p) + Len(q)
      /\ \A i \in 1 .. Len(p) + Len(q) : (p \o q)[i] = IF i <= Len(p) THEN p[i] ELSE q[i - Len(p)]
  BY <1>1, ConcatProperties
<1>3. ASSUME NEW i \in 1 .. Len(p) + Len(q)
      PROVE  \/ i \in 1 .. Len(p) /\ (p \o q)[i] = p[i]
             \/ i - Len(p) \in 1 .. Len(q) /\ (p \o q)[i] = q[i - Len(p)]
  BY <1>1, <1>2
<1> QED
  BY <1>2, <1>3 DEF EntriesTrue

\* Entries of true rows are true.
LEMMA EntriesAreTrue ==
    ASSUME DBTypes, NEW rows, RowsOK(rows), RowsTrue(rows), NEW by \in Maker
    PROVE  EntriesTrue(Entries(rows, by))
<1>1. \A r \in rows : r.tx \in Tx /\ r.first \in Stamp /\ r.tx \in 1 .. Len(txs)
                      /\ r.first = txs[r.tx].first
  <2>1. \A r \in rows : r.tx \in 1 .. Len(txs) /\ r.first = txs[r.tx].first
    BY DEF RowsOK, RowsTrue
  <2>2. \A t \in 1 .. Len(txs) : txs[t] \in [first : Stamp, last : Stamp] /\ t \in Tx
    <3>1. \A t \in 1 .. Len(txs) : txs[t] \in [first : Stamp, last : Stamp]
      BY ElementOfSeq DEF DBTypes
    <3>2. 1 .. Len(txs) \subseteq Tx
      BY DBAssumption DEF DBTypes, Tx
    <3> QED
      BY <3>1, <3>2
  <2> QED
    BY <2>1, <2>2
<1>2. IsFiniteSet(rows) /\ \A r, q \in rows : r.tx = q.tx => r = q
  BY DEF RowsTrue
<1> DEFINE es == Entries(rows, by)
<1>3. /\ es \in Seq(Entry)
      /\ \A i \in 1 .. Len(es) : \E r \in rows :
            es[i] = [tx |-> r.tx, by |-> by, first |-> r.first]
  BY <1>1, <1>2, EntriesIs
<1> HIDE DEF es
<1>4. ASSUME NEW i \in 1 .. Len(es)
      PROVE  es[i].tx \in 1 .. Len(txs) /\ es[i].first = txs[es[i].tx].first
  <2>1. PICK r \in rows : es[i] = [tx |-> r.tx, by |-> by, first |-> r.first]
    BY <1>3
  <2> QED
    BY <1>1, <2>1
<1> QED
  BY <1>3, <1>4 DEF EntriesTrue, es

\* AddRows adds true entries.
LEMMA AddTrue ==
    ASSUME DBTypes, NEW s, Store(s), HeldTrue(s.held), s.totalObs \in Int,
           EntriesTrue(s.packets), NEW rows, RowsOK(rows), RowsTrue(rows)
    PROVE  EntriesTrue(AddRows(s, rows).packets)
<1> DEFINE fresh == {r \in rows : s.index[r.tx] = "none"}
<1>1. AddRows(s, rows).packets = s.packets \o Entries(fresh, "merged")
  BY AddRowsIs
<1>2. RowsOK(fresh)
  BY DEF RowsOK
<1>3. RowsTrue(fresh)
  BY SomeRowsTrue
<1> HIDE DEF fresh
<1>4. EntriesTrue(Entries(fresh, "merged"))
  BY <1>2, <1>3, EntriesAreTrue DEF Maker
<1> QED
  BY <1>1, <1>4, ConcatTrue

\* PublishRows merges true entries into the table.
LEMMA PublishTrue ==
    ASSUME DBTypes, NEW s, Store(s), EntriesTrue(s.packets), NEW rows, RowsOK(rows),
           RowsTrue(rows), NEW k \in 0 .. Len(s.packets)
    PROVE  EntriesTrue(PublishRows(s, rows, k).packets)
<1> DEFINE in == SortByFirstSeen(Entries(rows, "filled"))
<1>1. EntriesTrue(Entries(rows, "filled"))
  BY EntriesAreTrue DEF Maker
<1>2. SameEntries(in, Entries(rows, "filled")) /\ Sorted(in) /\ in \in Seq(Entry)
  BY <1>1, SortIs DEF EntriesTrue, SameEntries
<1>3. EntriesTrue(in)
  BY <1>1, <1>2, SameTrue
<1>4. in = SortByFirstSeen(Entries(rows, "filled"))
  OBVIOUS
<1> HIDE DEF in
<1>5. s.packets \in Seq(Entry)
  BY DEF EntriesTrue
<1>6. SameEntries(MergeByFirstSeen(s.packets, in, k), s.packets \o in)
  BY <1>2, <1>5, MergeIs
<1>7. EntriesTrue(s.packets \o in)
  BY <1>3, ConcatTrue
<1>8. PublishRows(s, rows, k).packets = MergeByFirstSeen(s.packets, in, k)
  BY <1>4, PublishRowsIs
<1> QED
  BY <1>6, <1>7, <1>8, SameTrue

\* The slice holds entries of the table, and an entry its own observations.
StoreTrue(s) == EntriesTrue(s.packets) /\ HeldTrue(s.held) /\ s.totalObs \in Int

\* StoreTrue is preserved by every step.
LEMMA StoreTrueStep ==
    ASSUME RxTimes \subseteq {Now}, IngestTypes, RowsInHand, TimesFixed, RowsTrue(chunk),
           RowsTrue(newRows), StoreTrue(store), [Next]_vars
    PROVE  StoreTrue(store)'
<1>0. /\ DBTypes /\ DBTypes' /\ Store(store) /\ RowsOK(chunk) /\ RowsOK(newRows)
      /\ newObs \in SUBSET (1 .. Len(obs)) /\ FirstsKept /\ TablesGrow
      /\ EntriesTrue(store.packets) /\ HeldTrue(store.held) /\ store.totalObs \in Int
  BY TimesStep, TypesStep DEF IngestTypes, StoreTrue
<1>1. ASSUME store' = store PROVE StoreTrue(store)'
  <2>1. Len(txs) \in Nat /\ Len(txs') \in Nat /\ Len(obs) \in Nat /\ Len(obs') \in Nat
        /\ Len(txs) <= Len(txs') /\ Len(obs) <= Len(obs')
        /\ \A o \in 1 .. Len(obs) : obs'[o] = obs[o]
    BY <1>0 DEF DBTypes, TablesGrow
  <2>2. EntriesTrue(store.packets)'
    <3> DEFINE p == store.packets
    <3>1. /\ p \in Seq(Entry)
          /\ \A i \in 1 .. Len(p) : p[i].tx \in 1 .. Len(txs) /\ p[i].first = txs[p[i].tx].first
      BY <1>0 DEF EntriesTrue
    <3> HIDE DEF p
    <3>2. \A i \in 1 .. Len(p) : p[i].tx \in 1 .. Len(txs') /\ p[i].first = txs'[p[i].tx].first
      BY <1>0, <2>1, <3>1 DEF FirstsKept
    <3>3. store'.packets = p
      BY <1>1 DEF p
    <3> QED
      BY <3>1, <3>2, <3>3 DEF EntriesTrue
  <2>3. \A t \in Tx : ObsOf(t) \subseteq ObsOf(t)'
    BY <2>1 DEF ObsOf
  <2>4. HeldTrue(store.held)'
    BY <1>0, <1>1, <2>3 DEF HeldTrue
  <2> QED
    BY <1>0, <1>1, <2>2, <2>4 DEF StoreTrue
<1>2. ASSUME UNCHANGED db, StoreTrue(store') PROVE StoreTrue(store)'
  BY <1>2 DEF StoreTrue, EntriesTrue, HeldTrue, ObsOf, db
<1>3. ASSUME NEW R, RowsOK(R), RowsTrue(R), store' = AddRows(store, R) PROVE StoreTrue(store')
  <2>1. EntriesTrue(store'.packets)
    BY <1>0, <1>3, AddTrue
  <2>2. HeldTrue(store'.held) /\ store'.totalObs \in Int
    BY <1>0, <1>3, AddRowsIs
  <2> QED
    BY <2>1, <2>2 DEF StoreTrue
<1>4. ASSUME Load PROVE StoreTrue(store)'
  <2>1. UNCHANGED db
    BY <1>4, LoadRows
  <2>2. CASE store' = store
    BY <1>1, <2>2
  <2>3. ASSUME NEW R \in SUBSET chunk, store' = AddRows(store, R) PROVE StoreTrue(store)'
    <3>1. RowsOK(R) /\ RowsTrue(R)
      BY <1>0, SomeRowsTrue DEF RowsOK
    <3> QED
      BY <1>2, <1>3, <2>1, <2>3, <3>1
  <2>4. CASE FillIndex
    <3>1. PICK R \in SUBSET {r \in chunk : r.tx \notin indexed} :
             store' = IndexRows(store, R) /\ RowsOK(R)
      BY <2>4, FillIndexIs
    <3>2. \A r, q \in R : r.tx = q.tx => r = q
      BY DEF RowsTrue
    <3>3. store'.packets = store.packets /\ store'.totalObs = store.totalObs
          /\ HeldTrue(store'.held)
      BY <1>0, <3>1, <3>2, IndexRowsIs
    <3>4. StoreTrue(store')
      BY <1>0, <3>3 DEF StoreTrue
    <3> QED
      BY <1>2, <2>1, <3>4
  <2>5. ASSUME NEW k \in Boundaries(store.packets, Min({r.first : r \in chunk})),
               store' = PublishRows(store, chunk, k)
        PROVE  StoreTrue(store)'
    <3>1. k \in 0 .. Len(store.packets)
      BY DEF Boundaries
    <3>2. EntriesTrue(store'.packets)
      BY <1>0, <2>5, <3>1, PublishTrue
    <3>a. PICK all, in : /\ all = UNION {r.obs : r \in chunk}
                         /\ in = SortByFirstSeen(Entries(chunk, "filled"))
      OBVIOUS
    <3>b. store'.totalObs = store.totalObs + Cardinality(all)
      BY <1>0, <2>5, <3>a, PublishCounts
    <3>3. store'.held = store.held
      BY <1>0, <2>5, <3>a, PublishRowsIs
    <3>4. all \in SUBSET (1 .. Len(obs)) /\ Len(obs) \in Nat
      BY <1>0, <3>a DEF RowsOK, ObsOf, DBTypes
    <3>5. Cardinality(all) \in Nat
      BY <3>4, UpToFinite, FS_Subset, FS_CardinalityType
    <3>6. StoreTrue(store')
      BY <1>0, <3>2, <3>3, <3>b, <3>5 DEF StoreTrue
    <3> QED
      BY <1>2, <2>1, <3>6
  <2>6. ASSUME store' = [store EXCEPT !.packets = SortByFirstSeen(@)] PROVE StoreTrue(store)'
    <3>1. store'.packets = SortByFirstSeen(store.packets)
          /\ store'.held = store.held /\ store'.totalObs = store.totalObs
      BY <1>0, <2>6 DEF Store
    <3>2. EntriesTrue(store'.packets)
      <4>1. SameEntries(SortByFirstSeen(store.packets), store.packets)
        BY <1>0, SortIs DEF EntriesTrue
      <4> QED
        BY <1>0, <3>1, <4>1, SameTrue
    <3>3. StoreTrue(store')
      BY <1>0, <3>1, <3>2 DEF StoreTrue
    <3> QED
      BY <1>2, <2>1, <3>3
  <2>7. chunk \in SUBSET chunk
    OBVIOUS
  <2> QED
    BY <1>4, <2>2, <2>3, <2>4, <2>5, <2>6, <2>7, LoadStoreIs
<1>5. ASSUME Poll PROVE StoreTrue(store)'
  <2>1. UNCHANGED db
    BY <1>5, PollStoreIs
  <2>2. CASE store' = AddRows(store, newRows)
    BY <1>0, <1>2, <1>3, <2>1, <2>2
  <2>3. CASE store' = AddObservations(store, newObs)
    <3>1. store'.packets = store.packets /\ HeldTrue(store'.held) /\ store'.totalObs \in Int
      BY <1>0, <2>3, AddObservationsIs
    <3> QED
      BY <1>0, <1>2, <2>1, <3>1 DEF StoreTrue
  <2> QED
    BY <1>1, <1>5, <2>2, <2>3, PollStoreIs
<1>6. ASSUME RunEviction PROVE StoreTrue(store)'
  <2>1. UNCHANGED db
    BY <1>6 DEF RunEviction
  <2> DEFINE k == EvictCount(store)
  <2>2. store' = EvictHead(store, k) /\ store.packets \in Seq(Entry)
    BY <1>0, <1>6 DEF RunEviction, EvictStale, EntriesTrue
  <2>3. k \in 0 .. Len(store.packets)
    BY <2>2, EvictCountIs
  <2> HIDE DEF k
  <2>4. /\ store'.packets \in Seq(Entry) /\ Len(store'.packets) = Len(store.packets) - k
        /\ \A i \in 1 .. Len(store'.packets) : store'.packets[i] = store.packets[i + k]
        /\ HeldTrue(store'.held) /\ store'.totalObs \in Int
    BY <1>0, <2>2, <2>3, EvictHeadIs
  <2>5. \A i \in 1 .. Len(store'.packets) : i + k \in 1 .. Len(store.packets)
    <3>1. Len(store.packets) \in Nat
      BY <2>2
    <3> HIDE DEF k
    <3> QED
      BY <2>3, <2>4, <3>1
  <2>6. EntriesTrue(store'.packets)
    BY <1>0, <2>4, <2>5 DEF EntriesTrue
  <2> QED
    BY <1>2, <2>1, <2>4, <2>6 DEF StoreTrue
<1>7. ASSUME Write \/ UNCHANGED vars PROVE store' = store
  BY <1>7 DEF Write, vars
<1> QED
  BY <1>1, <1>4, <1>5, <1>6, <1>7 DEF Next

\* LoadPlace is preserved by every step.
LEMMA LoadPlaceStep ==
    ASSUME IngestTypes, FillPlace, LoadPlace, [Next]_vars
    PROVE  LoadPlace'
<1>1. ASSUME ~Load PROVE LoadPlace'
  <2>1. UNCHANGED <<loader, chunk, indexed, loadComplete>>
    BY <1>1, LoadFrame
  <2> QED
    BY <2>1 DEF LoadPlace, TxsOf
<1>2. ASSUME Load PROVE LoadPlace'
  <2> USE DEF LoadPlace, HotStates, TxsOf
  <2>1. CASE BeginLoad \/ HotCount \/ HotQuery \/ HotMerge \/ HotFails \/ HotFinish
    BY <2>1 DEF BeginLoad, HotCount, HotQuery, HotMerge, HotFails, HotFinish, signals
  <2>2. CASE FillBegin \/ FillQuery \/ FillFails \/ FillPublish
    BY <2>2 DEF FillBegin, FillQuery, FillFails, FillPublish, signals
  <2>3. CASE FillIndex
    <3>1. PICK R \in SUBSET {r \in chunk : r.tx \notin indexed} : indexed' = indexed \union TxsOf(R)
      BY <2>3, FillIndexIs
    <3>2. UNCHANGED <<loader, chunk, loadComplete>> /\ loader = "fillIndex"
      BY <2>3 DEF FillIndex, signals
    <3> QED
      BY <3>1, <3>2
  <2>4. CASE ReheardQuery \/ ReheardMissing \/ ReheardFails \/ FillMeasure
    BY <2>4 DEF ReheardQuery, ReheardMissing, ReheardFails, FillMeasure, signals
  <2>5. CASE ReheardLoad
    <3>1. heard # {}
      BY <2>5 DEF ReheardLoad, FillPlace, ReheardStates
    <3>2. Rows(heard) # {}
      BY <3>1 DEF Rows
    <3> QED
      BY <2>5, <3>2 DEF ReheardLoad, signals
  <2>6. CASE Finish(retainedFrom # Unproven)
    BY <2>6 DEF Finish
  <2>7. CASE VerifyNext
    <3>1. UNCHANGED <<chunk, indexed, loadComplete>>
      BY <2>7 DEF VerifyNext, VerifyEdge, VerifyCount, VerifyCountFails, VerifyCompare, Publish, At,
                  signals
    <3>2. /\ loader \in {"verify", "count", "compare", "publish"}
          /\ loader' \in {"verify", "count", "compare", "publish", "finish"}
      BY <2>7 DEF VerifyNext, VerifyEdge, VerifyCount, VerifyCountFails, VerifyCompare, Publish, At
    <3> QED
      BY <3>1, <3>2
  <2> QED
    BY <1>2, <2>1, <2>2, <2>3, <2>4, <2>5, <2>6, <2>7 DEF Load, LoaderNext
<1> QED
  BY <1>1, <1>2

\* What was seen stays seen.
LEMMA SeenStays ==
    ASSUME IngestTypes, [Next]_vars, NEW t \in Tx, Seen(t)
    PROVE  Seen(t)'
<1>1. Kept
  BY StoreStep DEF IngestTypes
<1> QED
  BY <1>1 DEF Kept, Seen

\* HotCovers is preserved: the hot cursor passes only what it merged.
LEMMA HotCoversStep ==
    ASSUME IngestTypes, RowsInHand, TimesFixed, LoadPlace, HotCovers, [Next]_vars
    PROVE  HotCovers'
<1>0. /\ DBTypes /\ DBTypes' /\ TablesGrow /\ Store(store) /\ RowsOK(chunk)
      /\ Len(txs) \in Nat /\ Len(txs') \in Nat /\ Len(txs) <= Len(txs') /\ 1 .. Len(txs) \subseteq Tx
      /\ TxsOf(chunk) \in SUBSET (1 .. Len(txs)) /\ InitTx \in Nat
      /\ Now \in Nat /\ HotFrom \in Nat /\ HotFrom <= Now
  <2>1. IngestTypes' /\ TablesGrow
    BY TypesStep
  <2>2. TxsOf(chunk) \in SUBSET (1 .. Len(txs))
    BY DEF IngestTypes, RowsOK, TxsOf
  <2>3. Now \in Nat /\ HotFrom \in Nat /\ HotFrom <= Now /\ InitTx \in Nat
    BY DBAssumption, StoreAssumption, LoadAssumption, HistoryAssumption DEF Stamp, HotFrom
  <2>4. DBTypes /\ DBTypes' /\ Store(store) /\ RowsOK(chunk)
    BY <2>1 DEF IngestTypes
  <2>5. 1 .. Len(txs) \subseteq Tx /\ Len(txs) \in Nat /\ Len(txs') \in Nat
    BY <2>4, DBAssumption DEF DBTypes, Tx
  <2> QED
    BY <2>1, <2>2, <2>3, <2>4, <2>5 DEF TablesGrow
<1>1. ASSUME ~Load PROVE HotCovers'
  <2> SUFFICES ASSUME loader' \in HotStates PROVE HotCovers'
    BY DEF HotCovers
  <2>1. UNCHANGED <<hotStartup, loader, cursorID, chunk>>
    BY <1>1, LoadFrame
  <2>2. /\ cursorID \in 0 .. Len(txs)
        /\ \A t \in InitTx + 1 .. cursorID : Seen(t)
        /\ \A t \in TxsOf(chunk) : txs[t].last >= HotFrom
        /\ \A x \in TxsOf(chunk) : \A t \in 1 .. Len(txs) :
              InitTx < t /\ cursorID < t /\ t <= x => t \in TxsOf(chunk)
    BY <2>1 DEF HotCovers
  <2>3. \A t \in InitTx + 1 .. cursorID : t \in Tx
    BY <1>0, <2>2
  <2>4. \A t \in InitTx + 1 .. cursorID : Seen(t)'
    BY <2>2, <2>3, SeenStays
  <2>5. \A t \in TxsOf(chunk) : txs'[t].last >= HotFrom
    <3>1. HotFrom \in Int /\ \A t \in TxsOf(chunk) : txs[t].last >= HotFrom
      BY <1>0, <2>2
    <3>2. DBTypes /\ DBTypes' /\ TablesGrow /\ TxsOf(chunk) \in SUBSET (1 .. Len(txs))
      BY <1>0
    <3> DEFINE T == TxsOf(chunk)
               from == HotFrom
    <3> HIDE DEF T, from
    <3>3. \A t \in T : txs'[t].last >= from
      BY <3>1, <3>2, ChunkStaysSeen DEF T, from
    <3> QED
      BY <3>3 DEF T, from
  <2>6. \A x \in TxsOf(chunk) : \A t \in 1 .. Len(txs') :
              InitTx < t /\ cursorID < t /\ t <= x => t \in TxsOf(chunk)
    BY <1>0, <2>2
  <2>7. TxsOf(chunk)' = TxsOf(chunk) /\ HotFrom' = HotFrom /\ cursorID \in 0 .. Len(txs')
    BY <1>0, <2>1, <2>2 DEF TxsOf, HotFrom
  <2> QED
    BY <2>1, <2>4, <2>5, <2>6, <2>7 DEF HotCovers
<1>2. ASSUME Load PROVE HotCovers'
  <2>0. UNCHANGED <<txs, evicted, hotStartup>>
    BY <1>2, LoadRows DEF Load, db
  <2>1. ASSUME BeginLoad \/ HotCount PROVE HotCovers'
    <3>1. chunk = {} /\ loader \in HotStates /\ UNCHANGED <<chunk, cursorID, store>>
      BY <2>1 DEF BeginLoad, HotCount, LoadPlace, HotStates
    <3> QED
      BY <2>0, <3>1 DEF HotCovers, TxsOf, Seen, InMemory
  <2>2. ASSUME HotQuery PROVE HotCovers'
    <3> DEFINE ids == {t \in SeenSince(HotFrom) : t > cursorID}
               T == FirstN(ids, ChunkSize)
    <3>1. loader \in HotStates /\ UNCHANGED <<cursorID, store>> /\ chunk' = Rows(T)
      BY <2>2 DEF HotQuery, HotStates
    <3>2. /\ ids \in SUBSET (1 .. Len(txs)) /\ T \subseteq ids
          /\ \A t \in ids : txs[t].last >= HotFrom
      BY DEF SeenSince, FirstN
    <3>3. ids \in SUBSET Nat /\ IsFiniteSet(ids) /\ ChunkSize \in Nat
      BY <1>0, <3>2, UpToFinite, FS_Subset, LoadAssumption
    <3>4. TxsOf(chunk') = T
      BY <3>1, <3>2, RowsAreOK
    <3>5. ASSUME NEW x \in T, NEW t \in 1 .. Len(txs), InitTx < t, cursorID < t, t <= x
          PROVE  t \in T
      <4>1. t \in InitTx + 1 .. Len(txs)
        BY <1>0, <3>5
      <4>2. txs[t].last = Now
        BY <4>1 DEF TimesFixed
      <4>3. t \in ids
        BY <1>0, <3>5, <4>2 DEF SeenSince
      <4> HIDE DEF ids
      <4> QED
        BY <3>3, <3>5, <4>3, FirstNClosed
    <3>6. TxsOf(chunk)' = T /\ HotFrom' = HotFrom
      BY <2>0, <3>4 DEF TxsOf, HotFrom
    <3> HIDE DEF T, ids
    <3>7. /\ cursorID \in 0 .. Len(txs)
          /\ \A t \in InitTx + 1 .. cursorID : Seen(t)
      BY <3>1 DEF HotCovers
    <3>8. \A t \in T : txs[t].last >= HotFrom
      BY <3>2
    <3>9. \A t \in InitTx + 1 .. cursorID : Seen(t)'
      BY <2>0, <3>1, <3>7 DEF Seen, InMemory
    <3> QED
      BY <2>0, <3>1, <3>5, <3>6, <3>7, <3>8, <3>9 DEF HotCovers
  <2>3. ASSUME HotMerge PROVE HotCovers'
    <3> DEFINE ids == {cursorID} \union TxsOf(chunk)
    <3>1. /\ loader \in HotStates /\ store' = AddRows(store, chunk) /\ cursorID' = Max(ids)
          /\ chunk' = {}
      BY <2>3 DEF HotMerge, HotStates
    <3>2. /\ cursorID \in 0 .. Len(txs)
          /\ \A t \in InitTx + 1 .. cursorID : Seen(t)
          /\ \A x \in TxsOf(chunk) : \A t \in 1 .. Len(txs) :
                InitTx < t /\ cursorID < t /\ t <= x => t \in TxsOf(chunk)
      BY <3>1 DEF HotCovers
    <3>3. ids \in SUBSET (0 .. Len(txs)) /\ ids # {} /\ cursorID \in ids
      BY <1>0, <3>2
    <3>4. cursorID' \in ids /\ cursorID <= cursorID'
      <4> HIDE DEF ids
      <4> QED
        BY <1>0, <3>1, <3>3, MaxIs
    <3>5. ASSUME NEW t \in InitTx + 1 .. cursorID' PROVE Seen(t)'
      <4>0. cursorID' \in 0 .. Len(txs) /\ cursorID \in 0 .. Len(txs)
        BY <3>2, <3>3, <3>4
      <4>1. t \in 1 .. Len(txs) /\ t \in Tx
        BY <1>0, <4>0
      <4>2. CASE t <= cursorID
        <5>1. t \in InitTx + 1 .. cursorID
          BY <1>0, <4>0, <4>1, <4>2
        <5> QED
          BY <3>2, <4>1, <5>1, SeenStays
      <4>3. CASE cursorID < t
        <5>1. cursorID' \in TxsOf(chunk)
          BY <3>4, <4>0, <4>1, <4>3
        <5>2. t \in TxsOf(chunk)
          BY <1>0, <3>2, <4>0, <4>1, <4>3, <5>1
        <5>3. store'.index = [u \in Tx |-> IF u \in TxsOf(chunk) /\ store.index[u] = "none"
                                           THEN "merged" ELSE store.index[u]]
          BY <1>0, <3>1, AddRowsStore
        <5> QED
          BY <4>1, <5>2, <5>3 DEF Seen, InMemory
      <4> QED
        BY <4>0, <4>1, <4>2, <4>3
    <3>6. TxsOf(chunk)' = {} /\ cursorID' \in 0 .. Len(txs)
      BY <3>1, <3>3, <3>4 DEF TxsOf
    <3> QED
      BY <2>0, <3>5, <3>6 DEF HotCovers
  <2>4. ASSUME \/ HotFails \/ HotFinish \/ FillBegin \/ FillQuery \/ FillFails \/ FillIndex \/ FillPublish
               \/ ReheardQuery \/ ReheardMissing \/ ReheardLoad \/ ReheardFails \/ FillMeasure
               \/ Finish(retainedFrom # Unproven)
        PROVE  loader' \notin HotStates
    BY <2>4 DEF HotFails, HotFinish, FillBegin, FillQuery, FillFails, FillIndex, FillPublish,
         ReheardQuery, ReheardMissing, ReheardLoad, ReheardFails, FillMeasure, Finish, HotStates
  <2>5. ASSUME VerifyNext PROVE loader' \notin HotStates
    BY <2>5 DEF VerifyNext, VerifyEdge, VerifyCount, VerifyCountFails, VerifyCompare, Publish, At,
                HotStates
  <2>6. loader' \notin HotStates => HotCovers'
    BY DEF HotCovers
  <2> QED
    BY <1>2, <2>1, <2>2, <2>3, <2>4, <2>5, <2>6 DEF Load, LoaderNext
<1> QED
  BY <1>1, <1>2

\* The highest id in memory never goes back.
LEMMA MaxGrows ==
    ASSUME IngestTypes, [Next]_vars, HeldTrue(store.held), store.totalObs \in Int
    PROVE  store.maxTxID <= store'.maxTxID /\ store.maxTxID \in Nat
<1>0. /\ DBTypes /\ Store(store) /\ RowsOK(chunk) /\ RowsOK(newRows) /\ Len(txs) \in Nat
      /\ newObs \in SUBSET (1 .. Len(obs)) /\ store.maxTxID \in 0 .. Len(txs)
  BY DEF IngestTypes, DBTypes, Store
<1>1. store'.maxTxID = store.maxTxID => store.maxTxID <= store'.maxTxID
  BY <1>0
<1>2. ASSUME NEW R, RowsOK(R), store' = AddRows(store, R) PROVE store.maxTxID <= store'.maxTxID
  <2> DEFINE fresh == {r \in R : store.index[r.tx] = "none"}
             ids == {store.maxTxID} \union TxsOf(fresh)
  <2>1. store'.maxTxID = Max(ids)
    BY <1>0, <1>2, AddRowsIs
  <2>2. ids \in SUBSET (0 .. Len(txs)) /\ store.maxTxID \in ids /\ ids # {}
    <3>1. TxsOf(fresh) \subseteq 0 .. Len(txs)
      BY <1>2 DEF TxsOf, RowsOK
    <3> QED
      BY <1>0, <3>1
  <2> HIDE DEF ids
  <2> QED
    BY <1>0, <2>1, <2>2, MaxIs
<1>3. ASSUME Load PROVE store.maxTxID <= store'.maxTxID
  <2>1. ASSUME NEW R \in SUBSET chunk, store' = AddRows(store, R)
        PROVE  store.maxTxID <= store'.maxTxID
    <3>1. RowsOK(R)
      BY <1>0 DEF RowsOK
    <3> QED
      BY <1>2, <2>1, <3>1
  <2>2. CASE FillIndex
    <3>1. PICK R \in SUBSET {r \in chunk : r.tx \notin indexed} :
             store' = IndexRows(store, R) /\ RowsOK(R)
      BY <2>2, FillIndexIs
    <3>2. store'.maxTxID = store.maxTxID
      BY <1>0, <3>1, IndexRowsStore
    <3> QED
      BY <1>1, <3>2
  <2>3. ASSUME NEW k, store' = PublishRows(store, chunk, k)
        PROVE  store.maxTxID <= store'.maxTxID
    BY <1>0, <2>3, PublishMax
  <2>4. ASSUME store' = [store EXCEPT !.packets = SortByFirstSeen(@)]
        PROVE  store.maxTxID <= store'.maxTxID
    <3>1. store'.maxTxID = store.maxTxID
      BY <1>0, <2>4 DEF Store
    <3> QED
      BY <1>1, <3>1
  <2>5. chunk \in SUBSET chunk
    OBVIOUS
  <2> QED
    BY <1>1, <1>3, <2>1, <2>2, <2>3, <2>4, <2>5, LoadStoreIs
<1>4. ASSUME Poll PROVE store.maxTxID <= store'.maxTxID
  <2>1. CASE store' = AddObservations(store, newObs)
    <3>1. store'.maxTxID = store.maxTxID
      BY <1>0, <2>1, AddObservationsStore
    <3> QED
      BY <1>1, <3>1
  <2> QED
    BY <1>0, <1>1, <1>2, <1>4, <2>1, PollStoreIs
<1>5. ASSUME RunEviction PROVE store.maxTxID <= store'.maxTxID
  <2>1. store' = EvictHead(store, EvictCount(store))
    BY <1>5 DEF RunEviction, EvictStale
  <2>2. store'.maxTxID = store.maxTxID
    BY <1>0, <2>1, EvictHeadStore
  <2> QED
    BY <1>1, <2>2
<1>6. Write \/ UNCHANGED vars => store' = store
  BY DEF Write, vars
<1> QED
  BY <1>0, <1>1, <1>3, <1>4, <1>5, <1>6 DEF Next

\* DataTrue holds of the initial state.
LEMMA DataInit ==
    ASSUME Init
    PROVE  DataTrue
<1>1. /\ txs \in [1 .. InitTx -> History] /\ store = EmptyStore /\ chunk = {} /\ newRows = {}
      /\ loader = "begin" /\ indexed = {} /\ ~loadComplete /\ heardMaxID = 0 /\ cursorID = 0
  BY DEF Init, LoadInit, PollInit
<1>2. InitTx \in Nat /\ IngestTypes
  BY InitTypes, HistoryAssumption
<1>3. Len(txs) = InitTx
  BY <1>1, <1>2
<1>4. TimesFixed
  BY <1>2, <1>3 DEF TimesFixed
<1>5. RowsTrue(chunk) /\ RowsTrue(newRows)
  BY <1>1, FS_EmptySet DEF RowsTrue
<1>6. store.packets = << >> /\ store.totalObs = 0 /\ store.maxTxID = 0
      /\ store.held = [t \in Tx |-> [m \in Maker |-> {}]]
  BY <1>1 DEF EmptyStore
<1>7. EntriesTrue(store.packets)
  BY <1>6, EmptySeq DEF EntriesTrue
<1>8. HeldTrue(store.held)
  BY <1>6 DEF HeldTrue
<1>9. LoadPlace
  BY <1>1 DEF LoadPlace, HotStates, TxsOf
<1>10. HotCovers
  BY <1>1, <1>2, <1>3 DEF HotCovers, HotStates, TxsOf
<1> QED
  BY <1>1, <1>4, <1>5, <1>6, <1>7, <1>8, <1>9, <1>10 DEF DataTrue

\* DataTrue is preserved by every step.
LEMMA DataStep ==
    ASSUME RxTimes \subseteq {Now}, CursorInv, DataTrue, [Next]_vars
    PROVE  DataTrue'
<1>1. IngestTypes /\ RowsInHand /\ FillPlace
  BY DEF CursorInv
<1>2. TimesFixed'
  BY <1>1, TimesStep DEF DataTrue
<1>3. RowsTrue(chunk)' /\ RowsTrue(newRows)'
  BY <1>1, RowsTrueStep DEF DataTrue
<1>4. StoreTrue(store)'
  BY <1>1, StoreTrueStep DEF DataTrue, StoreTrue
<1>5. LoadPlace' /\ HotCovers'
  BY <1>1, LoadPlaceStep, HotCoversStep DEF DataTrue
<1>6. (heardMaxID \in 0 .. store.maxTxID)'
  <2>1. /\ store.maxTxID <= store'.maxTxID /\ store.maxTxID \in Nat /\ store'.maxTxID \in Int
        /\ heardMaxID \in 0 .. store.maxTxID
    <3>1. Store(store)'
      BY <1>1, TypesStep DEF IngestTypes
    <3>2. store'.maxTxID \in Int
      <4>1. store'.maxTxID \in 0 .. Len(txs')
        BY <3>1 DEF Store
      <4> QED
        BY <4>1
    <3> QED
      BY <1>1, <3>2, MaxGrows DEF DataTrue
  <2>2. heardMaxID' = heardMaxID \/ heardMaxID' = store.maxTxID
    <3>1. ~Load => heardMaxID' = heardMaxID
      BY LoadFrame
    <3>2. Load => heardMaxID' = heardMaxID \/ heardMaxID' = store.maxTxID
      <4>1. \/ BeginLoad \/ HotCount \/ HotQuery \/ HotMerge \/ HotFails \/ HotFinish
            \/ FillBegin \/ FillQuery \/ FillFails \/ FillIndex \/ FillPublish
            \/ ReheardMissing \/ ReheardLoad \/ ReheardFails \/ FillMeasure
            \/ Finish(retainedFrom # Unproven)
            => heardMaxID' = heardMaxID
        BY DEF BeginLoad, HotCount, HotQuery, HotMerge, HotFails, HotFinish,
               FillBegin, FillQuery, FillFails, FillIndex, FillPublish, ReheardMissing,
               ReheardLoad, ReheardFails, FillMeasure, Finish, fillVars
      <4>2. VerifyNext => heardMaxID' = heardMaxID
        BY DEF VerifyNext, VerifyEdge, VerifyCount, VerifyCountFails, VerifyCompare, Publish, At,
               fillVars
      <4>3. ReheardQuery => heardMaxID' = store.maxTxID
        BY DEF ReheardQuery
      <4> QED
        BY <4>1, <4>2, <4>3 DEF Load, LoaderNext
    <3> QED
      BY <3>1, <3>2
  <2> QED
    BY <2>1, <2>2
<1> QED
  BY <1>2, <1>3, <1>4, <1>5, <1>6 DEF DataTrue, StoreTrue

\* The table of s has an entry of t.
ListedIn(s, t) == \E i \in 1 .. Len(s.packets) : s.packets[i].tx = t

\* PacketsIndexed, of any store: only the transmissions I are in the index alone.
IndexedBut(s, I) ==
    Leads(s) /\ \A t \in Tx : s.index[t] # "none" => ListedIn(s, t) \/ t \in I

\* Entries of the table are of transmissions the index can hold.
LEMMA EntryIs ==
    ASSUME DBTypes, NEW packets, EntriesTrue(packets), NEW i \in 1 .. Len(packets)
    PROVE  /\ packets[i] \in Entry /\ packets[i].tx \in Tx /\ packets[i].by \in Maker
           /\ packets[i].first \in 0 .. Now
<1>1. packets[i] \in Entry
  BY ElementOfSeq DEF EntriesTrue
<1> QED
  BY <1>1 DEF Entry, Stamp

\* Where the elements of a concatenation come from, and where they go.
LEMMA ConcatIs ==
    ASSUME NEW p \in Seq(Entry), NEW q \in Seq(Entry), NEW out, out = p \o q
    PROVE  /\ \A i \in 1 .. Len(out) :
                 \/ i \in 1 .. Len(p) /\ out[i] = p[i]
                 \/ \E k \in 1 .. Len(q) : i = Len(p) + k /\ out[i] = q[k]
           /\ \A i \in 1 .. Len(p) : i \in 1 .. Len(out) /\ out[i] = p[i]
           /\ \A k \in 1 .. Len(q) : Len(p) + k \in 1 .. Len(out) /\ out[Len(p) + k] = q[k]
<1>1. /\ Len(p) \in Nat /\ Len(q) \in Nat /\ Len(out) = Len(p) + Len(q)
      /\ \A i \in 1 .. Len(p) + Len(q) : out[i] = IF i <= Len(p) THEN p[i] ELSE q[i - Len(p)]
  BY ConcatProperties
<1>2. ASSUME NEW i \in 1 .. Len(out), ~(i \in 1 .. Len(p))
      PROVE  \E k \in 1 .. Len(q) : i = Len(p) + k /\ out[i] = q[k]
  <2>1. i - Len(p) \in 1 .. Len(q) /\ i = Len(p) + (i - Len(p)) /\ out[i] = q[i - Len(p)]
    BY <1>1, <1>2
  <2> QED
    BY <2>1
<1>3. ASSUME NEW k \in 1 .. Len(q)
      PROVE  Len(p) + k \in 1 .. Len(out) /\ out[Len(p) + k] = q[k]
  <2>1. Len(p) + k \in 1 .. Len(out) /\ Len(p) + k - Len(p) = k /\ ~(Len(p) + k <= Len(p))
    BY <1>1
  <2> QED
    BY <1>1, <2>1
<1>4. \A i \in 1 .. Len(p) : i \in 1 .. Len(out) /\ out[i] = p[i]
  BY <1>1
<1> QED
  BY <1>2, <1>3, <1>4

\* CreateRows appends the rows it finds missing, and indexes them.
LEMMA AddIndexed ==
    ASSUME DBTypes, NEW s, Store(s), StoreTrue(s), NEW R, RowsOK(R), RowsTrue(R),
           NEW I, IndexedBut(s, I), NEW a, a = AddRows(s, R)
    PROVE  /\ IndexedBut(a, I)
           /\ \A t : ListedIn(a, t) => ListedIn(s, t) \/ (t \in TxsOf(R) /\ s.index[t] = "none")
           /\ (Sorted(s.packets) /\ \A r \in R : r.first = Now) => Sorted(a.packets)
<1> DEFINE fresh == {r \in R : s.index[r.tx] = "none"}
           es == Entries(fresh, "merged")
           p == s.packets
<1>0. p \in Seq(Entry) /\ EntriesTrue(p) /\ Len(p) \in Nat
  BY DEF StoreTrue, EntriesTrue
<1>1. a.packets = p \o es
  BY AddRowsIs DEF StoreTrue
<1>2. RowsOK(fresh) /\ RowsTrue(fresh)
  BY SomeRowsTrue DEF RowsOK
<1>3. EntriesTrue(es)
  BY <1>2, EntriesAreTrue DEF Maker
<1>4. \A r \in fresh : r.tx \in Tx /\ r.first \in Stamp /\ r.tx \in 1 .. Len(txs)
  <2>1. \A r \in fresh : r.tx \in 1 .. Len(txs) /\ r.first = txs[r.tx].first
    BY <1>2 DEF RowsOK, RowsTrue
  <2>2. \A t \in 1 .. Len(txs) : txs[t] \in [first : Stamp, last : Stamp]
    BY ElementOfSeq DEF DBTypes
  <2>3. 1 .. Len(txs) \subseteq Tx
    BY DBAssumption DEF DBTypes, Tx
  <2> QED
    BY <2>1, <2>2, <2>3
<1>5. /\ es \in Seq(Entry) /\ Len(es) \in Nat
      /\ \A i \in 1 .. Len(es) : \E r \in fresh :
            es[i] = [tx |-> r.tx, by |-> "merged", first |-> r.first]
      /\ \A r \in fresh : \E i \in 1 .. Len(es) : es[i].tx = r.tx
      /\ \A i, j \in 1 .. Len(es) : es[i].tx = es[j].tx => i = j
  <2>1. IsFiniteSet(fresh) /\ \A r, q \in fresh : r.tx = q.tx => r = q
    BY <1>2 DEF RowsTrue
  <2> HIDE DEF fresh
  <2>2. "merged" \in Maker
    BY DEF Maker
  <2> QED
    BY <1>3, <1>4, <2>1, <2>2, EntriesIs DEF EntriesTrue
<1>6. a.index = [t \in Tx |-> IF t \in TxsOf(R) /\ s.index[t] = "none" THEN "merged" ELSE s.index[t]]
  BY AddRowsStore
<1>7. \A r \in fresh : r.tx \in TxsOf(R) /\ s.index[r.tx] = "none"
  BY DEF TxsOf
<1>8. \A t \in TxsOf(R) : s.index[t] = "none" => \E r \in fresh : r.tx = t
  BY DEF TxsOf
<1>a. fresh \subseteq R
  OBVIOUS
<1> HIDE DEF es, fresh, p
<1>10. /\ \A i \in 1 .. Len(a.packets) :
             \/ i \in 1 .. Len(p) /\ a.packets[i] = p[i]
             \/ \E k \in 1 .. Len(es) : i = Len(p) + k /\ a.packets[i] = es[k]
       /\ \A i \in 1 .. Len(p) : i \in 1 .. Len(a.packets) /\ a.packets[i] = p[i]
       /\ \A k \in 1 .. Len(es) : /\ Len(p) + k \in 1 .. Len(a.packets)
                                  /\ a.packets[Len(p) + k] = es[k]
  BY <1>0, <1>1, <1>5, ConcatIs
<1>11. /\ \A i \in 1 .. Len(p) : s.index[p[i].tx] = p[i].by /\ p[i].by # "none" /\ p[i].tx \in Tx
       /\ \A i, j \in 1 .. Len(p) : p[i].tx = p[j].tx => i = j
  <2>1. \A i \in 1 .. Len(p) : p[i].tx \in Tx /\ p[i].by \in Maker
    BY <1>0, EntryIs
  <2> QED
    BY <2>1 DEF IndexedBut, Leads, p, Maker
<1>12. \A i \in 1 .. Len(es) : /\ es[i].by = "merged" /\ es[i].tx \in TxsOf(R)
                               /\ s.index[es[i].tx] = "none" /\ es[i].tx \in Tx
                               /\ \E r \in R : es[i].first = r.first
  <2> SUFFICES ASSUME NEW i \in 1 .. Len(es)
               PROVE  /\ es[i].by = "merged" /\ es[i].tx \in TxsOf(R)
                      /\ s.index[es[i].tx] = "none" /\ es[i].tx \in Tx
                      /\ \E r \in R : es[i].first = r.first
    OBVIOUS
  <2>1. PICK r \in fresh : es[i] = [tx |-> r.tx, by |-> "merged", first |-> r.first]
    BY <1>5
  <2> QED
    BY <1>4, <1>7, <1>a, <2>1
<1>13. Leads(a)
  <2>1. ASSUME NEW i \in 1 .. Len(a.packets) PROVE a.index[a.packets[i].tx] = a.packets[i].by
    <3>1. CASE i \in 1 .. Len(p) /\ a.packets[i] = p[i]
      BY <1>6, <1>11, <3>1
    <3>2. ASSUME NEW k \in 1 .. Len(es), a.packets[i] = es[k]
          PROVE  a.index[a.packets[i].tx] = a.packets[i].by
      BY <1>6, <1>12, <3>2
    <3> QED
      BY <1>10, <3>1, <3>2
  <2>2. ASSUME NEW i \in 1 .. Len(a.packets), NEW j \in 1 .. Len(a.packets),
               a.packets[i].tx = a.packets[j].tx
        PROVE  i = j
    <3>1. ASSUME NEW k \in 1 .. Len(p), a.packets[i] = p[k] \/ a.packets[j] = p[k]
          PROVE  s.index[a.packets[i].tx] # "none"
      BY <1>11, <2>2, <3>1
    <3>2. ASSUME NEW k \in 1 .. Len(es), a.packets[i] = es[k] \/ a.packets[j] = es[k]
          PROVE  s.index[a.packets[i].tx] = "none"
      BY <1>12, <2>2, <3>2
    <3>3. CASE i \in 1 .. Len(p) /\ a.packets[i] = p[i]
      <4>1. j \in 1 .. Len(p) /\ a.packets[j] = p[j]
        BY <1>10, <3>1, <3>2, <3>3
      <4> QED
        BY <1>11, <2>2, <3>3, <4>1
    <3>4. ASSUME NEW k \in 1 .. Len(es), i = Len(p) + k, a.packets[i] = es[k] PROVE i = j
      <4>1. PICK l \in 1 .. Len(es) : j = Len(p) + l /\ a.packets[j] = es[l]
        BY <1>10, <3>1, <3>2, <3>4
      <4> QED
        BY <1>5, <2>2, <3>4, <4>1
    <3> QED
      BY <1>10, <3>3, <3>4
  <2> QED
    BY <2>1, <2>2 DEF Leads
<1>14. ASSUME NEW t \in Tx, a.index[t] # "none" PROVE ListedIn(a, t) \/ t \in I
  <2>1. CASE s.index[t] # "none"
    <3>1. ListedIn(s, t) \/ t \in I
      BY <2>1 DEF IndexedBut
    <3>2. ASSUME NEW i \in 1 .. Len(p), p[i].tx = t PROVE ListedIn(a, t)
      <4>1. i \in 1 .. Len(a.packets) /\ a.packets[i].tx = t
        BY <1>0, <1>5, <1>10, <3>2
      <4> QED
        BY <4>1 DEF ListedIn
    <3> QED
      BY <3>1, <3>2 DEF ListedIn, p
  <2>2. CASE s.index[t] = "none"
    <3>1. t \in TxsOf(R)
      BY <1>6, <1>14, <2>2
    <3>2. PICK r \in fresh : r.tx = t
      BY <1>8, <2>2, <3>1
    <3>3. PICK i \in 1 .. Len(es) : es[i].tx = t
      BY <1>5, <3>2
    <3>4. Len(p) + i \in 1 .. Len(a.packets) /\ a.packets[Len(p) + i].tx = t
      BY <1>10, <3>3
    <3> QED
      BY <3>4 DEF ListedIn
  <2> QED
    BY <2>1, <2>2
<1>15. ASSUME NEW t, ListedIn(a, t)
       PROVE  ListedIn(s, t) \/ (t \in TxsOf(R) /\ s.index[t] = "none")
  <2>1. PICK i \in 1 .. Len(a.packets) : a.packets[i].tx = t
    BY <1>15 DEF ListedIn
  <2>2. CASE i \in 1 .. Len(p)
    BY <1>10, <2>1, <2>2 DEF ListedIn, p
  <2>3. CASE \E k \in 1 .. Len(es) : a.packets[i] = es[k]
    BY <1>12, <2>1, <2>3
  <2> QED
    BY <1>10, <2>2, <2>3
<1>16. ASSUME Sorted(s.packets), \A r \in R : r.first = Now PROVE Sorted(a.packets)
  <2>1. \A i \in 1 .. Len(p) : p[i].first \in 0 .. Now
    BY <1>0, EntryIs
  <2>2. \A i \in 1 .. Len(es) : es[i].first = Now
    BY <1>12, <1>16
  <2>3. Now \in Nat
    BY DBAssumption
  <2>4. \A i, j \in 1 .. Len(p) : i < j => p[i].first <= p[j].first
    BY <1>16 DEF Sorted, p
  <2>5. ASSUME NEW i \in 1 .. Len(a.packets), NEW j \in 1 .. Len(a.packets), i < j
        PROVE  a.packets[i].first <= a.packets[j].first
    <3>1. CASE j \in 1 .. Len(p)
      <4>1. i \in 1 .. Len(p)
        BY <1>0, <2>5, <3>1
      <4> QED
        BY <1>10, <2>4, <2>5, <3>1, <4>1
    <3>2. CASE \E k \in 1 .. Len(es) : a.packets[j] = es[k]
      <4>1. a.packets[j].first = Now
        BY <2>2, <3>2
      <4>2. CASE i \in 1 .. Len(p) /\ a.packets[i] = p[i]
        <5>1. a.packets[i].first \in 0 .. Now
          BY <2>1, <4>2
        <5> QED
          BY <2>3, <4>1, <5>1
      <4>3. CASE \E k \in 1 .. Len(es) : a.packets[i] = es[k]
        <5>1. a.packets[i].first = Now
          BY <2>2, <4>3
        <5> QED
          BY <2>3, <4>1, <5>1
      <4> QED
        BY <1>10, <4>2, <4>3
    <3> QED
      BY <1>10, <3>1, <3>2
  <2> QED
    BY <2>5 DEF Sorted
<1> QED
  BY <1>13, <1>14, <1>15, <1>16 DEF IndexedBut

\* In another order, with the same index, the entries are as findable as before.
LEMMA SameIndexed ==
    ASSUME NEW s, NEW I, IndexedBut(s, I), NEW a, a.index = s.index,
           SameEntries(a.packets, s.packets)
    PROVE  IndexedBut(a, I)
<1>1. /\ \A k \in 1 .. Len(a.packets) : \E i \in 1 .. Len(s.packets) : a.packets[k] = s.packets[i]
      /\ \A i \in 1 .. Len(s.packets) : \E k \in 1 .. Len(a.packets) : a.packets[k] = s.packets[i]
  BY DEF SameEntries
<1>2. Leads(a)
  <2>1. ASSUME NEW k \in 1 .. Len(a.packets) PROVE a.index[a.packets[k].tx] = a.packets[k].by
    <3>1. PICK i \in 1 .. Len(s.packets) : a.packets[k] = s.packets[i]
      BY <1>1
    <3> QED
      BY <3>1 DEF IndexedBut, Leads
  <2>2. \A i, j \in 1 .. Len(a.packets) : a.packets[i].tx = a.packets[j].tx => i = j
    BY DEF IndexedBut, Leads, SameEntries
  <2> QED
    BY <2>1, <2>2 DEF Leads
<1>3. ASSUME NEW t, ListedIn(s, t) PROVE ListedIn(a, t)
  <2>1. PICK i \in 1 .. Len(s.packets) : s.packets[i].tx = t
    BY <1>3 DEF ListedIn
  <2>2. PICK k \in 1 .. Len(a.packets) : a.packets[k] = s.packets[i]
    BY <1>1
  <2> QED
    BY <2>1, <2>2 DEF ListedIn
<1> QED
  BY <1>2, <1>3 DEF IndexedBut

\* Publishing a chunk lists what it indexed, in its place.
LEMMA PublishIndexed ==
    ASSUME DBTypes, NEW s, Store(s), StoreTrue(s), NEW R, RowsOK(R), RowsTrue(R), R # {},
           IndexedBut(s, TxsOf(R)),
           \A t \in TxsOf(R) : s.index[t] = "filled" /\ ~ListedIn(s, t),
           NEW k \in Boundaries(s.packets, Min({r.first : r \in R})),
           NEW a, a = PublishRows(s, R, k)
    PROVE  IndexedBut(a, {}) /\ (Sorted(s.packets) => Sorted(a.packets))
<1> DEFINE es == Entries(R, "filled")
           in == SortByFirstSeen(es)
           p == s.packets
           all == p \o in
           lows == {r.first : r \in R}
<1>0. p \in Seq(Entry) /\ EntriesTrue(p) /\ Len(p) \in Nat
  BY DEF StoreTrue, EntriesTrue
<1>1. EntriesTrue(es)
  BY EntriesAreTrue DEF Maker
<1>2. \A r \in R : r.tx \in Tx /\ r.first \in Stamp /\ r.tx \in 1 .. Len(txs) /\ r.first \in 0 .. Now
  <2>1. \A r \in R : r.tx \in 1 .. Len(txs) /\ r.first = txs[r.tx].first
    BY DEF RowsOK, RowsTrue
  <2>2. \A t \in 1 .. Len(txs) : txs[t] \in [first : Stamp, last : Stamp]
    BY ElementOfSeq DEF DBTypes
  <2>3. 1 .. Len(txs) \subseteq Tx
    BY DBAssumption DEF DBTypes, Tx
  <2> QED
    BY <2>1, <2>2, <2>3 DEF Stamp
<1>3. /\ es \in Seq(Entry)
      /\ \A i \in 1 .. Len(es) : \E r \in R :
            es[i] = [tx |-> r.tx, by |-> "filled", first |-> r.first]
      /\ \A r \in R : \E i \in 1 .. Len(es) : es[i].tx = r.tx
      /\ \A i, j \in 1 .. Len(es) : es[i].tx = es[j].tx => i = j
  <2>1. IsFiniteSet(R) /\ \A r, q \in R : r.tx = q.tx => r = q
    BY DEF RowsTrue
  <2>2. "filled" \in Maker
    BY DEF Maker
  <2> QED
    BY <1>1, <1>2, <2>1, <2>2, EntriesIs DEF EntriesTrue
<1>4. a.packets = MergeByFirstSeen(p, in, k) /\ a.index = s.index
  <2>1. in = SortByFirstSeen(Entries(R, "filled"))
    OBVIOUS
  <2> HIDE DEF in
  <2> QED
    BY <2>1, PublishRowsIs
<1>5. k \in 0 .. Len(p) /\ (k > 0 => p[k].first < Min(lows))
  BY DEF Boundaries
<1>6. lows \in SUBSET Nat /\ lows # {} /\ \A r \in R : r.first \in lows
  BY <1>2
<1>a. in = SortByFirstSeen(es) /\ all = p \o in
  OBVIOUS
<1> HIDE DEF es, lows, in, all
<1>7. SameEntries(in, es) /\ Sorted(in) /\ in \in Seq(Entry) /\ Len(in) \in Nat
  <2>1. SameEntries(in, es) /\ Sorted(in)
    BY <1>3, <1>a, SortIs
  <2>2. in \in Seq(Entry)
    BY <2>1 DEF SameEntries
  <2> QED
    BY <2>1, <2>2
<1>8. \A j \in 1 .. Len(in) : \E r \in R : in[j] = [tx |-> r.tx, by |-> "filled", first |-> r.first]
  <2> SUFFICES ASSUME NEW j \in 1 .. Len(in)
               PROVE  \E r \in R : in[j] = [tx |-> r.tx, by |-> "filled", first |-> r.first]
    OBVIOUS
  <2>1. PICK i \in 1 .. Len(es) : in[j] = es[i]
    BY <1>7 DEF SameEntries
  <2> QED
    BY <1>3, <2>1
<1>9. \A r \in R : \E j \in 1 .. Len(in) : in[j].tx = r.tx
  <2> SUFFICES ASSUME NEW r \in R PROVE \E j \in 1 .. Len(in) : in[j].tx = r.tx
    OBVIOUS
  <2>1. PICK i \in 1 .. Len(es) : es[i].tx = r.tx
    BY <1>3
  <2>2. PICK j \in 1 .. Len(in) : in[j] = es[i]
    BY <1>7 DEF SameEntries
  <2> QED
    BY <2>1, <2>2
<1>10. \A i, j \in 1 .. Len(in) : in[i].tx = in[j].tx => i = j
  BY <1>3, <1>7 DEF SameEntries
<1>11. SameEntries(a.packets, all) /\ (Sorted(p) => Sorted(a.packets))
  <2>1. k > 0 => \A j \in 1 .. Len(in) : p[k].first < in[j].first
    <3> SUFFICES ASSUME k > 0, NEW j \in 1 .. Len(in) PROVE p[k].first < in[j].first
      OBVIOUS
    <3>1. PICK r \in R : in[j] = [tx |-> r.tx, by |-> "filled", first |-> r.first]
      BY <1>8
    <3>2. k \in 1 .. Len(p) /\ p[k].first < Min(lows)
      BY <1>0, <1>5
    <3>3. p[k].first \in Int
      BY <1>0, <3>2, FirstIsInt
    <3>4. r.first \in lows /\ in[j].first = r.first
      BY <1>6, <3>1
    <3>5. p[k].first < r.first
      BY <1>6, <3>2, <3>3, <3>4, BelowMin
    <3> QED
      BY <3>4, <3>5
  <2> QED
    BY <1>0, <1>4, <1>5, <1>7, <1>a, <2>1, MergeIs
<1>12. /\ \A i \in 1 .. Len(all) :
             \/ i \in 1 .. Len(p) /\ all[i] = p[i]
             \/ \E j \in 1 .. Len(in) : i = Len(p) + j /\ all[i] = in[j]
       /\ \A i \in 1 .. Len(p) : i \in 1 .. Len(all) /\ all[i] = p[i]
       /\ \A j \in 1 .. Len(in) : Len(p) + j \in 1 .. Len(all) /\ all[Len(p) + j] = in[j]
  <2>1. p \in Seq(Entry) /\ in \in Seq(Entry) /\ all = p \o in
    BY <1>0, <1>7, <1>a
  <2> HIDE DEF p
  <2>2. \A i \in 1 .. Len(all) :
             \/ i \in 1 .. Len(p) /\ all[i] = p[i]
             \/ \E j \in 1 .. Len(in) : i = Len(p) + j /\ all[i] = in[j]
    BY <2>1, ConcatIs
  <2>3. \A i \in 1 .. Len(p) : i \in 1 .. Len(all) /\ all[i] = p[i]
    BY <2>1, ConcatIs
  <2>4. \A j \in 1 .. Len(in) : Len(p) + j \in 1 .. Len(all) /\ all[Len(p) + j] = in[j]
    BY <2>1, ConcatIs
  <2> QED
    BY <2>2, <2>3, <2>4
<1>13. /\ \A i \in 1 .. Len(p) : s.index[p[i].tx] = p[i].by /\ p[i].tx \notin TxsOf(R)
       /\ \A i, j \in 1 .. Len(p) : p[i].tx = p[j].tx => i = j
  BY DEF IndexedBut, Leads, ListedIn, p
<1>14. \A j \in 1 .. Len(in) : /\ s.index[in[j].tx] = in[j].by /\ in[j].tx \in TxsOf(R)
  <2> SUFFICES ASSUME NEW j \in 1 .. Len(in)
               PROVE  s.index[in[j].tx] = in[j].by /\ in[j].tx \in TxsOf(R)
    OBVIOUS
  <2>1. PICK r \in R : in[j] = [tx |-> r.tx, by |-> "filled", first |-> r.first]
    BY <1>8
  <2>2. r.tx \in TxsOf(R)
    BY DEF TxsOf
  <2> QED
    BY <2>1, <2>2
<1> DEFINE b == [packets |-> all, index |-> s.index]
<1>15. Leads(b)
  <2>1. ASSUME NEW i \in 1 .. Len(all) PROVE s.index[all[i].tx] = all[i].by
    <3>1. CASE i \in 1 .. Len(p) /\ all[i] = p[i]
      BY <1>13, <3>1
    <3>2. CASE \E j \in 1 .. Len(in) : all[i] = in[j]
      BY <1>14, <3>2
    <3> QED
      BY <1>12, <3>1, <3>2
  <2>2. ASSUME NEW i \in 1 .. Len(all), NEW j \in 1 .. Len(all), all[i].tx = all[j].tx
        PROVE  i = j
    <3>a. ASSUME NEW l \in 1 .. Len(p), all[i] = p[l] \/ all[j] = p[l]
          PROVE  all[i].tx \notin TxsOf(R)
      BY <1>13, <2>2, <3>a
    <3>b. ASSUME NEW l \in 1 .. Len(in), all[i] = in[l] \/ all[j] = in[l]
          PROVE  all[i].tx \in TxsOf(R)
      BY <1>14, <2>2, <3>b
    <3>1. CASE i \in 1 .. Len(p) /\ all[i] = p[i]
      <4>1. j \in 1 .. Len(p) /\ all[j] = p[j]
        BY <1>12, <3>a, <3>b, <3>1
      <4> QED
        BY <1>13, <2>2, <3>1, <4>1
    <3>2. ASSUME NEW l \in 1 .. Len(in), i = Len(p) + l, all[i] = in[l] PROVE i = j
      <4>1. PICK m \in 1 .. Len(in) : j = Len(p) + m /\ all[j] = in[m]
        BY <1>12, <3>a, <3>b, <3>2
      <4> QED
        BY <1>10, <2>2, <3>2, <4>1
    <3> QED
      BY <1>12, <3>1, <3>2
  <2> QED
    BY <2>1, <2>2 DEF Leads
<1>16. ASSUME NEW t \in Tx, s.index[t] # "none" PROVE ListedIn(b, t)
  <2>1. CASE ListedIn(s, t)
    <3>1. PICK i \in 1 .. Len(p) : p[i].tx = t
      BY <2>1 DEF ListedIn, p
    <3>2. i \in 1 .. Len(b.packets) /\ b.packets[i].tx = t
      BY <1>12, <3>1
    <3> QED
      BY <3>2 DEF ListedIn
  <2>2. CASE t \in TxsOf(R)
    <3>1. PICK r \in R : r.tx = t
      BY <2>2 DEF TxsOf
    <3>2. PICK j \in 1 .. Len(in) : in[j].tx = t
      BY <1>9, <3>1
    <3>3. Len(p) + j \in 1 .. Len(b.packets) /\ b.packets[Len(p) + j].tx = t
      BY <1>12, <3>2
    <3> QED
      BY <3>3 DEF ListedIn
  <2> QED
    BY <1>16, <2>1, <2>2 DEF IndexedBut
<1>17. IndexedBut(b, {}) /\ a.index = b.index /\ SameEntries(a.packets, b.packets)
  BY <1>4, <1>11, <1>15, <1>16 DEF IndexedBut
<1> HIDE DEF b
<1>18. IndexedBut(a, {})
  BY <1>17, SameIndexed
<1> QED
  BY <1>11, <1>18 DEF p

\* Eviction takes the head of the slice out of the index as well.
LEMMA EvictIndexed ==
    ASSUME DBTypes, NEW s, Store(s), StoreTrue(s), NEW I, IndexedBut(s, I),
           NEW k \in 0 .. Len(s.packets), NEW a, a = EvictHead(s, k)
    PROVE  /\ IndexedBut(a, I) /\ (Sorted(s.packets) => Sorted(a.packets))
           /\ \A t : ListedIn(a, t) => ListedIn(s, t)
           /\ \A t \in Tx : a.index[t] = "none" \/ a.index[t] = s.index[t]
           /\ \A t \in Tx : ~ListedIn(s, t) => a.index[t] = s.index[t]
<1> DEFINE p == s.packets
           q == a.packets
           gone == {s.packets[i].tx : i \in 1 .. k}
<1>0. p \in Seq(Entry) /\ EntriesTrue(p) /\ Len(p) \in Nat /\ k \in Nat /\ k <= Len(p)
  BY DEF StoreTrue, EntriesTrue
<1>1. q \in Seq(Entry) /\ Len(q) = Len(p) - k /\ \A i \in 1 .. Len(q) : q[i] = p[i + k]
  BY <1>0, EvictHeadIs DEF StoreTrue
<1>2. \A t \in Tx : a.index[t] = IF t \in gone THEN "none" ELSE s.index[t]
  BY EvictHeadStore
<1>3. \A i \in 1 .. Len(q) : i + k \in 1 .. Len(p) /\ i + k > k
  BY <1>0, <1>1
<1>4. \A i \in k + 1 .. Len(p) : i - k \in 1 .. Len(q) /\ q[i - k] = p[i]
  BY <1>0, <1>1
<1>5. /\ \A i \in 1 .. Len(p) : s.index[p[i].tx] = p[i].by /\ p[i].tx \in Tx
      /\ \A i, j \in 1 .. Len(p) : p[i].tx = p[j].tx => i = j
  <2>1. \A i \in 1 .. Len(p) : p[i].tx \in Tx
    BY <1>0, EntryIs
  <2> QED
    BY <2>1 DEF IndexedBut, Leads
<1>6. \A t \in gone : \E i \in 1 .. k : i \in 1 .. Len(p) /\ p[i].tx = t
  BY <1>0
<1> HIDE DEF gone, p, q
<1>7. Leads(a)
  <2>1. ASSUME NEW i \in 1 .. Len(q) PROVE a.index[q[i].tx] = q[i].by
    <3>1. i + k \in 1 .. Len(p) /\ i + k > k /\ q[i] = p[i + k]
      BY <1>1, <1>3
    <3>2. p[i + k].tx \notin gone
      <4> SUFFICES ASSUME p[i + k].tx \in gone PROVE FALSE
        OBVIOUS
      <4>1. PICK j \in 1 .. k : j \in 1 .. Len(p) /\ p[j].tx = p[i + k].tx
        BY <1>6
      <4>2. j = i + k
        BY <1>5, <3>1, <4>1
      <4> QED
        BY <1>0, <3>1, <4>2
    <3> QED
      BY <1>2, <1>5, <3>1, <3>2
  <2>2. ASSUME NEW i \in 1 .. Len(q), NEW j \in 1 .. Len(q), q[i].tx = q[j].tx PROVE i = j
    <3>1. i + k = j + k
      BY <1>1, <1>3, <1>5, <2>2, SMTT(30)
    <3> QED
      BY <1>0, <3>1
  <2> QED
    BY <2>1, <2>2 DEF Leads, q
<1>8. ASSUME NEW t \in Tx, a.index[t] # "none" PROVE ListedIn(a, t) \/ t \in I
  <2>1. t \notin gone /\ s.index[t] # "none"
    BY <1>2, <1>8
  <2>2. ASSUME NEW i \in 1 .. Len(p), p[i].tx = t PROVE ListedIn(a, t)
    <3>1. ~(i <= k)
      <4>1. \A j \in 1 .. k : p[j].tx \in gone
        BY DEF gone, p
      <4> QED
        BY <1>0, <2>1, <2>2, <4>1
    <3>2. i - k \in 1 .. Len(q) /\ q[i - k].tx = t
      BY <1>0, <1>4, <2>2, <3>1
    <3> QED
      BY <3>2 DEF ListedIn, q
  <2> QED
    BY <2>1, <2>2 DEF IndexedBut, ListedIn, p
<1>9. ASSUME NEW t, ListedIn(a, t) PROVE ListedIn(s, t)
  <2>1. PICK i \in 1 .. Len(q) : q[i].tx = t
    BY <1>9 DEF ListedIn, q
  <2> QED
    BY <1>1, <1>3, <2>1 DEF ListedIn, p
<1>10. ASSUME Sorted(p) PROVE Sorted(q)
  <2> SUFFICES ASSUME NEW i \in 1 .. Len(q), NEW j \in 1 .. Len(q), i < j
               PROVE  q[i].first <= q[j].first
    BY DEF Sorted
  <2>1. i + k \in 1 .. Len(p) /\ j + k \in 1 .. Len(p) /\ i + k < j + k
    BY <1>0, <1>3
  <2> QED
    BY <1>1, <1>10, <2>1 DEF Sorted
<1>11. ASSUME NEW t \in Tx, ~ListedIn(s, t) PROVE a.index[t] = s.index[t]
  <2>1. t \notin gone
    BY <1>6, <1>11 DEF ListedIn, p
  <2> QED
    BY <1>2, <2>1
<1> QED
  BY <1>2, <1>7, <1>8, <1>9, <1>10, <1>11 DEF IndexedBut, p, q

\* Eviction starts after the poller, and the transmission cursor only advances.
PollPlace ==
    /\ poller = "unstarted" => evicted = {}
    /\ startID <= lastID /\ evicted \subseteq Tx

\* PollPlace is preserved by every step.
LEMMA PollPlaceStep ==
    ASSUME IngestTypes, RowsInHand, EntriesTrue(store.packets), PollPlace, [Next]_vars
    PROVE  PollPlace'
<1>0. lastID \in Nat /\ startID \in Nat /\ Len(txs) \in Nat /\ RowsOK(newRows)
      /\ lastID' \in Nat
  <2>1. lastID' \in 0 .. Len(txs')
    BY TypesStep DEF IngestTypes
  <2> QED
    BY <2>1 DEF IngestTypes, DBTypes
<1>1. ASSUME UNCHANGED <<lastID, startID, poller, evicted>> PROVE PollPlace'
  BY <1>1 DEF PollPlace
<1>2. Load => UNCHANGED <<lastID, startID, poller, evicted>>
  BY LoadRows DEF pollVars
<1>3. Write \/ UNCHANGED vars => UNCHANGED <<lastID, startID, poller, evicted>>
  BY DEF Write, vars, pollVars
<1>4. ASSUME RunEviction PROVE PollPlace'
  <2> DEFINE k == EvictCount(store)
  <2>1. poller # "unstarted" /\ UNCHANGED <<startID, lastID, poller>>
        /\ evicted' = evicted \union {store.packets[i].tx : i \in 1 .. k}
    BY <1>4 DEF RunEviction, EvictStale, pollVars
  <2>2. store.packets \in Seq(Entry) /\ Len(store.packets) \in Nat
    BY DEF EntriesTrue
  <2>3. k \in 0 .. Len(store.packets)
    BY <2>2, EvictCountIs
  <2> HIDE DEF k
  <2>4. \A i \in 1 .. k : i \in 1 .. Len(store.packets)
    BY <2>2, <2>3
  <2>5. \A i \in 1 .. k : store.packets[i].tx \in Tx
    BY <2>4, EntryIs DEF IngestTypes
  <2> QED
    BY <2>1, <2>5 DEF PollPlace
<1>5. ASSUME StartPoller(firstChunkReady) PROVE PollPlace'
  BY <1>0, <1>5 DEF StartPoller, PollPlace
<1>6. ASSUME IngestNewFromDB PROVE PollPlace'
  <2> DEFINE S == TxsOf(newRows)
  <2>1. /\ poller = "merge" /\ lastID' = Max(S) /\ evicted' = evicted /\ startID' = startID
        /\ poller' = "nextObs"
    BY <1>6 DEF IngestNewFromDB
  <2>2. S \in SUBSET (0 .. Len(txs)) /\ S # {} /\ \A t \in S : t > lastID
    BY <1>0, <2>1 DEF RowsInHand, RowsOK, TxsOf
  <2> HIDE DEF S
  <2>3. lastID' \in S
    BY <1>0, <2>1, <2>2, MaxIs
  <2> QED
    BY <1>0, <2>1, <2>2, <2>3 DEF PollPlace
<1>7. ASSUME PollTick, ~IngestNewFromDB PROVE PollPlace'
  BY <1>7 DEF PollTick, PollTransmissions, PollTransmissionsFails, NextObsID, PollObservations,
              IngestNewObservations, PollPlace
<1> QED
  BY <1>1, <1>2, <1>3, <1>4, <1>5, <1>6, <1>7 DEF Next, Poll

\* No replay, and nothing evicted ahead of the poller: once either happened it
\* has happened.
Quiet == NotReplayed /\ ~EvictedAhead

\* What a load step leaves of the highest id heard again.
LEMMA HeardMaxIs ==
    ASSUME [Next]_vars
    PROVE  heardMaxID' = heardMaxID \/ (ReheardQuery /\ heardMaxID' = store.maxTxID)
<1>1. ~Load => heardMaxID' = heardMaxID
  BY LoadFrame
<1>2. Load => heardMaxID' = heardMaxID \/ (ReheardQuery /\ heardMaxID' = store.maxTxID)
  <2>1. \/ BeginLoad \/ HotCount \/ HotQuery \/ HotMerge \/ HotFails \/ HotFinish
        \/ FillBegin \/ FillQuery \/ FillFails \/ FillIndex \/ FillPublish
        \/ ReheardMissing \/ ReheardLoad \/ ReheardFails \/ FillMeasure
        \/ Finish(retainedFrom # Unproven)
        => heardMaxID' = heardMaxID
    BY DEF BeginLoad, HotCount, HotQuery, HotMerge, HotFails, HotFinish,
           FillBegin, FillQuery, FillFails, FillIndex, FillPublish, ReheardMissing,
           ReheardLoad, ReheardFails, FillMeasure, Finish, fillVars
  <2>2. VerifyNext => heardMaxID' = heardMaxID
    BY DEF VerifyNext, VerifyEdge, VerifyCount, VerifyCountFails, VerifyCompare, Publish, At,
           fillVars
  <2>3. ReheardQuery => heardMaxID' = store.maxTxID
    BY DEF ReheardQuery
  <2> QED
    BY <2>1, <2>2, <2>3 DEF Load, LoaderNext
<1> QED
  BY <1>1, <1>2

\* The poller starts once.
LEMMA StartIs ==
    ASSUME [Next]_vars
    PROVE  \/ StartPoller(firstChunkReady) /\ poller = "unstarted" /\ UNCHANGED evicted
           \/ /\ startID' = startID
              /\ poller # "unstarted" <=> poller' # "unstarted"
<1>1. Load \/ Write \/ RunEviction \/ UNCHANGED vars => UNCHANGED <<startID, poller>>
  BY DEF Load, Write, RunEviction, vars, pollVars
<1>2. PollTick => startID' = startID /\ poller # "unstarted" /\ poller' # "unstarted"
  BY DEF PollTick, PollTransmissions, PollTransmissionsFails, NextObsID, PollObservations,
         IngestNewObservations, IngestNewFromDB
<1>3. StartPoller(firstChunkReady) => poller = "unstarted" /\ UNCHANGED evicted
  BY DEF StartPoller
<1> QED
  BY <1>1, <1>2, <1>3 DEF Next, Poll

\* Quiet was true before it is: what breaks it is never undone.
LEMMA QuietBack ==
    ASSUME IngestTypes, PollPlace, heardMaxID \in 0 .. store.maxTxID, [Next]_vars, Quiet'
    PROVE  Quiet
<1>0. evicted \subseteq evicted' /\ store.maxTxID \in Nat
  BY StoreStep DEF IngestTypes, Kept, Store
<1>1. NotReplayed
  BY StartIs DEF Quiet, NotReplayed, StartPoller
<1>2. ASSUME NEW t \in evicted, startID < t, t <= heardMaxID PROVE FALSE
  <2>1. poller # "unstarted" /\ startID' = startID
    BY <1>2, StartIs DEF PollPlace
  <2>2. ~(t <= heardMaxID')
    BY <1>0, <1>2, <2>1 DEF Quiet, EvictedAhead
  <2>3. heardMaxID' = store.maxTxID /\ ReheardQuery
    BY <1>2, <2>2, HeardMaxIs
  <2>4. t \in Int
    <3>1. evicted \subseteq 1 .. MaxTx
      BY DEF PollPlace, Tx
    <3> QED
      BY <3>1
  <2> QED
    BY <1>0, <1>2, <2>2, <2>3, <2>4
<1> QED
  BY <1>1, <1>2 DEF Quiet, EvictedAhead

\* No row above the poller's start and below the highest id in memory is missed.
MaxCovered ==
    poller # "unstarted" => \A t \in startID + 1 .. store.maxTxID : Seen(t)

\* The poller will not ingest t, nor has it.
NotPolled(t) == IF poller = "unstarted" THEN t <= store.maxTxID ELSE t <= startID

\* What the fill has in hand is not in memory, and nobody else will bring it.
ChunkApart ==
    loader = "fillIndex" =>
        /\ \A t \in TxsOf(chunk) \ indexed : ~InMemory(t)
        /\ \A t \in indexed : store.index[t] = "filled" /\ ~ListedIn(store, t)
        /\ \A t \in TxsOf(chunk) : IF heard = {} THEN t <= InitTx ELSE NotPolled(t)

\* The re-heard rows in hand are out of memory and nobody else will bring them.
HeardApart ==
    /\ loader = "reheardQuery" => \A t \in heard : ~InMemory(t) /\ NotPolled(t)
    /\ loader \in ReheardStates \union {"fillIndex"} => \A t \in heard : t <= heardMaxID

\* What is in memory was seen in the windows read so far.
WindowsApart ==
    /\ loader \in HotStates /\ hotStartup =>
          \A t \in Tx : InMemory(t) => txs[t].last >= HotCutoff
    /\ InWindows =>
          \A t \in Tx : InMemory(t) =>
              \/ txs[t].last >= oldestLoaded
              \/ loader = "fillIndex" /\ t \in TxsOf(chunk)

\* The rows a hot chunk brings, whole or up to where it failed.
LEMMA HotAdds ==
    ASSUME IngestTypes, DataTrue, Load, HotMerge \/ HotFails
    PROVE  \E R \in SUBSET chunk :
              /\ store' = AddRows(store, R) /\ RowsOK(R) /\ RowsTrue(R)
              /\ \A t \in TxsOf(R) : txs[t].last >= HotFrom
              /\ \A x \in TxsOf(R) : \A t \in InitTx + 1 .. x : t \in TxsOf(R) \/ Seen(t)
<1>0. /\ loader \in HotStates /\ RowsOK(chunk) /\ RowsTrue(chunk) /\ HotCovers
      /\ InitTx \in Nat /\ Len(txs) \in Nat
  BY HistoryAssumption DEF HotMerge, HotFails, HotStates, IngestTypes, DataTrue, DBTypes
<1>1. PICK id \in Nat : \E R \in SUBSET chunk :
         store' = AddRows(store, R) /\ (R = chunk \/ (R = {r \in chunk : r.tx <= id}))
  <2>1. CASE HotMerge
    <3>1. 0 \in Nat /\ chunk \in SUBSET chunk /\ store' = AddRows(store, chunk)
      BY <2>1 DEF HotMerge
    <3> QED
      BY <3>1
  <2>2. CASE HotFails
    <3>1. PICK id \in {0} \union TxsOf(chunk) : store' = AddRows(store, {r \in chunk : r.tx <= id})
      BY <2>2 DEF HotFails
    <3>2. id \in Nat
      BY <1>0 DEF RowsOK, TxsOf
    <3> QED
      BY <3>1, <3>2
  <2> QED
    BY <2>1, <2>2
<1>2. PICK R \in SUBSET chunk :
         store' = AddRows(store, R) /\ (R = chunk \/ (R = {r \in chunk : r.tx <= id}))
  BY <1>1
<1>3. RowsOK(R) /\ RowsTrue(R)
  BY <1>0, SomeRowsTrue DEF RowsOK
<1>4. TxsOf(R) \subseteq TxsOf(chunk)
  BY DEF TxsOf
<1>5. /\ cursorID \in 0 .. Len(txs)
      /\ \A t \in InitTx + 1 .. cursorID : Seen(t)
      /\ \A t \in TxsOf(chunk) : txs[t].last >= HotFrom
      /\ \A x \in TxsOf(chunk) : \A t \in 1 .. Len(txs) :
            InitTx < t /\ cursorID < t /\ t <= x => t \in TxsOf(chunk)
  BY <1>0 DEF HotCovers
<1>6. ASSUME NEW x \in TxsOf(R), NEW t \in InitTx + 1 .. x PROVE t \in TxsOf(R) \/ Seen(t)
  <2>1. x \in 1 .. Len(txs) /\ t \in 1 .. Len(txs) /\ InitTx < t /\ t <= x
    <3>1. x \in 1 .. Len(txs)
      BY <1>3 DEF RowsOK, TxsOf
    <3> QED
      BY <1>0, <3>1
  <2>2. CASE t <= cursorID
    <3>1. t \in InitTx + 1 .. cursorID
      BY <1>0, <1>5, <2>1, <2>2
    <3> QED
      BY <1>5, <3>1
  <2>3. CASE cursorID < t
    <3>1. t \in TxsOf(chunk)
      BY <1>4, <1>5, <2>1, <2>3
    <3>2. PICK r \in chunk : r.tx = t
      BY <3>1 DEF TxsOf
    <3>3. PICK q \in R : q.tx = x
      BY DEF TxsOf
    <3>4. CASE R = chunk
      BY <3>1, <3>4
    <3>5. CASE R = {z \in chunk : z.tx <= id}
      <4>1. x <= id
        BY <3>3, <3>5
      <4>2. t <= id
        BY <2>1, <4>1
      <4> QED
        BY <3>2, <3>5, <4>2 DEF TxsOf
    <3> QED
      BY <1>2, <3>4, <3>5
  <2> QED
    BY <1>5, <2>1, <2>2, <2>3
<1> QED
  BY <1>2, <1>3, <1>4, <1>5, <1>6

\* The rows the poller brings, unless it replays: written since the start.
LEMMA PollAdds ==
    ASSUME IngestTypes, RowsInHand, DataTrue, PollPlace, NotReplayed, IngestNewFromDB
    PROVE  /\ store' = AddRows(store, newRows) /\ poller # "unstarted" /\ newRows # {}
           /\ RowsOK(newRows) /\ RowsTrue(newRows)
           /\ \A t \in TxsOf(newRows) : /\ t > startID /\ t > InitTx /\ t \in 1 .. Len(txs)
                                        /\ txs[t].last = Now
           /\ \A r \in newRows : r.first = Now
           /\ \A x \in TxsOf(newRows) : \A t \in lastID + 1 .. x : t \in TxsOf(newRows)
<1>1. /\ store' = AddRows(store, newRows) /\ poller = "merge"
      /\ RowsOK(newRows) /\ RowsTrue(newRows) /\ TimesFixed
      /\ lastID \in Nat /\ startID \in Nat /\ InitTx \in Nat /\ Len(txs) \in Nat
      /\ startID <= lastID /\ InitTx <= startID
  BY HistoryAssumption DEF IngestNewFromDB, IngestTypes, DBTypes, DataTrue, PollPlace, NotReplayed
<1>2. /\ newRows # {}
      /\ \A r \in newRows : r.tx > lastID /\ r.tx \in 1 .. Len(txs) /\ r.first = txs[r.tx].first
      /\ \A r \in newRows : \A t \in lastID + 1 .. r.tx : t \in TxsOf(newRows)
  BY <1>1 DEF RowsInHand, RowsOK, RowsTrue
<1>3. ASSUME NEW r \in newRows
      PROVE  /\ r.tx > startID /\ r.tx > InitTx /\ r.tx \in 1 .. Len(txs)
             /\ txs[r.tx].last = Now /\ r.first = Now
  <2>1. r.tx > lastID /\ r.tx \in 1 .. Len(txs) /\ r.first = txs[r.tx].first
    BY <1>2
  <2>2. r.tx > startID /\ r.tx > InitTx /\ r.tx \in InitTx + 1 .. Len(txs)
    BY <1>1, <2>1
  <2> QED
    BY <1>1, <2>1, <2>2 DEF TimesFixed
<1> QED
  BY <1>1, <1>2, <1>3 DEF TxsOf

\* AddRows moves maxTxID to an id it was given, or not at all.
LEMMA AddMax ==
    ASSUME DBTypes, NEW s, Store(s), StoreTrue(s), NEW R, RowsOK(R)
    PROVE  AddRows(s, R).maxTxID \in {s.maxTxID} \union TxsOf(R)
<1> DEFINE fresh == {r \in R : s.index[r.tx] = "none"}
           ids == {s.maxTxID} \union TxsOf(fresh)
<1>1. AddRows(s, R).maxTxID = Max(ids)
  BY AddRowsIs DEF StoreTrue
<1>2. ids \in SUBSET (0 .. Len(txs)) /\ s.maxTxID \in ids /\ ids # {} /\ Len(txs) \in Nat
      /\ ids \subseteq {s.maxTxID} \union TxsOf(R)
  <2>1. TxsOf(fresh) \subseteq TxsOf(R) /\ TxsOf(R) \subseteq 0 .. Len(txs)
    BY DEF TxsOf, RowsOK
  <2>2. s.maxTxID \in 0 .. Len(txs) /\ Len(txs) \in Nat
    BY DEF Store, DBTypes
  <2> QED
    BY <2>1, <2>2
<1> HIDE DEF ids
<1> QED
  BY <1>1, <1>2, MaxIs

\* Every step that touches the store, by what it does to it.
LEMMA StoreCases ==
    ASSUME [Next]_vars
    PROVE  \/ store' = store /\ evicted' = evicted
           \/ Load /\ (HotMerge \/ HotFails)
           \/ Load /\ FillIndex
           \/ /\ Load /\ FillPublish
              /\ \E k \in Boundaries(store.packets, Min({r.first : r \in chunk})) :
                    store' = PublishRows(store, chunk, k)
           \/ Load /\ HotFinish /\ store' = [store EXCEPT !.packets = SortByFirstSeen(@)]
           \/ Poll /\ IngestNewFromDB
           \/ Poll /\ IngestNewObservations /\ store' = AddObservations(store, newObs)
           \/ RunEviction
<1>1. Write \/ UNCHANGED vars => store' = store /\ evicted' = evicted
  BY DEF Write, vars
<1>2. Load /\ store' = store => evicted' = evicted
  BY DEF Load, LoaderNext, BeginLoad, HotCount, HotQuery, HotMerge, HotFails, HotFinish,
         FillBegin, FillQuery, FillFails, FillIndex, FillPublish, ReheardQuery, ReheardMissing,
         ReheardLoad, ReheardFails, FillMeasure, Finish,
         VerifyNext, VerifyEdge, VerifyCount, VerifyCountFails, VerifyCompare, Publish, At
<1>3. Load =>
         \/ store' = store /\ evicted' = evicted
         \/ Load /\ (HotMerge \/ HotFails)
         \/ Load /\ FillIndex
         \/ /\ Load /\ FillPublish
            /\ \E k \in Boundaries(store.packets, Min({r.first : r \in chunk})) :
                  store' = PublishRows(store, chunk, k)
         \/ Load /\ HotFinish /\ store' = [store EXCEPT !.packets = SortByFirstSeen(@)]
  BY <1>2, LoadStoreIs
<1>4. Poll => \/ store' = store /\ evicted' = evicted
              \/ Poll /\ IngestNewFromDB
              \/ Poll /\ IngestNewObservations /\ store' = AddObservations(store, newObs)
  BY PollStoreIs
<1> QED
  BY <1>1, <1>3, <1>4 DEF Next

\* What x in a + 1 .. b says of x.
LEMMA Between ==
    ASSUME NEW a \in Nat, NEW b \in Nat, NEW x \in a + 1 .. b
    PROVE  x \in Nat /\ x > a /\ x <= b
OBVIOUS

\* MaxCovered is preserved while no late row was replayed.
LEMMA MaxCoveredStep ==
    ASSUME CursorInv, DataTrue, PollPlace, NotReplayed, NotReplayed', ChunkApart, MaxCovered,
           [Next]_vars
    PROVE  MaxCovered'
<1> SUFFICES ASSUME poller' # "unstarted", NEW t \in startID' + 1 .. store'.maxTxID
             PROVE  Seen(t)'
  BY DEF MaxCovered
<1>0. /\ IngestTypes /\ IngestTypes' /\ DBTypes /\ Store(store) /\ StoreTrue(store)
      /\ RowsOK(chunk) /\ RowsInHand /\ CursorCovers
      /\ startID \in Nat /\ startID' \in Nat /\ lastID \in Nat
      /\ store.maxTxID \in Nat /\ store'.maxTxID \in Nat /\ store'.maxTxID <= MaxTx
      /\ MaxTx \in Nat /\ InitTx \in Nat
  <2>1. IngestTypes /\ RowsInHand /\ IngestTypes'
    BY TypesStep DEF CursorInv
  <2>2. store.maxTxID \in Nat
    BY <2>1 DEF IngestTypes, Store
  <2>3. store'.maxTxID \in 0 .. Len(txs') /\ Len(txs') <= MaxTx /\ MaxTx \in Nat
        /\ Len(txs') \in Nat /\ startID' \in 0 .. Len(txs')
    BY <2>1, DBAssumption DEF IngestTypes, Store, DBTypes
  <2>4. StoreTrue(store)
    BY DEF DataTrue, StoreTrue
  <2>5. /\ DBTypes /\ Store(store) /\ RowsOK(chunk)
        /\ startID \in Nat /\ lastID \in Nat
    BY <2>1 DEF IngestTypes
  <2>6. CursorCovers /\ InitTx \in Nat
    BY HistoryAssumption DEF CursorInv
  <2> QED
    BY <2>1, <2>2, <2>3, <2>4, <2>5, <2>6
<1>00. t \in Nat /\ t > startID' /\ t <= store'.maxTxID
  BY <1>0, Between
<1>1. t \in Tx
  <2>1. t \in Nat /\ t >= 1 /\ t <= MaxTx
    BY <1>0, <1>00
  <2> QED
    BY <1>0, <2>1 DEF Tx
<1>2. Seen(t) => Seen(t)'
  BY <1>0, <1>1, SeenStays
<1>3. ASSUME StartPoller(firstChunkReady) PROVE FALSE
  <2>1. PICK dbTx \in {Len(txs), 0} : lastID' = Max({dbTx, store.maxTxID})
    BY <1>3 DEF StartPoller
  <2>2. startID' = lastID' /\ store' = store
    BY <1>3 DEF StartPoller
  <2> DEFINE S == {dbTx, store.maxTxID}
  <2>3. Len(txs) \in Nat /\ S \in SUBSET (0 .. Len(txs)) /\ S # {} /\ store.maxTxID \in S
    <3>1. Len(txs) \in Nat /\ store.maxTxID \in 0 .. Len(txs)
      BY <1>0 DEF Store, DBTypes
    <3>2. dbTx \in 0 .. Len(txs)
      BY <2>1, <3>1
    <3> QED
      BY <3>1, <3>2
  <2>4. Max(S) \in S /\ store.maxTxID <= Max(S)
    <3> HIDE DEF S
    <3> QED
      BY <2>3, MaxIs
  <2>5. store.maxTxID <= startID'
    BY <2>1, <2>2, <2>4
  <2> QED
    BY <1>0, <1>00, <2>2, <2>5
<1>4. startID' = startID /\ poller # "unstarted"
  BY <1>3, StartIs
<1>5. CASE t <= store.maxTxID
  <2>1. t \in startID + 1 .. store.maxTxID
    BY <1>0, <1>4, <1>5
  <2> QED
    BY <1>2, <1>4, <2>1 DEF MaxCovered
<1>6. CASE ~(t <= store.maxTxID)
  <2>1. t > startID /\ t <= store'.maxTxID /\ t > InitTx /\ t \in Nat
        /\ ~(store'.maxTxID <= store.maxTxID)
    <3>1. startID >= InitTx
      BY <1>4 DEF NotReplayed
    <3> QED
      BY <1>0, <1>4, <1>6, <3>1
  <2>2. ASSUME NEW R, RowsOK(R), store' = AddRows(store, R)
        PROVE  /\ store'.maxTxID \in TxsOf(R)
               /\ t \in TxsOf(R) => Seen(t)'
    <3>1. store'.maxTxID \in TxsOf(R)
      BY <1>0, <2>1, <2>2, AddMax
    <3>2. store'.index = [u \in Tx |-> IF u \in TxsOf(R) /\ store.index[u] = "none"
                                       THEN "merged" ELSE store.index[u]]
      BY <1>0, <2>2, AddRowsStore
    <3> QED
      BY <1>1, <3>1, <3>2 DEF Seen, InMemory
  <2>3. CASE Load /\ (HotMerge \/ HotFails)
    <3>1. PICK R \in SUBSET chunk :
              /\ store' = AddRows(store, R) /\ RowsOK(R)
              /\ \A x \in TxsOf(R) : \A u \in InitTx + 1 .. x : u \in TxsOf(R) \/ Seen(u)
      BY <1>0, <2>3, HotAdds
    <3>2. t \in InitTx + 1 .. store'.maxTxID
      BY <1>0, <2>1
    <3> QED
      BY <1>2, <2>2, <3>1, <3>2
  <2>4. CASE Poll /\ IngestNewFromDB
    <3>1. /\ store' = AddRows(store, newRows) /\ RowsOK(newRows)
          /\ \A x \in TxsOf(newRows) : \A u \in lastID + 1 .. x : u \in TxsOf(newRows)
      BY <1>0, <2>4, PollAdds
    <3>2. CASE t <= lastID
      <4>1. t \in startID + 1 .. lastID
        BY <1>0, <2>1, <3>2
      <4> QED
        BY <1>0, <1>2, <1>4, <4>1 DEF CursorCovers, Seen
    <3>3. CASE lastID < t
      <4>1. t \in lastID + 1 .. store'.maxTxID
        BY <1>0, <2>1, <3>3
      <4> QED
        BY <2>2, <3>1, <4>1
    <3> QED
      BY <1>0, <2>1, <3>2, <3>3
  <2>5. CASE Load /\ FillPublish /\ \E k : store' = PublishRows(store, chunk, k)
    <3>1. PICK k : store' = PublishRows(store, chunk, k)
      BY <2>5
    <3>2. store'.maxTxID \in {store.maxTxID} \union TxsOf(chunk)
      <4>1. Len(txs) \in Nat
        BY <1>0 DEF DBTypes
      <4> QED
        BY <1>0, <3>1, <4>1, PublishMax
    <3>3. store'.maxTxID \in TxsOf(chunk)
      BY <1>0, <2>1, <3>2
    <3>4. store'.maxTxID <= startID
      BY <1>0, <1>4, <2>5, <3>3 DEF FillPublish, ChunkApart, NotPolled, NotReplayed
    <3> QED
      BY <1>0, <2>1, <3>4
  <2>6. ASSUME store'.maxTxID = store.maxTxID PROVE FALSE
    BY <1>0, <2>1, <2>6
  <2>7. ASSUME \/ store' = store
               \/ Load /\ FillIndex
               \/ Load /\ HotFinish /\ store' = [store EXCEPT !.packets = SortByFirstSeen(@)]
               \/ Poll /\ IngestNewObservations /\ store' = AddObservations(store, newObs)
               \/ RunEviction
        PROVE  FALSE
    <3>1. CASE store' = store
      BY <2>6, <3>1
    <3>2. CASE FillIndex
      <4>1. PICK R \in SUBSET {r \in chunk : r.tx \notin indexed} :
               store' = IndexRows(store, R) /\ RowsOK(R)
        BY <1>0, <3>2, FillIndexIs
      <4>2. store'.maxTxID = store.maxTxID
        BY <1>0, <4>1, IndexRowsStore
      <4> QED
        BY <2>6, <4>2
    <3>3. CASE store' = [store EXCEPT !.packets = SortByFirstSeen(@)]
      <4>1. store'.maxTxID = store.maxTxID
        BY <1>0, <3>3 DEF Store
      <4> QED
        BY <2>6, <4>1
    <3>4. CASE store' = AddObservations(store, newObs)
      <4>1. store'.maxTxID = store.maxTxID
        BY <1>0, <3>4, AddObservationsStore DEF IngestTypes
      <4> QED
        BY <2>6, <4>1
    <3>5. CASE RunEviction
      <4>1. store' = EvictHead(store, EvictCount(store))
        BY <3>5 DEF RunEviction, EvictStale
      <4>2. store'.maxTxID = store.maxTxID
        BY <1>0, <4>1, EvictHeadStore
      <4> QED
        BY <2>6, <4>2
    <3> QED
      BY <2>7, <3>1, <3>2, <3>3, <3>4, <3>5
  <2> QED
    BY <2>3, <2>4, <2>5, <2>7, StoreCases
<1> QED
  BY <1>5, <1>6

\* The types and truths most steps need, in one fact.
LEMMA Basics ==
    ASSUME CursorInv, DataTrue, [Next]_vars
    PROVE  /\ IngestTypes /\ IngestTypes' /\ TablesGrow /\ DBTypes /\ DBTypes'
           /\ Store(store) /\ StoreTrue(store) /\ RowsOK(chunk) /\ RowsTrue(chunk)
           /\ RowsOK(newRows) /\ RowsTrue(newRows) /\ RowsInHand
<1>1. IngestTypes /\ RowsInHand
  BY DEF CursorInv
<1>2. IngestTypes' /\ TablesGrow
  BY <1>1, TypesStep
<1> QED
  BY <1>1, <1>2 DEF DataTrue, StoreTrue, IngestTypes

\* Only three steps bring a transmission into memory.
LEMMA Appears ==
    ASSUME CursorInv, DataTrue, PollPlace, NotReplayed, [Next]_vars,
           NEW t \in Tx, ~InMemory(t), InMemory(t)'
    PROVE  \/ /\ Load /\ (HotMerge \/ HotFails)
              /\ t \in TxsOf(chunk) /\ txs[t].last >= HotFrom
           \/ Load /\ FillIndex /\ t \in TxsOf(chunk)
           \/ /\ Poll /\ IngestNewFromDB /\ poller # "unstarted"
              /\ t > startID /\ t > InitTx /\ txs[t].last = Now
<1>0. /\ IngestTypes /\ DBTypes /\ Store(store) /\ StoreTrue(store)
      /\ RowsOK(chunk) /\ RowsOK(newRows) /\ RowsInHand
      /\ store.index[t] = "none" /\ store'.index[t] # "none"
  BY Basics DEF InMemory
<1>1. ASSUME NEW R, RowsOK(R), store' = AddRows(store, R) PROVE t \in TxsOf(R)
  <2>1. store'.index = [u \in Tx |-> IF u \in TxsOf(R) /\ store.index[u] = "none"
                                     THEN "merged" ELSE store.index[u]]
    BY <1>0, <1>1, AddRowsStore
  <2> QED
    BY <1>0, <2>1
<1>2. CASE Load /\ (HotMerge \/ HotFails)
  <2>1. PICK R \in SUBSET chunk :
            /\ store' = AddRows(store, R) /\ RowsOK(R)
            /\ \A u \in TxsOf(R) : txs[u].last >= HotFrom
    BY <1>0, <1>2, HotAdds
  <2>2. t \in TxsOf(R)
    BY <1>1, <2>1
  <2> QED
    BY <1>2, <2>1, <2>2 DEF TxsOf
<1>3. CASE Load /\ FillIndex
  <2>1. PICK R \in SUBSET {r \in chunk : r.tx \notin indexed} :
           store'.index = [u \in Tx |-> IF u \in TxsOf(R) /\ store.index[u] = "none"
                                        THEN "filled" ELSE store.index[u]]
    BY <1>0, <1>3, FillIndexIs
  <2>2. t \in TxsOf(R)
    BY <1>0, <2>1
  <2> QED
    BY <1>3, <2>2 DEF TxsOf
<1>4. CASE Poll /\ IngestNewFromDB
  <2>1. /\ store' = AddRows(store, newRows) /\ poller # "unstarted" /\ RowsOK(newRows)
        /\ \A u \in TxsOf(newRows) : u > startID /\ u > InitTx /\ txs[u].last = Now
    BY <1>0, <1>4, PollAdds
  <2>2. t \in TxsOf(newRows)
    BY <1>1, <2>1
  <2> QED
    BY <1>4, <2>1, <2>2
<1>5. ASSUME store'.index = store.index PROVE FALSE
  BY <1>0, <1>5
<1>6. CASE store' = store
  BY <1>5, <1>6
<1>7. ASSUME NEW k, store' = PublishRows(store, chunk, k) PROVE FALSE
  <2>1. store'.index = store.index
    BY <1>0, <1>7, PublishRowsStore
  <2> QED
    BY <1>5, <2>1
<1>8. CASE store' = [store EXCEPT !.packets = SortByFirstSeen(@)]
  <2>1. store'.index = store.index
    BY <1>0, <1>8 DEF Store
  <2> QED
    BY <1>5, <2>1
<1>9. CASE store' = AddObservations(store, newObs)
  <2>1. store'.index = store.index
    BY <1>0, <1>9, AddObservationsStore DEF IngestTypes
  <2> QED
    BY <1>5, <2>1
<1>10. CASE RunEviction
  <2>1. store' = EvictHead(store, EvictCount(store))
    BY <1>10 DEF RunEviction, EvictStale
  <2>2. store'.index[t] \in {"none", store.index[t]}
    BY <1>0, <2>1, EvictHeadStore
  <2> QED
    BY <1>0, <2>2
<1> QED
  BY <1>2, <1>3, <1>4, <1>6, <1>7, <1>8, <1>9, <1>10, StoreCases

\* What the poller will not bring it will not bring after a step either.
LEMMA NotPolledStep ==
    ASSUME CursorInv, DataTrue, [Next]_vars, NEW t \in Nat, NotPolled(t)
    PROVE  NotPolled(t)'
<1>0. /\ IngestTypes /\ StoreTrue(store) /\ DBTypes /\ Store(store)
  BY Basics
<1>1. /\ store.maxTxID <= store'.maxTxID /\ store.maxTxID \in Nat /\ store'.maxTxID \in Nat
  <2>1. store'.maxTxID \in 0 .. Len(txs') /\ Len(txs') \in Nat
    BY Basics DEF IngestTypes, Store, DBTypes
  <2> QED
    BY <1>0, <2>1, MaxGrows DEF StoreTrue
<1>2. CASE startID' = startID /\ (poller # "unstarted" <=> poller' # "unstarted")
  BY <1>1, <1>2 DEF NotPolled
<1>3. CASE StartPoller(firstChunkReady) /\ poller = "unstarted"
  <2>1. PICK dbTx \in {Len(txs), 0} : lastID' = Max({dbTx, store.maxTxID})
    BY <1>3 DEF StartPoller
  <2>2. startID' = lastID' /\ store' = store /\ poller' = "tick"
    BY <1>3 DEF StartPoller
  <2> DEFINE S == {dbTx, store.maxTxID}
  <2>3. Len(txs) \in Nat /\ S \in SUBSET (0 .. Len(txs)) /\ S # {} /\ store.maxTxID \in S
    <3>1. Len(txs) \in Nat /\ store.maxTxID \in 0 .. Len(txs)
      BY <1>0 DEF Store, DBTypes
    <3>2. dbTx \in 0 .. Len(txs)
      BY <2>1, <3>1
    <3> QED
      BY <3>1, <3>2
  <2>4. Max(S) \in S /\ store.maxTxID <= Max(S)
    <3> HIDE DEF S
    <3> QED
      BY <2>3, MaxIs
  <2>5. store.maxTxID <= startID' /\ startID' \in Nat
    BY <2>1, <2>2, <2>3, <2>4
  <2> QED
    BY <1>1, <1>3, <2>2, <2>5 DEF NotPolled
<1> QED
  BY <1>2, <1>3, StartIs

\* What the fill indexed and has not published keeps its place in the index
\* and stays out of the slice, whoever else writes to the store.
LEMMA UnlistedStays ==
    ASSUME CursorInv, DataTrue, [Next]_vars, NEW I, IndexedBut(store, I), PollPlace, NotReplayed,
           loader = "fillIndex", ~FillPublish,
           NEW t \in Tx, store.index[t] = "filled", ~ListedIn(store, t)
    PROVE  store'.index[t] = "filled" /\ ~ListedIn(store', t)
<1>0. /\ IngestTypes /\ DBTypes /\ Store(store) /\ StoreTrue(store)
      /\ RowsOK(chunk) /\ RowsOK(newRows) /\ RowsInHand
  BY Basics
<1>1. CASE store' = store
  BY <1>1
<1>2. CASE FillIndex
  <2>1. PICK R \in SUBSET {r \in chunk : r.tx \notin indexed} :
           /\ store' = IndexRows(store, R)
           /\ store'.index = [u \in Tx |-> IF u \in TxsOf(R) /\ store.index[u] = "none"
                                           THEN "filled" ELSE store.index[u]]
    BY <1>0, <1>2, FillIndexIs
  <2>2. store'.index[t] = "filled"
    BY <2>1
  <2>3. store'.packets = store.packets
    BY <1>0, <2>1 DEF IndexRows, Store
  <2> QED
    BY <2>2, <2>3 DEF ListedIn
<1>3. CASE Poll /\ IngestNewFromDB
  <2>1. store' = AddRows(store, newRows) /\ RowsOK(newRows) /\ RowsTrue(newRows)
    BY <1>0, <1>3, PollAdds
  <2>2. ListedIn(store', t) => ListedIn(store, t) \/ store.index[t] = "none"
    BY <1>0, <2>1, AddIndexed
  <2>3. store'.index = [u \in Tx |-> IF u \in TxsOf(newRows) /\ store.index[u] = "none"
                                     THEN "merged" ELSE store.index[u]]
    BY <1>0, <2>1, AddRowsStore
  <2> QED
    BY <2>2, <2>3
<1>4. CASE store' = AddObservations(store, newObs)
  <2>1. store'.index = store.index /\ store'.packets = store.packets
    BY <1>0, <1>4, AddObservationsStore DEF IngestTypes
  <2> QED
    BY <2>1 DEF ListedIn
<1>5. CASE RunEviction
  <2> DEFINE k == EvictCount(store)
  <2>1. store' = EvictHead(store, k)
    BY <1>5 DEF RunEviction, EvictStale
  <2>2. k \in 0 .. Len(store.packets)
    BY <1>0, EvictCountIs DEF StoreTrue, EntriesTrue
  <2> HIDE DEF k
  <2>3. /\ ListedIn(store', t) => ListedIn(store, t)
        /\ ~ListedIn(store, t) => store'.index[t] = store.index[t]
    BY <1>0, <2>1, <2>2, EvictIndexed
  <2> QED
    BY <2>3
<1>6. ~HotMerge /\ ~HotFails /\ ~HotFinish
  BY DEF HotMerge, HotFails, HotFinish
<1> QED
  BY <1>1, <1>2, <1>3, <1>4, <1>5, <1>6, StoreCases

\* Which steps lead to the batches of the fill.
LEMMA ChunkFrom ==
    ASSUME Load, loader' = "fillIndex"
    PROVE  FillQuery \/ FillIndex \/ ReheardLoad
BY DEF Load, LoaderNext, BeginLoad, HotCount, HotQuery, HotMerge, HotFails, HotFinish,
       FillBegin, FillFails, FillPublish, ReheardQuery, ReheardMissing,
       ReheardFails, FillMeasure, Finish,
       VerifyNext, VerifyEdge, VerifyCount, VerifyCountFails, VerifyCompare, Publish, At

\* ChunkApart is preserved: a chunk in hand meets no row the poller brought.
LEMMA ChunkApartStep ==
    ASSUME CursorInv, DataTrue, PollPlace, NotReplayed, IndexedBut(store, indexed),
           ChunkApart, HeardApart, WindowsApart, [Next]_vars
    PROVE  ChunkApart'
<1> SUFFICES ASSUME loader' = "fillIndex"
             PROVE  /\ \A t \in TxsOf(chunk') \ indexed' : ~InMemory(t)'
                    /\ \A t \in indexed' : store'.index[t] = "filled" /\ ~ListedIn(store', t)
                    /\ \A t \in TxsOf(chunk') : IF heard' = {} THEN t <= InitTx ELSE NotPolled(t)'
  BY DEF ChunkApart, TxsOf, ListedIn
<1>0. /\ IngestTypes /\ DBTypes /\ Store(store) /\ StoreTrue(store) /\ RowsOK(chunk)
      /\ FillPlace /\ LoadPlace /\ TimesFixed
      /\ TxsOf(chunk) \subseteq 1 .. Len(txs) /\ 1 .. Len(txs) \subseteq Tx
      /\ Len(txs) \in Nat /\ InitTx \in Nat /\ Now \in Nat /\ startID \in Nat
  <2>1. /\ IngestTypes /\ DBTypes /\ Store(store) /\ StoreTrue(store) /\ RowsOK(chunk)
        /\ FillPlace /\ LoadPlace /\ TimesFixed
    BY Basics DEF CursorInv, DataTrue
  <2>2. TxsOf(chunk) \subseteq 1 .. Len(txs)
    BY <2>1 DEF RowsOK, TxsOf
  <2>3. Len(txs) \in Nat /\ Len(txs) <= MaxTx /\ MaxTx \in Nat /\ startID \in Nat
    BY <2>1, DBAssumption DEF DBTypes, IngestTypes
  <2> QED
    BY <2>1, <2>2, <2>3, DBAssumption, HistoryAssumption DEF Tx
<1>1. CASE ~Load
  <2>1. UNCHANGED <<loader, chunk, indexed, heard>>
    BY <1>1, LoadFrame
  <2>2. ASSUME NEW t \in TxsOf(chunk) \ indexed, InMemory(t)' PROVE FALSE
    <3>1. t \in Tx /\ ~InMemory(t) /\ t \in Nat
      BY <1>0, <2>1, <2>2 DEF ChunkApart
    <3>2. t > startID /\ t > InitTx /\ poller # "unstarted"
      BY <1>1, <2>2, <3>1, Appears
    <3>3. IF heard = {} THEN t <= InitTx ELSE NotPolled(t)
      BY <2>1, <2>2 DEF ChunkApart
    <3> QED
      BY <1>0, <3>1, <3>2, <3>3 DEF NotPolled
  <2>3. ASSUME NEW t \in indexed
        PROVE  store'.index[t] = "filled" /\ ~ListedIn(store', t)
    <3>1. t \in Tx /\ store.index[t] = "filled" /\ ~ListedIn(store, t)
      BY <1>0, <2>1 DEF ChunkApart, LoadPlace
    <3>2. ~FillPublish
      BY <2>1 DEF FillPublish
    <3> QED
      BY <2>1, <3>1, <3>2, UnlistedStays
  <2>4. ASSUME NEW t \in TxsOf(chunk)
        PROVE  IF heard = {} THEN t <= InitTx ELSE NotPolled(t)'
    <3>1. t \in Nat /\ IF heard = {} THEN t <= InitTx ELSE NotPolled(t)
      BY <1>0, <2>1 DEF ChunkApart
    <3> QED
      BY <3>1, NotPolledStep
  <2> QED
    BY <2>1, <2>2, <2>3, <2>4
<1>2. CASE FillIndex
  <2>1. PICK R \in SUBSET {r \in chunk : r.tx \notin indexed} :
           /\ store' = IndexRows(store, R)
           /\ indexed' = indexed \union TxsOf(R) /\ TxsOf(R) \subseteq TxsOf(chunk) \ indexed
           /\ store'.index = [u \in Tx |-> IF u \in TxsOf(R) /\ store.index[u] = "none"
                                           THEN "filled" ELSE store.index[u]]
    BY <1>0, <1>2, FillIndexIs
  <2>2. UNCHANGED <<loader, chunk, heard>> /\ loader = "fillIndex"
    BY <1>2 DEF FillIndex, fillVars
  <2>3. \A t \in TxsOf(chunk) \ indexed' : ~InMemory(t)'
    BY <1>0, <2>1, <2>2 DEF ChunkApart, InMemory
  <2>4. ASSUME NEW t \in indexed'
        PROVE  store'.index[t] = "filled" /\ ~ListedIn(store', t)
    <3>1. store'.packets = store.packets
      BY <1>0, <2>1 DEF IndexRows, Store
    <3>2. CASE t \in indexed
      <4>1. t \in Tx /\ store.index[t] = "filled" /\ ~ListedIn(store, t)
        BY <1>0, <2>2, <3>2 DEF ChunkApart, LoadPlace
      <4> QED
        BY <2>1, <3>1, <4>1 DEF ListedIn
    <3>3. CASE t \in TxsOf(R)
      <4>1. t \in Tx /\ store.index[t] = "none"
        BY <1>0, <2>1, <2>2, <3>3 DEF ChunkApart, InMemory
      <4>2. ASSUME NEW i \in 1 .. Len(store.packets), store.packets[i].tx = t PROVE FALSE
        <5>1. store.index[t] = store.packets[i].by
          BY <4>2 DEF IndexedBut, Leads
        <5>2. store.packets[i].by \in Maker
          BY <1>0, EntryIs DEF StoreTrue
        <5> QED
          BY <4>1, <5>1, <5>2 DEF Maker
      <4> QED
        BY <2>1, <3>1, <3>3, <4>1, <4>2 DEF ListedIn
    <3> QED
      BY <2>1, <3>2, <3>3
  <2>5. ASSUME NEW t \in TxsOf(chunk)
        PROVE  IF heard = {} THEN t <= InitTx ELSE NotPolled(t)'
    <3>1. t \in Nat /\ IF heard = {} THEN t <= InitTx ELSE NotPolled(t)
      BY <1>0, <2>2 DEF ChunkApart
    <3> QED
      BY <3>1, NotPolledStep
  <2> QED
    BY <2>2, <2>3, <2>4, <2>5
<1>3. CASE Load /\ FillQuery
  <2> DEFINE W == Window(WindowStart, oldestLoaded)
  <2>1. /\ loader = "fillQuery" /\ heard = {} /\ heard' = {} /\ indexed' = {} /\ store' = store
        /\ chunk' = Rows(W)
    BY <1>0, <1>3 DEF FillQuery, FillPlace
  <2>2. W \in SUBSET (1 .. Len(txs)) /\ \A t \in W : txs[t].last < oldestLoaded
    BY DEF Window, SeenSince
  <2> HIDE DEF W
  <2>3. TxsOf(chunk') = W
    BY <2>1, <2>2, RowsAreOK
  <2>4. oldestLoaded \in Floor .. Now /\ Floor \in Int
    BY <1>0, <2>1, StoreAssumption DEF FillPlace, InWindows, FillStates, Stamp
  <2>5. ASSUME NEW t \in W PROVE ~InMemory(t) /\ t <= InitTx
    <3>1. txs[t] \in [first : Stamp, last : Stamp]
      BY <1>0, <2>2, ElementOfSeq DEF DBTypes
    <3>2. txs[t].last \in Nat /\ txs[t].last < oldestLoaded /\ t \in Tx /\ t \in 1 .. Len(txs)
      BY <1>0, <2>2, <3>1, DBAssumption DEF Stamp
    <3>3. ~InMemory(t)
      BY <2>1, <2>4, <3>2 DEF WindowsApart, InWindows, FillStates
    <3>4. ASSUME t > InitTx PROVE FALSE
      <4>1. t \in InitTx + 1 .. Len(txs)
        BY <1>0, <3>2, <3>4
      <4>2. txs[t].last = Now
        BY <1>0, <4>1 DEF TimesFixed
      <4> QED
        BY <1>0, <2>4, <3>2, <4>2
    <3> QED
      BY <1>0, <3>2, <3>3, <3>4
  <2> QED
    BY <2>1, <2>3, <2>5 DEF InMemory
<1>4. CASE Load /\ ReheardLoad
  <2>1. /\ loader = "reheardQuery" /\ chunk' = Rows(heard) /\ indexed' = {} /\ store' = store
        /\ heard' = heard /\ heard # {}
    BY <1>0, <1>4 DEF ReheardLoad, fillVars, FillPlace, ReheardStates
  <2>2. TxsOf(chunk') = heard /\ heard \subseteq 1 .. Len(txs)
    BY <1>0, <2>1, RowsAreOK DEF IngestTypes
  <2>3. \A t \in heard : ~InMemory(t) /\ NotPolled(t) /\ t \in Nat
    BY <1>0, <2>1, <2>2 DEF HeardApart
  <2>4. \A t \in heard : NotPolled(t)'
    BY <2>3, NotPolledStep
  <2> QED
    BY <2>1, <2>2, <2>3, <2>4 DEF InMemory
<1> QED
  BY <1>1, <1>2, <1>3, <1>4, ChunkFrom

\* HeardApart is preserved while nothing ahead of the cursor was evicted.
LEMMA HeardApartStep ==
    ASSUME CursorInv, DataTrue, PollPlace, Quiet, MaxCovered, HeardApart, [Next]_vars
    PROVE  HeardApart'
<1>0. /\ IngestTypes /\ FillPlace /\ heard \subseteq 1 .. Len(txs) /\ 1 .. Len(txs) \subseteq Tx
      /\ startID \in Nat /\ store.maxTxID \in Nat /\ heardMaxID \in 0 .. store.maxTxID
      /\ heard \subseteq Nat
  <2>1. IngestTypes /\ FillPlace /\ heardMaxID \in 0 .. store.maxTxID
    BY DEF CursorInv, DataTrue
  <2>2. Len(txs) \in Nat /\ Len(txs) <= MaxTx /\ MaxTx \in Nat /\ startID \in Nat
        /\ store.maxTxID \in Nat /\ heard \subseteq 1 .. Len(txs)
    BY <2>1, DBAssumption DEF DBTypes, IngestTypes, Store
  <2> QED
    BY <2>1, <2>2 DEF Tx
<1>1. CASE ~Load
  <2>1. UNCHANGED <<loader, heard, heardMaxID>>
    BY <1>1, LoadFrame
  <2>2. ASSUME loader = "reheardQuery", NEW t \in heard
        PROVE  ~InMemory(t)' /\ NotPolled(t)'
    <3>1. ~InMemory(t) /\ NotPolled(t) /\ t \in Tx /\ t \in Nat
      BY <1>0, <2>2 DEF HeardApart
    <3>2. ASSUME InMemory(t)' PROVE FALSE
      <4>1. t > startID /\ poller # "unstarted"
        BY <1>1, <3>1, <3>2, Appears DEF Quiet
      <4> QED
        BY <1>0, <3>1, <4>1 DEF NotPolled
    <3> QED
      BY <3>1, <3>2, NotPolledStep
  <2> QED
    BY <2>1, <2>2 DEF HeardApart
<1>2. CASE Load
  <2>1. loader' = "reheardQuery" => ReheardMissing
    BY <1>2 DEF Load, LoaderNext, BeginLoad, HotCount, HotQuery, HotMerge, HotFails, HotFinish,
           FillBegin, FillQuery, FillFails, FillIndex, FillPublish, ReheardQuery, ReheardLoad,
           ReheardFails, FillMeasure, Finish,
           VerifyNext, VerifyEdge, VerifyCount, VerifyCountFails, VerifyCompare, Publish, At
  <2>2. ASSUME ReheardMissing, NEW t \in heard'
        PROVE  ~InMemory(t)' /\ NotPolled(t)'
    <3>1. /\ loader = "reheard" /\ t \in heard /\ ~InMemory(t) /\ store' = store
          /\ heardMaxID' = heardMaxID
      BY <2>2 DEF ReheardMissing
    <3>2. t <= heardMaxID /\ t \in Nat
      BY <1>0, <3>1 DEF HeardApart, ReheardStates
    <3>3. t <= store.maxTxID
      BY <1>0, <3>2
    <3>4. ASSUME poller # "unstarted", ~(t <= startID) PROVE FALSE
      <4>1. t \in startID + 1 .. store.maxTxID
        BY <1>0, <3>2, <3>3, <3>4
      <4>2. t \in evicted
        BY <3>1, <3>4, <4>1 DEF MaxCovered, Seen
      <4> QED
        BY <1>0, <3>2, <3>4, <4>2 DEF Quiet, EvictedAhead
    <3>5. NotPolled(t)
      BY <3>3, <3>4 DEF NotPolled
    <3> QED
      BY <3>1, <3>2, <3>5, NotPolledStep DEF InMemory
  <2>3. \/ ReheardQuery
        \/ /\ heardMaxID' = heardMaxID
           /\ \/ heard' \subseteq heard
              \/ loader' \notin ReheardStates \union {"fillIndex"}
           /\ \/ loader \in ReheardStates \union {"fillIndex", "fillQuery"}
              \/ loader' \notin ReheardStates \union {"fillIndex"}
    BY <1>2 DEF Load, LoaderNext, BeginLoad, HotCount, HotQuery, HotMerge, HotFails, HotFinish,
           FillBegin, FillQuery, FillFails, FillIndex, FillPublish, ReheardMissing, ReheardLoad,
           ReheardFails, FillMeasure, Finish, fillVars, ReheardStates,
           VerifyNext, VerifyEdge, VerifyCount, VerifyCountFails, VerifyCompare, Publish, At
  <2>4. CASE ReheardQuery
    BY <2>4 DEF ReheardQuery, HeardApart, ReheardStates
  <2>5. CASE ~ReheardQuery
    <3>1. ASSUME loader' \in ReheardStates \union {"fillIndex"}, NEW t \in heard'
          PROVE  t <= heardMaxID'
      <4>1. t \in heard /\ heardMaxID' = heardMaxID /\ loader # "fillQuery"
        BY <1>0, <2>3, <2>5, <3>1 DEF FillPlace
      <4> QED
        BY <2>3, <2>5, <3>1, <4>1 DEF HeardApart
    <3> QED
      BY <2>1, <2>2, <3>1 DEF HeardApart
  <2> QED
    BY <2>4, <2>5
<1> QED
  BY <1>1, <1>2

\* WindowsApart is preserved by every step.
LEMMA WindowsApartStep ==
    ASSUME CursorInv, DataTrue, PollPlace, NotReplayed, WindowsApart, [Next]_vars
    PROVE  WindowsApart'
<1>0. /\ IngestTypes /\ FillPlace /\ DBTypes /\ Len(txs) \in Nat /\ Floor \in Nat /\ Now \in Nat
      /\ HotCutoff \in Floor .. Now
      /\ \A t \in 1 .. Len(txs) : txs[t].last \in Nat /\ txs'[t].last \in Nat
                                  /\ txs[t].last <= txs'[t].last
      /\ \A t \in Tx : InMemory(t) => t \in 1 .. Len(txs)
      /\ TxsOf(chunk) \subseteq 1 .. Len(txs)
  <2>1. IngestTypes /\ IngestTypes' /\ TablesGrow /\ FillPlace /\ IndexedExist /\ RowsOK(chunk)
    BY Basics DEF CursorInv
  <2>2. /\ Len(txs) \in Nat /\ Len(txs') \in Nat /\ Len(txs) <= Len(txs')
    BY <2>1 DEF IngestTypes, DBTypes, TablesGrow
  <2>3. ASSUME NEW t \in 1 .. Len(txs) PROVE txs[t].last \in Nat /\ txs'[t].last \in Nat
    <3>1. t \in 1 .. Len(txs')
      BY <2>2
    <3>2. txs[t] \in [first : Stamp, last : Stamp] /\ txs'[t] \in [first : Stamp, last : Stamp]
      BY <2>1, <3>1, ElementOfSeq DEF IngestTypes, DBTypes
    <3> QED
      BY <3>2, DBAssumption DEF Stamp
  <2>4. TxsOf(chunk) \subseteq 1 .. Len(txs)
    BY <2>1 DEF RowsOK, TxsOf
  <2>5. Floor \in Nat /\ Now \in Nat /\ HotCutoff \in Floor .. Now
    BY DBAssumption, StoreAssumption, LoadAssumption DEF Stamp
  <2>6. \A t \in 1 .. Len(txs) : txs[t].last <= txs'[t].last
    BY <2>1 DEF TablesGrow
  <2>7. DBTypes /\ \A t \in Tx : InMemory(t) => t \in 1 .. Len(txs)
    BY <2>1 DEF IngestTypes, IndexedExist
  <2> QED
    BY <2>1, <2>2, <2>3, <2>4, <2>5, <2>6, <2>7
<1>1. ASSUME NEW t \in Tx, ~InMemory(t), InMemory(t)' PROVE txs' = txs
  <2>1. ~UNCHANGED store
    BY <1>1 DEF InMemory
  <2> QED
    BY <1>0, <2>1, StoreStep DEF IngestTypes, db
<1>2. ASSUME loader' \in HotStates, hotStartup', NEW t \in Tx, InMemory(t)'
      PROVE  txs'[t].last >= HotCutoff
  <2>1. hotStartup' = hotStartup
    BY LoadFrame DEF Load
  <2>2. loader \in HotStates
    <3>1. Load => loader \in HotStates
      BY <1>2 DEF Load, LoaderNext, BeginLoad, HotCount, HotQuery, HotMerge, HotFails, HotFinish,
             FillBegin, FillQuery, FillFails, FillIndex, FillPublish, ReheardQuery, ReheardLoad,
             ReheardMissing, ReheardFails, FillMeasure, Finish, HotStates,
             VerifyNext, VerifyEdge, VerifyCount, VerifyCountFails, VerifyCompare, Publish, At
    <3> QED
      BY <1>2, <3>1, LoadFrame
  <2>3. CASE InMemory(t)
    <3>1. txs[t].last >= HotCutoff /\ t \in 1 .. Len(txs)
      BY <1>0, <1>2, <2>1, <2>2, <2>3 DEF WindowsApart
    <3> QED
      BY <1>0, <3>1
  <2>4. CASE ~InMemory(t)
    <3>1. txs' = txs
      BY <1>1, <1>2, <2>4
    <3>2. HotFrom = HotCutoff
      BY <1>2, <2>1 DEF HotFrom
    <3>3. ~FillIndex
      BY <2>2 DEF FillIndex, HotStates
    <3>4. txs[t].last >= HotFrom \/ txs[t].last = Now
      BY <1>2, <2>4, <3>3, Appears
    <3> QED
      BY <1>0, <3>1, <3>2, <3>4
  <2> QED
    BY <2>3, <2>4
<1>3. CASE ~Load
  <2>1. UNCHANGED <<loader, heard, oldestLoaded, chunk>>
    BY <1>3, LoadFrame
  <2>2. ASSUME InWindows, NEW t \in Tx, InMemory(t)'
        PROVE  \/ txs'[t].last >= oldestLoaded
               \/ loader = "fillIndex" /\ t \in TxsOf(chunk)
    <3>1. oldestLoaded \in Floor .. Now
      BY <1>0, <2>2 DEF FillPlace
    <3>2. CASE InMemory(t)
      <4>1. t \in 1 .. Len(txs) /\ (\/ txs[t].last >= oldestLoaded
                                    \/ loader = "fillIndex" /\ t \in TxsOf(chunk))
        BY <1>0, <2>2, <3>2 DEF WindowsApart
      <4> QED
        BY <1>0, <3>1, <4>1
    <3>3. CASE ~InMemory(t)
      <4>1. txs' = txs /\ txs[t].last = Now
        BY <1>1, <1>3, <2>2, <3>3, Appears
      <4> QED
        BY <1>0, <3>1, <4>1
    <3> QED
      BY <3>2, <3>3
  <2>3. InWindows' = InWindows /\ TxsOf(chunk)' = TxsOf(chunk) /\ oldestLoaded' = oldestLoaded
    BY <2>1 DEF InWindows, TxsOf
  <2> QED
    BY <1>2, <2>1, <2>2, <2>3 DEF WindowsApart
<1>4. ASSUME Load, loader' \in FillStates, heard' = {}, NEW t \in Tx, InMemory(t)'
      PROVE  \/ txs[t].last >= oldestLoaded'
             \/ loader' = "fillIndex" /\ t \in TxsOf(chunk')
  <2>1. \/ HotFinish \/ FillBegin \/ FillQuery \/ FillFails \/ FillIndex \/ FillPublish
        \/ ReheardLoad
    BY <1>4 DEF Load, LoaderNext, BeginLoad, HotCount, HotQuery, HotMerge, HotFails,
             ReheardQuery, ReheardMissing, ReheardFails, FillMeasure, Finish, FillStates,
             VerifyNext, VerifyEdge, VerifyCount, VerifyCountFails, VerifyCompare, Publish, At
  <2>2. ~FillIndex => InMemory(t) /\ t \in 1 .. Len(txs)
    <3>1. ASSUME ~FillIndex, ~InMemory(t) PROVE FALSE
      <4>1. HotMerge \/ HotFails
        <5>1. ~Poll \/ ~IngestNewFromDB
          <6>1. Load => pollVars' = pollVars
            BY DEF Load
          <6>2. IngestNewFromDB => poller' # poller
            BY DEF IngestNewFromDB
          <6> QED
            BY <1>4, <6>1, <6>2 DEF pollVars
        <5> QED
          BY <1>4, <3>1, <5>1, Appears
      <4>2. loader' \notin FillStates
        BY <4>1 DEF HotMerge, HotFails, FillStates
      <4> QED
        BY <1>4, <4>2
    <3> QED
      BY <1>0, <3>1
  <2>3. CASE HotFinish
    <3>1. hotStartup /\ loader \in HotStates /\ oldestLoaded' = HotCutoff /\ ~FillIndex
      BY <1>4, <2>3 DEF HotFinish, FillStates, HotStates, FillIndex
    <3> QED
      BY <2>2, <3>1 DEF WindowsApart
  <2>4. CASE FillBegin
    <3>1. /\ loader = "fillBegin" /\ heard = {} /\ oldestLoaded' = oldestLoaded /\ ~FillIndex
      BY <1>4, <2>4 DEF FillBegin, FillIndex
    <3> QED
      BY <2>2, <3>1 DEF WindowsApart, InWindows, FillStates
  <2>5. CASE FillQuery
    <3>1. /\ loader = "fillQuery" /\ heard = {} /\ ~FillIndex /\ oldestLoaded > Floor
          /\ oldestLoaded' \in {WindowStart, oldestLoaded}
      BY <1>4, <2>5 DEF FillQuery, FillIndex
    <3>2. oldestLoaded \in Floor .. Now
      BY <1>0, <3>1 DEF FillPlace, InWindows, FillStates
    <3>3. WindowStart = oldestLoaded - 1
      BY <3>1, <3>2, WindowIs
    <3>4. txs[t].last >= oldestLoaded /\ t \in 1 .. Len(txs)
      BY <2>2, <3>1 DEF WindowsApart, InWindows, FillStates
    <3> QED
      BY <1>0, <3>1, <3>2, <3>3, <3>4
  <2>6. CASE FillFails
    <3>1. /\ loader = "fillQuery" /\ heard = {} /\ ~FillIndex /\ oldestLoaded > Floor
          /\ oldestLoaded' = WindowStart
      BY <1>4, <2>6 DEF FillFails, FillIndex
    <3>2. oldestLoaded \in Floor .. Now
      BY <1>0, <3>1 DEF FillPlace, InWindows, FillStates
    <3>3. WindowStart = oldestLoaded - 1
      BY <3>1, <3>2, WindowIs
    <3>4. txs[t].last >= oldestLoaded /\ t \in 1 .. Len(txs)
      BY <2>2, <3>1 DEF WindowsApart, InWindows, FillStates
    <3> QED
      BY <1>0, <3>1, <3>2, <3>3, <3>4
  <2>7. CASE FillIndex
    <3>1. UNCHANGED <<loader, chunk, heard, oldestLoaded>> /\ loader = "fillIndex"
          /\ ~HotMerge /\ ~HotFails
      BY <2>7 DEF FillIndex, fillVars, HotMerge, HotFails
    <3>2. CASE InMemory(t)
      BY <1>4, <3>1, <3>2 DEF WindowsApart, InWindows, FillStates
    <3>3. CASE ~InMemory(t)
      <4>1. t \in TxsOf(chunk) \/ (Poll /\ IngestNewFromDB)
        BY <1>4, <3>1, <3>3, Appears
      <4>2. ~IngestNewFromDB
        BY <1>4 DEF IngestNewFromDB, Load, pollVars
      <4> QED
        BY <3>1, <4>1, <4>2
    <3> QED
      BY <3>2, <3>3
  <2>8. CASE FillPublish
    <3>1. /\ loader = "fillIndex" /\ heard = {} /\ ~FillIndex /\ oldestLoaded' = WindowStart
      BY <1>4, <2>8 DEF FillPublish, FillIndex, LoadPlace
    <3>2. /\ oldestLoaded \in Floor .. Now /\ oldestLoaded > Floor
          /\ \A u \in TxsOf(chunk) : txs[u].last >= oldestLoaded - 1
      BY <1>0, <3>1 DEF FillPlace, InWindows, FillStates
    <3>3. WindowStart = oldestLoaded - 1
      BY <3>2, WindowIs
    <3>4. t \in 1 .. Len(txs) /\ (txs[t].last >= oldestLoaded \/ t \in TxsOf(chunk))
      BY <2>2, <3>1 DEF WindowsApart, InWindows, FillStates
    <3> QED
      BY <1>0, <3>1, <3>2, <3>3, <3>4
  <2>9. CASE ReheardLoad
    BY <1>0, <1>4, <2>9 DEF ReheardLoad, fillVars, FillPlace, ReheardStates
  <2> QED
    BY <2>1, <2>3, <2>4, <2>5, <2>6, <2>7, <2>8, <2>9
<1>5. CASE Load
  <2>1. txs' = txs
    BY <1>0, <1>5, LoadRows DEF db
  <2>2. InWindows' = (loader' \in FillStates /\ heard' = {}) /\ TxsOf(chunk)' = TxsOf(chunk')
    BY DEF InWindows, TxsOf
  <2> QED
    BY <1>2, <1>4, <1>5, <2>1, <2>2 DEF WindowsApart
<1> QED
  BY <1>3, <1>5

\* The steps that change which rows of the chunk are indexed.
LEMMA IndexedIs ==
    ASSUME LoadPlace, [Next]_vars
    PROVE  \/ indexed' = indexed
           \/ Load /\ FillIndex
           \/ Load /\ FillPublish /\ indexed = TxsOf(chunk) /\ indexed' = {}
<1>1. Load => \/ indexed' = indexed
              \/ FillIndex
              \/ FillPublish
              \/ indexed' = {} /\ loader # "fillIndex"
  BY DEF Load, LoaderNext, BeginLoad, HotCount, HotQuery, HotMerge, HotFails, HotFinish,
         FillBegin, FillQuery, FillFails, ReheardQuery, ReheardLoad,
         ReheardMissing, ReheardFails, FillMeasure, Finish,
         VerifyNext, VerifyEdge, VerifyCount, VerifyCountFails, VerifyCompare, Publish, At
<1>2. FillPublish => indexed = TxsOf(chunk) /\ indexed' = {}
  BY DEF FillPublish
<1> QED
  BY <1>1, <1>2, LoadFrame DEF LoadPlace

\* Only HotFinish declares the load complete.
LEMMA CompleteIs ==
    ASSUME [Next]_vars
    PROVE  loadComplete' = loadComplete \/ (Load /\ HotFinish)
<1>1. Load => loadComplete' = loadComplete \/ HotFinish
  BY DEF Load, LoaderNext, BeginLoad, HotCount, HotQuery, HotMerge, HotFails,
         FillBegin, FillQuery, FillFails, FillIndex, FillPublish, ReheardQuery, ReheardLoad,
         ReheardMissing, ReheardFails, FillMeasure, Finish, signals,
         VerifyNext, VerifyEdge, VerifyCount, VerifyCountFails, VerifyCompare, Publish, At
<1> QED
  BY <1>1, LoadFrame

\* The slice and the index agree, but for what the fill has not published ...
ListedWell == IndexedBut(store, indexed)

\* ... and the slice is sorted from the end of the hot load on.
SortedWhenDone == loadComplete => Sorted(store.packets)

\* ListedWell and SortedWhenDone are preserved by every step.
LEMMA IndexedStep ==
    ASSUME CursorInv, DataTrue, PollPlace, NotReplayed, ChunkApart, ListedWell,
           SortedWhenDone, [Next]_vars
    PROVE  ListedWell' /\ SortedWhenDone'
<1>0. /\ IngestTypes /\ DBTypes /\ Store(store) /\ StoreTrue(store) /\ RowsOK(chunk)
      /\ RowsTrue(chunk) /\ RowsInHand /\ LoadPlace /\ IndexedBut(store, indexed)
      /\ TxsOf(chunk) \subseteq Tx
  <2>1. /\ IngestTypes /\ DBTypes /\ Store(store) /\ StoreTrue(store) /\ RowsOK(chunk)
        /\ RowsTrue(chunk) /\ RowsInHand /\ LoadPlace
    BY Basics DEF DataTrue
  <2>2. Len(txs) \in Nat /\ Len(txs) <= MaxTx /\ MaxTx \in Nat
    BY <2>1, DBAssumption DEF DBTypes
  <2>3. TxsOf(chunk) \subseteq 1 .. Len(txs)
    BY <2>1 DEF RowsOK, TxsOf
  <2> QED
    BY <2>1, <2>2, <2>3 DEF Tx, ListedWell
<1>1. ASSUME IndexedBut(store', indexed'), loadComplete' => Sorted(store'.packets)
      PROVE  ListedWell' /\ SortedWhenDone'
  BY <1>1 DEF ListedWell, SortedWhenDone, IndexedBut, Leads, ListedIn, Sorted
<1>2. ASSUME ~FillIndex, ~FillPublish PROVE indexed' = indexed
  BY <1>0, <1>2, IndexedIs
<1>3. ASSUME ~HotFinish, loadComplete' PROVE Sorted(store.packets)
  BY <1>3, CompleteIs DEF SortedWhenDone
<1>4. CASE Load /\ FillIndex
  <2>1. PICK R \in SUBSET {r \in chunk : r.tx \notin indexed} :
           /\ store' = IndexRows(store, R)
           /\ indexed' = indexed \union TxsOf(R) /\ TxsOf(R) \subseteq TxsOf(chunk) \ indexed
           /\ store'.index = [u \in Tx |-> IF u \in TxsOf(R) /\ store.index[u] = "none"
                                           THEN "filled" ELSE store.index[u]]
    BY <1>0, <1>4, FillIndexIs
  <2>2. loader = "fillIndex" /\ ~HotFinish
    BY <1>4 DEF FillIndex, HotFinish
  <2>3. store'.packets = store.packets
    BY <1>0, <2>1 DEF IndexRows, Store
  <2>4. \A i \in 1 .. Len(store.packets) :
           store.packets[i].tx \in Tx /\ store.index[store.packets[i].tx] # "none"
    <3>1. ASSUME NEW i \in 1 .. Len(store.packets)
          PROVE  store.packets[i].tx \in Tx /\ store.packets[i].by \in Maker
      BY <1>0, EntryIs DEF StoreTrue
    <3> QED
      BY <1>0, <3>1 DEF IndexedBut, Leads, Maker
  <2>5. Leads(store')
    BY <1>0, <2>1, <2>3, <2>4 DEF Leads, IndexedBut
  <2>6. ASSUME NEW t \in Tx, store'.index[t] # "none" PROVE ListedIn(store', t) \/ t \in indexed'
    <3>1. t \in TxsOf(R) \/ store.index[t] # "none"
      BY <2>1, <2>6
    <3>2. ListedIn(store, t) => ListedIn(store', t)
      BY <2>3 DEF ListedIn
    <3> QED
      BY <1>0, <2>1, <3>1, <3>2 DEF IndexedBut
  <2>7. IndexedBut(store', indexed')
    BY <2>5, <2>6 DEF IndexedBut
  <2> QED
    BY <1>1, <1>3, <2>2, <2>3, <2>7
<1>5. CASE Load /\ FillPublish
  <2>1. PICK k \in Boundaries(store.packets, Min({r.first : r \in chunk})) :
                  store' = PublishRows(store, chunk, k)
    BY <1>5 DEF FillPublish
  <2>2. loader = "fillIndex" /\ ~HotFinish /\ indexed = TxsOf(chunk) /\ indexed' = {}
        /\ chunk # {}
    BY <1>0, <1>5 DEF FillPublish, HotFinish, LoadPlace
  <2>3. \A t \in TxsOf(chunk) : store.index[t] = "filled" /\ ~ListedIn(store, t)
    BY <2>2 DEF ChunkApart
  <2>4. IndexedBut(store, TxsOf(chunk))
    BY <1>0, <2>2
  <2>5. IndexedBut(store', {}) /\ (Sorted(store.packets) => Sorted(store'.packets))
    BY <1>0, <2>1, <2>2, <2>3, <2>4, PublishIndexed
  <2> QED
    BY <1>1, <1>3, <2>2, <2>5
<1>6. CASE Load /\ (HotMerge \/ HotFails)
  <2>1. ~FillIndex /\ ~FillPublish /\ ~HotFinish /\ ~loadComplete
    BY <1>0, <1>6 DEF HotMerge, HotFails, FillIndex, FillPublish, HotFinish, LoadPlace, HotStates
  <2>2. PICK R \in SUBSET chunk : store' = AddRows(store, R) /\ RowsOK(R) /\ RowsTrue(R)
    BY <1>0, <1>6, HotAdds
  <2>3. IndexedBut(store', indexed)
    BY <1>0, <2>2, AddIndexed
  <2> QED
    BY <1>1, <1>2, <2>1, <2>3, CompleteIs
<1>7. CASE Load /\ HotFinish
  <2>0. store' = [store EXCEPT !.packets = SortByFirstSeen(@)]
    BY <1>7 DEF HotFinish
  <2>1. ~FillIndex /\ ~FillPublish
    BY <1>7 DEF FillIndex, FillPublish, HotFinish
  <2>2. store'.packets = SortByFirstSeen(store.packets) /\ store'.index = store.index
    BY <1>0, <2>0 DEF Store
  <2>3. store.packets \in Seq(Entry)
    BY <1>0 DEF StoreTrue, EntriesTrue
  <2>4. SameEntries(store'.packets, store.packets) /\ Sorted(store'.packets)
    BY <2>2, <2>3, SortIs
  <2>5. IndexedBut(store', indexed)
    BY <1>0, <2>2, <2>4, SameIndexed
  <2> QED
    BY <1>1, <1>2, <2>1, <2>4, <2>5
<1>9. ASSUME ~Load, IndexedBut(store', indexed), Sorted(store.packets) => Sorted(store'.packets)
      PROVE  ListedWell' /\ SortedWhenDone'
  <2>1. indexed' = indexed /\ loadComplete' = loadComplete
    BY <1>9, LoadFrame
  <2> QED
    BY <1>1, <1>9, <2>1 DEF SortedWhenDone
<1>10. CASE Poll /\ IngestNewFromDB
  <2>0. ~Load
    BY <1>10 DEF IngestNewFromDB, Load, pollVars
  <2>1. /\ store' = AddRows(store, newRows) /\ RowsOK(newRows) /\ RowsTrue(newRows)
        /\ \A r \in newRows : r.first = Now
    BY <1>0, <1>10, PollAdds
  <2>2. IndexedBut(store', indexed) /\ (Sorted(store.packets) => Sorted(store'.packets))
    BY <1>0, <2>1, AddIndexed
  <2> QED
    BY <1>9, <2>0, <2>2
<1>11. CASE Poll /\ IngestNewObservations /\ store' = AddObservations(store, newObs)
  <2>0. ~Load
    BY <1>11 DEF IngestNewObservations, Load, pollVars
  <2>1. store'.index = store.index /\ store'.packets = store.packets
    BY <1>0, <1>11, AddObservationsStore DEF IngestTypes
  <2>2. IndexedBut(store', indexed)
    BY <1>0, <2>1 DEF IndexedBut, Leads, ListedIn
  <2> QED
    BY <1>9, <2>0, <2>1, <2>2
<1>12. CASE RunEviction
  <2> DEFINE k == EvictCount(store)
  <2>0. indexed' = indexed /\ loadComplete' = loadComplete
    BY <1>12 DEF RunEviction, loadVars, signals
  <2>1. store' = EvictHead(store, k)
    BY <1>12 DEF RunEviction, EvictStale
  <2>2. k \in 0 .. Len(store.packets)
    BY <1>0, EvictCountIs DEF StoreTrue, EntriesTrue
  <2> HIDE DEF k
  <2>3. IndexedBut(store', indexed) /\ (Sorted(store.packets) => Sorted(store'.packets))
    BY <1>0, <2>1, <2>2, EvictIndexed
  <2> QED
    BY <1>1, <2>0, <2>3 DEF SortedWhenDone
<1>13. ASSUME store' = store, ~(Load /\ FillIndex), ~(Load /\ FillPublish),
              ~(Load /\ HotFinish)
       PROVE  ListedWell' /\ SortedWhenDone'
  <2>1. indexed' = indexed /\ loadComplete' = loadComplete
    BY <1>0, <1>13, IndexedIs, CompleteIs
  <2> QED
    BY <1>0, <1>1, <1>13, <2>1 DEF SortedWhenDone
<1> QED
  BY <1>4, <1>5, <1>6, <1>7, <1>10, <1>11, <1>12, <1>13, StoreCases

\* The observations that came with the indexed part of an unpublished chunk.
Uncounted == UNION {r.obs : r \in {q \in chunk : q.tx \in indexed}}

\* s.totalObs lacks only those.
Counted ==
    /\ Uncounted \subseteq HeldNow(store)
    /\ store.totalObs = Cardinality(HeldNow(store)) - Cardinality(Uncounted)

\* Only FillIndex and FillPublish change what is indexed and not yet counted.
LEMMA UncountedIs ==
    ASSUME LoadPlace, [Next]_vars, ~(Load /\ FillIndex), ~(Load /\ FillPublish)
    PROVE  Uncounted' = Uncounted
<1>1. indexed' = indexed
  BY IndexedIs
<1>2. CASE indexed = {}
  BY <1>1, <1>2 DEF Uncounted
<1>3. CASE indexed # {}
  <2>1. loader = "fillIndex"
    BY <1>3 DEF LoadPlace
  <2>2. Load => FillIndex \/ FillPublish
    BY <2>1 DEF Load, LoaderNext, BeginLoad, HotCount, HotQuery, HotMerge, HotFails, HotFinish,
         FillBegin, FillQuery, FillFails, ReheardQuery, ReheardLoad,
         ReheardMissing, ReheardFails, FillMeasure, Finish,
         VerifyNext, VerifyEdge, VerifyCount, VerifyCountFails, VerifyCompare, Publish, At
  <2>3. chunk' = chunk
    BY <2>2, LoadFrame
  <2> QED
    BY <1>1, <2>3 DEF Uncounted
<1> QED
  BY <1>2, <1>3

\* Nothing is held that is not in the table, so a new row changes nothing.
LEMMA HeldNowFrame ==
    ASSUME DBTypes, Store(store), TablesGrow, HeldTrue(store.held), store' = store,
           Len(obs') \in Nat, obs' \in Seq(Tx)
    PROVE  HeldNow(store)' = HeldNow(store)
<1>0. /\ Len(obs) \in Nat /\ Len(obs) <= Len(obs')
      /\ \A o \in 1 .. Len(obs) : obs'[o] = obs[o]
      /\ \A t \in Tx, m \in Maker : store.held[t][m] \subseteq 1 .. Len(obs)
      /\ \A t \in Tx : store.index[t] # "none" => store.index[t] \in Maker
  BY DEF DBTypes, TablesGrow, HeldTrue, ObsOf, Store
<1>1. HeldNow(store)' = {o \in 1 .. Len(obs') : /\ store.index[obs'[o]] # "none"
                                                /\ o \in store.held[obs'[o]][store.index[obs'[o]]]}
  BY DEF HeldNow
<1>2. ASSUME NEW o \in 1 .. Len(obs'), store.index[obs'[o]] # "none",
             o \in store.held[obs'[o]][store.index[obs'[o]]]
      PROVE  o \in 1 .. Len(obs)
  <2>1. obs'[o] \in Tx
    BY ElementOfSeq
  <2> QED
    BY <1>0, <1>2, <2>1
<1>3. \A o \in 1 .. Len(obs) : o \in 1 .. Len(obs')
  BY <1>0
<1> QED
  BY <1>0, <1>1, <1>2, <1>3 DEF HeldNow

\* Counted is preserved: the running total follows the observations held.
LEMMA CountedStep ==
    ASSUME CursorInv, DataTrue, PollPlace, NotReplayed, ChunkApart, ListedWell, Counted,
           [Next]_vars
    PROVE  Counted'
<1>0. /\ IngestTypes /\ DBTypes /\ Store(store) /\ StoreTrue(store) /\ RowsOK(chunk)
      /\ RowsTrue(chunk) /\ RowsInHand /\ LoadPlace /\ IndexedBut(store, indexed)
      /\ HeldTrue(store.held) /\ store.totalObs \in Int /\ TablesGrow /\ Len(obs) \in Nat
      /\ obs' \in Seq(Tx) /\ Len(obs') \in Nat
      /\ \A r \in chunk : r.tx \in Tx
  <2>1. /\ IngestTypes /\ DBTypes /\ Store(store) /\ StoreTrue(store) /\ RowsOK(chunk)
        /\ RowsTrue(chunk) /\ RowsInHand /\ LoadPlace /\ TablesGrow /\ DBTypes'
    BY Basics DEF DataTrue
  <2>2. Len(txs) \in Nat /\ Len(txs) <= MaxTx /\ MaxTx \in Nat /\ Len(obs) \in Nat
        /\ obs' \in Seq(Tx) /\ Len(obs') \in Nat
    BY <2>1, DBAssumption DEF DBTypes
  <2>3. \A r \in chunk : r.tx \in Tx
    BY <2>1, <2>2 DEF Tx, RowsOK
  <2> QED
    BY <2>1, <2>2, <2>3 DEF StoreTrue, ListedWell
<1>1. ASSUME HeldNow(store)' = HeldNow(store), store'.totalObs = store.totalObs,
             ~(Load /\ FillIndex), ~(Load /\ FillPublish)
      PROVE  Counted'
  <2>1. Uncounted' = Uncounted
    BY <1>0, <1>1, UncountedIs
  <2> QED
    BY <1>1, <2>1 DEF Counted
<1>2. UNCHANGED obs => HeldNow(store)' = HeldNow(store')
  BY DEF HeldNow
<1>3. ASSUME UNCHANGED obs, HeldNow(store) \subseteq HeldNow(store'),
             store'.totalObs - Cardinality(HeldNow(store'))
                = store.totalObs - Cardinality(HeldNow(store)),
             store'.totalObs \in Int,
             ~(Load /\ FillIndex), ~(Load /\ FillPublish)
      PROVE  Counted'
  <2>1. Uncounted' = Uncounted /\ HeldNow(store)' = HeldNow(store')
    BY <1>0, <1>2, <1>3, UncountedIs
  <2>2. /\ HeldNow(store) \in SUBSET (1 .. Len(obs)) /\ HeldNow(store') \in SUBSET (1 .. Len(obs))
        /\ Uncounted \in SUBSET (1 .. Len(obs))
    BY DEF HeldNow, Counted
  <2>3. Cardinality(HeldNow(store)) \in Nat /\ Cardinality(HeldNow(store')) \in Nat
        /\ Cardinality(Uncounted) \in Nat
    <3>1. \A S \in SUBSET (1 .. Len(obs)) : Cardinality(S) \in Nat
      <4> TAKE S \in SUBSET (1 .. Len(obs))
      <4>1. IsFiniteSet(1 .. Len(obs))
        BY <1>0, UpToFinite
      <4> QED
        BY <4>1, FS_Subset, FS_CardinalityType
    <3> QED
      BY <2>2, <3>1
  <2> DEFINE h == Cardinality(HeldNow(store))
             g == Cardinality(HeldNow(store'))
             u == Cardinality(Uncounted)
  <2>4. /\ store'.totalObs - g = store.totalObs - h /\ store.totalObs = h - u
        /\ h \in Nat /\ g \in Nat /\ u \in Nat
    BY <1>3, <2>3 DEF Counted
  <2>5. store'.totalObs = g - u
    <3> HIDE DEF h, g, u
    <3> QED
      BY <1>0, <1>3, <2>4
  <2>6. Uncounted \subseteq HeldNow(store')
    BY <1>3 DEF Counted
  <2> QED
    BY <2>1, <2>5, <2>6 DEF Counted
<1>4. CASE Load /\ FillIndex
  <2>1. PICK R \in SUBSET {r \in chunk : r.tx \notin indexed} :
           /\ store' = IndexRows(store, R) /\ RowsOK(R)
           /\ indexed' = indexed \union TxsOf(R) /\ TxsOf(R) \subseteq TxsOf(chunk) \ indexed
    BY <1>0, <1>4, FillIndexIs
  <2>2. chunk' = chunk /\ UNCHANGED obs /\ loader = "fillIndex"
    BY <1>4 DEF FillIndex, db
  <2> DEFINE all == UNION {r.obs : r \in R}
  <2>3. \A r, q \in R : r.tx = q.tx => r = q
    BY <1>0 DEF RowsTrue
  <2>4. \A r \in R : store.index[r.tx] = "none"
    BY <2>1, <2>2 DEF ChunkApart, InMemory, TxsOf
  <2>5. store'.totalObs = store.totalObs
    BY <1>0, <2>1, <2>3, IndexRowsIs
  <2>6. HeldNow(store) \cap all = {} /\ HeldNow(store') = HeldNow(store) \union all
    BY <1>0, <2>1, <2>3, <2>4, IndexRowsIs
  <2>7. Uncounted' = Uncounted \union all
    <3>1. {q \in chunk : q.tx \in indexed \union TxsOf(R)} = {q \in chunk : q.tx \in indexed} \union R
      <4>1. ASSUME NEW q \in chunk, q.tx \in TxsOf(R) PROVE q \in R
        <5>1. PICK r \in R : r.tx = q.tx
          BY <4>1 DEF TxsOf
        <5> QED
          BY <1>0, <5>1 DEF RowsTrue
      <4>2. \A q \in R : q \in chunk /\ q.tx \in TxsOf(R)
        BY DEF TxsOf
      <4> QED
        BY <4>1, <4>2
    <3>2. Uncounted' = UNION {r.obs : r \in {q \in chunk : q.tx \in indexed \union TxsOf(R)}}
      BY <2>1, <2>2 DEF Uncounted
    <3>3. Uncounted' = UNION {r.obs : r \in {q \in chunk : q.tx \in indexed} \union R}
      BY <3>1, <3>2
    <3> QED
      BY <3>3 DEF Uncounted
  <2>8. all \in SUBSET (1 .. Len(obs)) /\ HeldNow(store) \in SUBSET (1 .. Len(obs))
    BY <2>1 DEF RowsOK, ObsOf, HeldNow
  <2> HIDE DEF all
  <2>9. /\ Cardinality(HeldNow(store) \union all) = Cardinality(HeldNow(store)) + Cardinality(all)
        /\ Cardinality(HeldNow(store)) \in Nat /\ Cardinality(all) \in Nat
    <3> DEFINE H == HeldNow(store)
               n == Len(obs)
    <3>1. n \in Nat /\ H \in SUBSET (1 .. n) /\ all \in SUBSET (1 .. n) /\ H \cap all = {}
      BY <1>0, <2>6, <2>8
    <3> HIDE DEF H, n
    <3>2. /\ Cardinality(H \union all) = Cardinality(H) + Cardinality(all)
          /\ Cardinality(H) \in Nat /\ Cardinality(all) \in Nat
      BY <3>1, CardAdd
    <3> QED
      BY <3>2 DEF H
  <2>10. Uncounted \subseteq HeldNow(store) /\ Uncounted \in SUBSET (1 .. Len(obs))
         /\ Uncounted \cap all = {}
    BY <2>6, <2>8 DEF Counted
  <2>11. /\ Cardinality(Uncounted \union all) = Cardinality(Uncounted) + Cardinality(all)
         /\ Cardinality(Uncounted) \in Nat
    BY <1>0, <2>8, <2>10, CardAdd, ZenonT(60)
  <2>12. /\ Uncounted' \subseteq HeldNow(store')
         /\ store'.totalObs = Cardinality(HeldNow(store')) - Cardinality(Uncounted')
    <3>1. store.totalObs = Cardinality(HeldNow(store)) - Cardinality(Uncounted)
      BY DEF Counted
    <3>2. store'.totalObs = (Cardinality(HeldNow(store)) + Cardinality(all))
                            - (Cardinality(Uncounted) + Cardinality(all))
      BY <2>5, <2>9, <2>11, <3>1
    <3> QED
      BY <2>6, <2>7, <2>9, <2>10, <2>11, <3>2
  <2> QED
    BY <1>2, <2>2, <2>12 DEF Counted
<1>5. CASE Load /\ FillPublish
  <2>1. PICK k \in Boundaries(store.packets, Min({r.first : r \in chunk})) :
                  store' = PublishRows(store, chunk, k)
    BY <1>5 DEF FillPublish
  <2>2. indexed = TxsOf(chunk) /\ indexed' = {} /\ UNCHANGED obs
    BY <1>5 DEF FillPublish, db
  <2> DEFINE all == UNION {r.obs : r \in chunk}
  <2>3. Uncounted = all /\ Uncounted' = {}
    BY <2>2 DEF Uncounted, TxsOf
  <2>4. store'.totalObs = store.totalObs + Cardinality(all)
    BY <1>0, <2>1, PublishCounts
  <2>5. store'.index = store.index /\ store'.held = store.held
    BY <1>0, <2>1, PublishRowsStore
  <2>6. HeldNow(store') = HeldNow(store)
    BY <2>5 DEF HeldNow
  <2> HIDE DEF all
  <2>7. HeldNow(store) \in SUBSET (1 .. Len(obs)) /\ all \in SUBSET (1 .. Len(obs))
    BY <2>3 DEF HeldNow, Counted
  <2>8. IsFiniteSet(1 .. Len(obs))
    BY <1>0, UpToFinite
  <2>9. Cardinality(HeldNow(store)) \in Nat /\ Cardinality(all) \in Nat /\ Cardinality({}) = 0
    BY <2>7, <2>8, FS_Subset, FS_CardinalityType, FS_EmptySet
  <2>10. store.totalObs = Cardinality(HeldNow(store)) - Cardinality(all)
    BY <2>3 DEF Counted
  <2>11. store'.totalObs = Cardinality(HeldNow(store')) - Cardinality(Uncounted')
    BY <2>3, <2>4, <2>6, <2>9, <2>10
  <2> QED
    BY <1>2, <2>2, <2>3, <2>11 DEF Counted
<1>6. CASE Load /\ (HotMerge \/ HotFails)
  <2>1. ~FillIndex /\ ~FillPublish /\ UNCHANGED obs
    BY <1>6 DEF HotMerge, HotFails, FillIndex, FillPublish, db
  <2>2. PICK R \in SUBSET chunk : store' = AddRows(store, R) /\ RowsOK(R)
    BY <1>0, <1>6, HotAdds
  <2>3. /\ HeldNow(store) \subseteq HeldNow(store') /\ store'.totalObs \in Int
        /\ store'.totalObs - Cardinality(HeldNow(store'))
              = store.totalObs - Cardinality(HeldNow(store))
    BY <1>0, <2>2, AddRowsIs
  <2> QED
    BY <1>3, <2>1, <2>3
<1>7. CASE Load /\ HotFinish
  <2>0. ~FillIndex /\ ~FillPublish /\ UNCHANGED obs
        /\ store' = [store EXCEPT !.packets = SortByFirstSeen(@)]
    BY <1>7 DEF HotFinish, FillIndex, FillPublish, db
  <2>1. store'.index = store.index /\ store'.held = store.held /\ store'.totalObs = store.totalObs
    BY <1>0, <2>0 DEF Store
  <2>2. HeldNow(store') = HeldNow(store)
    BY <2>1 DEF HeldNow
  <2> QED
    BY <1>1, <1>2, <2>0, <2>1, <2>2
<1>8. CASE Poll /\ IngestNewFromDB
  <2>0. ~Load /\ UNCHANGED obs
    BY <1>8 DEF IngestNewFromDB, Load, pollVars, db
  <2>1. store' = AddRows(store, newRows) /\ RowsOK(newRows)
    BY <1>0, <1>8, PollAdds
  <2>2. /\ HeldNow(store) \subseteq HeldNow(store') /\ store'.totalObs \in Int
        /\ store'.totalObs - Cardinality(HeldNow(store'))
              = store.totalObs - Cardinality(HeldNow(store))
    BY <1>0, <2>1, AddRowsIs
  <2> QED
    BY <1>3, <2>0, <2>2
<1>9. CASE Poll /\ IngestNewObservations /\ store' = AddObservations(store, newObs)
  <2>0. ~Load /\ UNCHANGED obs /\ newObs \subseteq 1 .. Len(obs)
    BY <1>0, <1>9 DEF IngestNewObservations, Load, pollVars, db, IngestTypes
  <2>1. /\ HeldNow(store) \subseteq HeldNow(store') /\ store'.totalObs \in Int
        /\ store'.totalObs - Cardinality(HeldNow(store'))
              = store.totalObs - Cardinality(HeldNow(store))
    BY <1>0, <1>9, <2>0, AddObservationsIs
  <2> QED
    BY <1>3, <2>0, <2>1
<1>10. CASE RunEviction
  <2> DEFINE k == EvictCount(store)
  <2>0. indexed' = indexed /\ chunk' = chunk /\ UNCHANGED obs
    BY <1>10 DEF RunEviction, loadVars, db
  <2>1. store' = EvictHead(store, k)
    BY <1>10 DEF RunEviction, EvictStale
  <2>2. store.packets \in Seq(Entry) /\ k \in 0 .. Len(store.packets)
    BY <1>0, EvictCountIs DEF StoreTrue, EntriesTrue
  <2> HIDE DEF k
  <2>3. Leads(store)
    BY <1>0 DEF IndexedBut
  <2>4. /\ HeldNow(store') \subseteq HeldNow(store) /\ store'.totalObs \in Int
        /\ \A o \in HeldNow(store) \ HeldNow(store') : \E i \in 1 .. k : store.packets[i].tx = obs[o]
        /\ store'.totalObs - Cardinality(HeldNow(store'))
              = store.totalObs - Cardinality(HeldNow(store))
    BY <1>0, <2>1, <2>2, <2>3, EvictHeadIs
  <2>5. Uncounted' = Uncounted
    BY <2>0 DEF Uncounted
  <2>6. ASSUME NEW o \in Uncounted, o \notin HeldNow(store') PROVE FALSE
    <3>1. PICK r \in chunk : r.tx \in indexed /\ o \in r.obs
      BY DEF Uncounted
    <3>2. obs[o] = r.tx
      BY <1>0, <3>1 DEF RowsOK, ObsOf
    <3>3. loader = "fillIndex"
      BY <1>0, <3>1 DEF LoadPlace
    <3>4. ~ListedIn(store, obs[o])
      BY <3>1, <3>2, <3>3 DEF ChunkApart
    <3>5. PICK i \in 1 .. k : store.packets[i].tx = obs[o]
      BY <2>4, <2>6 DEF Counted
    <3>6. i \in 1 .. Len(store.packets)
      <4>1. Len(store.packets) \in Nat
        BY <2>2
      <4> QED
        BY <2>2, <4>1
    <3> QED
      BY <3>4, <3>5, <3>6 DEF ListedIn
  <2>7. /\ HeldNow(store) \in SUBSET (1 .. Len(obs)) /\ HeldNow(store') \in SUBSET (1 .. Len(obs))
        /\ Uncounted \in SUBSET (1 .. Len(obs))
    BY DEF HeldNow, Counted
  <2>8. Cardinality(HeldNow(store)) \in Nat /\ Cardinality(HeldNow(store')) \in Nat
        /\ Cardinality(Uncounted) \in Nat
    <3>1. IsFiniteSet(1 .. Len(obs))
      BY <1>0, UpToFinite
    <3> QED
      BY <2>7, <3>1, FS_Subset, FS_CardinalityType
  <2> DEFINE h == Cardinality(HeldNow(store))
             g == Cardinality(HeldNow(store'))
             u == Cardinality(Uncounted)
  <2>9. /\ store'.totalObs - g = store.totalObs - h /\ store.totalObs = h - u
        /\ h \in Nat /\ g \in Nat /\ u \in Nat
    BY <2>4, <2>8 DEF Counted
  <2>10. store'.totalObs = g - u
    <3> HIDE DEF h, g, u
    <3> QED
      BY <1>0, <2>4, <2>9
  <2> QED
    BY <1>2, <2>0, <2>5, <2>6, <2>10 DEF Counted
<1>11. ASSUME store' = store, ~(Load /\ FillIndex), ~(Load /\ FillPublish) PROVE Counted'
  <2>1. HeldNow(store)' = HeldNow(store)
    BY <1>0, <1>11, HeldNowFrame
  <2> QED
    BY <1>1, <1>11, <2>1
<1> QED
  BY <1>4, <1>5, <1>6, <1>7, <1>8, <1>9, <1>10, <1>11, StoreCases

\* The slice, the index, the counters and what is in hand, as long as nothing
\* was replayed or evicted ahead of the poller.
Sound ==
    /\ MaxCovered /\ ChunkApart /\ HeardApart /\ WindowsApart
    /\ ListedWell /\ SortedWhenDone /\ Counted

\* The inductive invariant of the store: its last conjunct needs a quiet run.
StoreInv == CursorInv /\ DataTrue /\ PollPlace /\ (Quiet => Sound)

\* The store is sound before the load begins.
LEMMA SoundInit ==
    ASSUME Init
    PROVE  PollPlace /\ Sound
<1>1. /\ store = EmptyStore /\ loader = "begin" /\ poller = "unstarted" /\ chunk = {}
      /\ indexed = {} /\ evicted = {} /\ startID = 0 /\ lastID = 0 /\ loadComplete = FALSE
  BY DEF Init, LoadInit, PollInit
<1>2. /\ \A t \in Tx : store.index[t] = "none"
      /\ \A t \in Tx, m \in Maker : store.held[t][m] = {}
      /\ store.packets = << >> /\ store.totalObs = 0 /\ Len(store.packets) = 0
  BY <1>1 DEF EmptyStore
<1>3. PollPlace
  BY <1>1 DEF PollPlace
<1>4. MaxCovered /\ ChunkApart /\ HeardApart
  BY <1>1 DEF MaxCovered, ChunkApart, HeardApart, ReheardStates
<1>5. WindowsApart
  BY <1>1, <1>2 DEF WindowsApart, InWindows, FillStates, InMemory
<1>6. ListedWell
  BY <1>1, <1>2 DEF ListedWell, IndexedBut, Leads, ListedIn
<1>7. SortedWhenDone
  BY <1>1 DEF SortedWhenDone
<1>8. Counted
  <2>1. Uncounted = {}
    BY <1>1 DEF Uncounted
  <2>2. HeldNow(store) = {}
    <3>1. DBTypes
      BY InitTypes DEF IngestTypes
    <3>2. ASSUME NEW o \in 1 .. Len(obs) PROVE store.index[obs[o]] = "none"
      <4>1. obs[o] \in Tx
        BY <3>1, ElementOfSeq DEF DBTypes
      <4> QED
        BY <1>2, <4>1
    <3> QED
      BY <3>2 DEF HeldNow
  <2>3. Cardinality({}) = 0
    BY FS_EmptySet
  <2> QED
    BY <1>2, <2>1, <2>2, <2>3 DEF Counted
<1> QED
  BY <1>3, <1>4, <1>5, <1>6, <1>7, <1>8 DEF Sound

\* A step from a quiet state to a quiet state keeps the store sound.
LEMMA SoundStep ==
    ASSUME CursorInv, DataTrue, PollPlace, Quiet, Quiet', Sound, [Next]_vars
    PROVE  Sound'
<1>1. /\ MaxCovered /\ ChunkApart /\ HeardApart /\ WindowsApart /\ ListedWell
      /\ SortedWhenDone /\ Counted /\ IndexedBut(store, indexed)
      /\ NotReplayed /\ NotReplayed'
  BY DEF Sound, Quiet, ListedWell
<1>2. MaxCovered'
  BY <1>1, MaxCoveredStep
<1>3. ChunkApart'
  BY <1>1, ChunkApartStep
<1>4. HeardApart'
  BY <1>1, HeardApartStep
<1>5. WindowsApart'
  BY <1>1, WindowsApartStep
<1>6. ListedWell' /\ SortedWhenDone'
  BY <1>1, IndexedStep
<1>7. Counted'
  BY <1>1, CountedStep
<1> QED
  BY <1>2, <1>3, <1>4, <1>5, <1>6, <1>7 DEF Sound

\* For any tables and limits, when no upload is late, StoreInv holds throughout
\* the load, the polling and the eviction of the store.
THEOREM StoreInvariant ==
    ASSUME RxTimes \subseteq {Now}
    PROVE  Spec => []StoreInv
<1>1. Init => DataTrue /\ PollPlace /\ (Quiet => Sound)
  BY DataInit, SoundInit
<1>2. ASSUME CursorInv, CursorInv', DataTrue /\ PollPlace /\ (Quiet => Sound), [Next]_vars
      PROVE  (DataTrue /\ PollPlace /\ (Quiet => Sound))'
  <2>1. DataTrue'
    BY <1>2, DataStep
  <2>2. PollPlace'
    BY <1>2, PollPlaceStep DEF CursorInv, DataTrue
  <2>3. ASSUME Quiet' PROVE Sound'
    <3>1. Quiet
      BY <1>2, <2>3, QuietBack DEF CursorInv, DataTrue
    <3> QED
      BY <1>2, <2>3, <3>1, SoundStep
  <2> QED
    BY <2>1, <2>2, <2>3
<1> QED
  BY <1>1, <1>2, CursorInvariant, PTL DEF Spec, StoreInv

\* What is held of the indexed, unpublished transmissions.
LEMMA UnlistedIs ==
    ASSUME DBTypes, Store(store), HeldTrue(store.held), NEW I \in SUBSET Tx,
           \A t \in I : store.index[t] = "filled"
    PROVE  Cardinality({p \in I \X Obs : p[2] \in store.held[p[1]]["filled"]})
              = Cardinality({o \in HeldNow(store) : obs[o] \in I})
<1> DEFINE P == {p \in I \X Obs : p[2] \in store.held[p[1]]["filled"]}
           Q == {o \in HeldNow(store) : obs[o] \in I}
           f == [p \in P |-> p[2]]
<1>0. /\ Len(obs) \in Nat /\ Len(obs) <= MaxObs /\ MaxTx \in Nat /\ MaxObs \in Nat
      /\ 1 .. Len(obs) \subseteq Obs /\ "filled" \in Maker
  BY DBAssumption DEF DBTypes, Obs, Maker
<1>1. IsFiniteSet(P)
  <2>1. IsFiniteSet(Tx) /\ IsFiniteSet(Obs)
    BY <1>0, UpToFinite DEF Tx, Obs
  <2>2. IsFiniteSet(I \X Obs)
    BY <2>1, FS_Subset, FS_Product
  <2>3. P \in SUBSET (I \X Obs)
    OBVIOUS
  <2> HIDE DEF P
  <2> QED
    BY <2>2, <2>3, FS_Subset
<1>2. ASSUME NEW p \in P
      PROVE  p[2] \in Q /\ obs[p[2]] = p[1] /\ p = <<p[1], p[2]>>
  <2>1. p[1] \in I /\ p[1] \in Tx /\ p[2] \in store.held[p[1]]["filled"] /\ p = <<p[1], p[2]>>
    OBVIOUS
  <2>2. p[2] \in ObsOf(p[1])
    BY <1>0, <2>1 DEF HeldTrue
  <2>3. p[2] \in 1 .. Len(obs) /\ obs[p[2]] = p[1]
    BY <2>2 DEF ObsOf
  <2>4. store.index[obs[p[2]]] = "filled" /\ p[2] \in store.held[obs[p[2]]]["filled"]
    BY <2>1, <2>3
  <2>5. p[2] \in HeldNow(store)
    BY <2>3, <2>4 DEF HeldNow
  <2> QED
    BY <2>1, <2>3, <2>5
<1>3. ASSUME NEW o \in Q PROVE \E p \in P : p[2] = o
  <2>1. o \in 1 .. Len(obs) /\ obs[o] \in I /\ o \in store.held[obs[o]]["filled"]
    BY DEF HeldNow
  <2>2. <<obs[o], o>> \in P
    BY <1>0, <2>1
  <2> QED
    BY <2>2
<1>4. \A p \in P : f[p] \in Q /\ f[p] = p[2]
  BY <1>2
<1> HIDE DEF P, Q
<1>5. f \in Surjection(P, Q)
  <2>1. f \in [P -> Q]
    BY <1>4
  <2>2. \A o \in Q : \E p \in P : f[p] = o
    BY <1>3, <1>4
  <2> HIDE DEF f
  <2> QED
    BY <2>1, <2>2 DEF Surjection
<1>6. f \in Injection(P, Q)
  <2>1. f \in [P -> Q]
    BY <1>4
  <2>2. ASSUME NEW p \in P, NEW q \in P, f[p] = f[q] PROVE p = q
    <3>1. p[2] = q[2]
      BY <1>4, <2>2
    <3> QED
      BY <1>2, <3>1
  <2> HIDE DEF f
  <2> QED
    BY <2>1, <2>2 DEF Injection, IsInjective
<1>7. Cardinality(P) = Cardinality(Q)
  <2> HIDE DEF f
  <2> QED
    BY <1>1, <1>5, <1>6, FS_Surjection
<1> QED
  BY <1>7 DEF P, Q

\* CountersAgree follows from the inductive invariant.
LEMMA CountersFollow ==
    ASSUME DBTypes, Store(store), StoreTrue(store), LoadPlace, indexed \subseteq Tx,
           ChunkApart, ListedWell, Counted
    PROVE  CountersAgree
<1> DEFINE listed == HeldBy(store, DOMAIN store.packets)
           unlisted == {p \in indexed \X Obs : p[2] \in store.held[p[1]]["filled"]}
           L == {o \in HeldNow(store) : \E i \in 1 .. Len(store.packets) :
                                           store.packets[i].tx = obs[o]}
           U == {o \in HeldNow(store) : obs[o] \in indexed}
           H == HeldNow(store)
<1>0. /\ store.packets \in Seq(Entry) /\ HeldTrue(store.held) /\ Len(obs) \in Nat
      /\ IndexedBut(store, indexed) /\ Leads(store)
      /\ \A o \in 1 .. Len(obs) : obs[o] \in Tx
  <2>1. obs \in Seq(Tx) /\ Len(obs) \in Nat
    BY DEF DBTypes
  <2>2. \A o \in 1 .. Len(obs) : obs[o] \in Tx
    BY <2>1, ElementOfSeq
  <2> QED
    BY <2>1, <2>2 DEF StoreTrue, EntriesTrue, ListedWell, IndexedBut
<1>1. DOMAIN store.packets = 1 .. Len(store.packets)
  BY <1>0, LenProperties
<1>2. listed = Cardinality(L)
  <2>1. 1 .. Len(store.packets) \in SUBSET (1 .. Len(store.packets))
    OBVIOUS
  <2> QED
    BY <1>0, <1>1, <2>1, HeldByIs
<1>3. \A t \in indexed : store.index[t] = "filled" /\ ~ListedIn(store, t)
  BY DEF ChunkApart, LoadPlace
<1>4. Cardinality(unlisted) = Cardinality(U)
  <2>1. indexed \in SUBSET Tx /\ \A t \in indexed : store.index[t] = "filled"
    BY <1>3
  <2> QED
    BY <1>0, <2>1, UnlistedIs
<1>5. H = L \union U /\ L \cap U = {}
  <2>1. ASSUME NEW o \in H PROVE o \in L \/ o \in U
    <3>1. obs[o] \in Tx /\ store.index[obs[o]] # "none"
      BY <1>0 DEF HeldNow
    <3>2. ListedIn(store, obs[o]) \/ obs[o] \in indexed
      BY <1>0, <3>1 DEF IndexedBut
    <3> QED
      BY <3>2 DEF ListedIn
  <2>2. ASSUME NEW o \in L, o \in U PROVE FALSE
    BY <1>3, <2>2 DEF ListedIn
  <2> QED
    BY <2>1, <2>2
<1>6. L \in SUBSET (1 .. Len(obs)) /\ U \in SUBSET (1 .. Len(obs))
  BY DEF HeldNow
<1>7. Cardinality(H) = Cardinality(L) + Cardinality(U)
  <2> DEFINE n == Len(obs)
  <2>1. n \in Nat /\ L \in SUBSET (1 .. n) /\ U \in SUBSET (1 .. n) /\ L \cap U = {}
        /\ H = L \union U
    BY <1>0, <1>5, <1>6
  <2> HIDE DEF n, L, U, H
  <2> QED
    BY <2>1, CardAdd
<1>8. store.totalObs = Cardinality(H) - Cardinality(Uncounted)
  BY DEF Counted
<1>10. Cardinality(L) \in Nat /\ Cardinality(U) \in Nat /\ Cardinality(Uncounted) \in Nat
  <2>1. IsFiniteSet(1 .. Len(obs))
    BY <1>0, UpToFinite
  <2>2. Uncounted \in SUBSET (1 .. Len(obs))
    BY DEF Counted, HeldNow
  <2> HIDE DEF L, U
  <2> QED
    BY <1>6, <2>1, <2>2, FS_Subset, FS_CardinalityType
<1>9. store.totalObs = listed + Cardinality(unlisted) - Cardinality(Uncounted)
  <2>1. store.totalObs = Cardinality(H) - Cardinality(Uncounted)
        /\ Cardinality(H) = Cardinality(L) + Cardinality(U)
        /\ listed = Cardinality(L) /\ Cardinality(unlisted) = Cardinality(U)
    BY <1>2, <1>4, <1>7, <1>8
  <2> DEFINE u == Cardinality(Uncounted)
             v == Cardinality(unlisted)
  <2> HIDE DEF L, U, H, listed, unlisted
  <2>2. store.totalObs = Cardinality(H) - u
        /\ Cardinality(H) = listed + v
    BY <2>1
  <2> HIDE DEF u, v
  <2>3. store.totalObs = listed + v - u
    <3>1. listed \in Nat /\ v \in Nat /\ u \in Nat
      BY <1>10, <2>1 DEF u, v
    <3> QED
      BY <2>2, <3>1
  <2> QED
    BY <2>3 DEF u, v
<1> QED
  BY <1>9 DEF CountersAgree, Uncounted

\* What the invariant says of the store.
LEMMA StoreIsSound ==
    ASSUME StoreInv, Quiet
    PROVE  PacketsIndexed /\ CountersAgree /\ PacketsSorted
<1>1. /\ IngestTypes /\ DBTypes /\ Store(store) /\ StoreTrue(store) /\ LoadPlace /\ RowsOK(chunk)
      /\ Sound
  BY DEF StoreInv, CursorInv, IngestTypes, DataTrue, StoreTrue
<1>2. indexed \subseteq Tx
  <2>1. Len(txs) \in Nat /\ Len(txs) <= MaxTx /\ MaxTx \in Nat
    BY <1>1, DBAssumption DEF DBTypes
  <2> QED
    BY <1>1, <2>1 DEF LoadPlace, RowsOK, TxsOf, Tx
<1>3. DOMAIN store.packets = 1 .. Len(store.packets)
  BY <1>1, LenProperties DEF StoreTrue, EntriesTrue
<1>4. PacketsIndexed
  BY <1>1, <1>3 DEF Sound, ListedWell, IndexedBut, Leads, ListedIn, PacketsIndexed, InMemory
<1>5. PacketsSorted
  BY <1>1, <1>3 DEF Sound, SortedWhenDone, Sorted, PacketsSorted
<1>6. CountersAgree
  BY <1>1, <1>2, CountersFollow DEF Sound
<1> QED
  BY <1>4, <1>5, <1>6

\* For every history, retention window, chunk and batch size, limit, memory
\* bound and number of SQLite errors: the slice, the index and the counters
\* agree in every state, unless the poller replays the history or takes a row
\* that was evicted ahead of it.  No buffered upload arrives meanwhile.
THEOREM ConsistentUnlessReplayedHolds ==
    ASSUME RxTimes \subseteq {Now}
    PROVE  Spec => []ConsistentUnlessReplayed
<1>1. StoreInv => ConsistentUnlessReplayed
  BY StoreIsSound DEF ConsistentUnlessReplayed, Quiet
<1> QED
  BY <1>1, StoreInvariant, PTL

\* Without SQLite errors the poller starts above the history, and without a
\* memory bound only the history grows old enough to be evicted.
NothingAhead ==
    /\ faults = 0 => NotReplayed
    /\ MaxMemory = 0 => \A t \in evicted : t <= InitTx

\* NothingAhead is preserved by every step.
LEMMA NothingAheadStep ==
    ASSUME CursorInv, DataTrue, PollPlace, NothingAhead, [Next]_vars
    PROVE  NothingAhead'
<1>0. /\ IngestTypes /\ DBTypes /\ Store(store) /\ StoreTrue(store) /\ TimesFixed
      /\ InitTx \in Nat /\ Len(txs) \in Nat /\ Floor \in Nat /\ Now \in Nat /\ Floor <= Now
      /\ faults \in Nat
  <2>1. /\ IngestTypes /\ DBTypes /\ Store(store) /\ StoreTrue(store) /\ TimesFixed /\ faults \in Nat
    BY DEF CursorInv, IngestTypes, DataTrue, StoreTrue
  <2> QED
    BY <2>1, DBAssumption, StoreAssumption, HistoryAssumption DEF DBTypes, Stamp
<1>1. ASSUME faults' = 0 PROVE NotReplayed'
  <2>1. faults = 0 /\ faults' = faults
    BY <1>0, <1>1, FaultsStep
  <2>2. CASE StartPoller(firstChunkReady)
    <3>1. PICK dbTx \in {Len(txs), 0}, dbObs \in {Len(obs), 0} :
             /\ IF dbTx = Len(txs) /\ dbObs = Len(obs) THEN UNCHANGED faults ELSE Fault
             /\ lastID' = Max({dbTx, store.maxTxID})
      BY <2>2 DEF StartPoller
    <3>2. dbTx = Len(txs)
      BY <1>0, <2>1, <3>1 DEF Fault
    <3> DEFINE S == {Len(txs), store.maxTxID}
    <3>3. S \in SUBSET (0 .. Len(txs)) /\ S # {} /\ Len(txs) \in S
      BY <1>0 DEF Store
    <3>4. Max(S) \in S /\ Len(txs) <= Max(S)
      <4> HIDE DEF S
      <4> QED
        BY <1>0, <3>3, MaxIs
    <3>5. startID' = Max(S)
      BY <2>2, <3>1, <3>2 DEF StartPoller
    <3>6. Max(S) \in Nat /\ InitTx <= Len(txs)
      BY <1>0, <3>3, <3>4 DEF TimesFixed
    <3>7. startID' >= InitTx
      BY <1>0, <3>4, <3>5, <3>6
    <3> QED
      BY <3>7 DEF NotReplayed
  <2>3. CASE startID' = startID /\ (poller # "unstarted" <=> poller' # "unstarted")
    BY <2>1, <2>3 DEF NothingAhead, NotReplayed
  <2> QED
    BY <2>2, <2>3, StartIs
<1>2. ASSUME MaxMemory = 0, NEW t \in evicted' PROVE t <= InitTx
  <2>1. CASE t \in evicted
    BY <1>2, <2>1 DEF NothingAhead
  <2>2. CASE t \notin evicted
    <3>1. RunEviction
      <4>1. Load => evicted' = evicted
        BY <1>0, LoadRows
      <4>2. Poll => evicted' = evicted
        BY PollStoreIs
      <4> QED
        BY <1>2, <2>2, <4>1, <4>2 DEF Next, Write, vars
    <3> DEFINE k == EvictCount(store)
    <3>2. evicted' = evicted \union {store.packets[i].tx : i \in 1 .. k}
      BY <3>1 DEF RunEviction, EvictStale
    <3>3. store.packets \in Seq(Entry) /\ Len(store.packets) \in Nat
      BY <1>0 DEF StoreTrue, EntriesTrue
    <3>4. k \in 0 .. Len(store.packets) /\ \A i \in 1 .. k : store.packets[i].first < Floor
      BY <1>2, <3>3, EvictCountIs
    <3> HIDE DEF k
    <3>5. PICK i \in 1 .. k : t = store.packets[i].tx
      BY <1>2, <2>2, <3>2
    <3>6. i \in 1 .. Len(store.packets) /\ store.packets[i].first < Floor
      BY <3>3, <3>4
    <3>7. t \in 1 .. Len(txs) /\ txs[t].first < Floor
      BY <1>0, <3>5, <3>6 DEF StoreTrue, EntriesTrue
    <3>8. ASSUME t > InitTx PROVE FALSE
      <4>1. t \in InitTx + 1 .. Len(txs)
        BY <1>0, <3>7, <3>8
      <4> QED
        BY <1>0, <3>7, <4>1 DEF TimesFixed
    <3> QED
      BY <1>0, <3>7, <3>8
  <2> QED
    BY <2>1, <2>2
<1> QED
  BY <1>1, <1>2 DEF NothingAhead

\* NothingAhead holds of the initial state.
LEMMA NothingAheadInit ==
    ASSUME Init
    PROVE  NothingAhead
<1>1. poller = "unstarted" /\ evicted = {}
  BY DEF Init, PollInit
<1> QED
  BY <1>1 DEF NothingAhead, NotReplayed

\* NothingAhead holds throughout, beside StoreInv.
LEMMA NothingAheadHolds ==
    ASSUME RxTimes \subseteq {Now}
    PROVE  Spec => [](StoreInv /\ NothingAhead)
<1>1. Init => NothingAhead
  BY NothingAheadInit
<1>2. StoreInv /\ NothingAhead /\ [Next]_vars => NothingAhead'
  BY NothingAheadStep DEF StoreInv
<1> QED
  BY <1>1, <1>2, StoreInvariant, PTL DEF Spec

\* Without faults and without a memory limit the run is quiet.
LEMMA QuietThen ==
    ASSUME StoreInv, NothingAhead, faults = 0, MaxMemory = 0
    PROVE  Quiet
<1>1. NotReplayed
  BY DEF NothingAhead
<1>2. ASSUME NEW t \in evicted, startID < t PROVE FALSE
  <2>1. poller # "unstarted" /\ startID \in Nat /\ InitTx \in Nat /\ t \in Nat /\ t <= InitTx
    BY <1>2, HistoryAssumption DEF StoreInv, CursorInv, IngestTypes, PollPlace, Tx, NothingAhead
  <2>2. startID >= InitTx
    BY <1>1, <2>1 DEF NotReplayed
  <2> QED
    BY <1>2, <2>1, <2>2
<1> QED
  BY <1>1, <1>2 DEF Quiet, EvictedAhead

\* Without a memory bound, until a query fails: byHash/byTxID and s.packets
\* agree at every instant a reader may hold s.mu.
THEOREM PacketsIndexedHolds ==
    ASSUME RxTimes \subseteq {Now}, MaxMemory = 0
    PROVE  Spec => [](faults = 0 => PacketsIndexed)
<1>1. StoreInv /\ NothingAhead => (faults = 0 => PacketsIndexed)
  BY QuietThen, StoreIsSound
<1> QED
  BY <1>1, NothingAheadHolds, PTL

\* Without a memory bound, until a query fails: s.totalObs counts each observation
\* held, once, but for those of a chunk that is not yet published.
THEOREM CountersAgreeHolds ==
    ASSUME RxTimes \subseteq {Now}, MaxMemory = 0
    PROVE  Spec => [](faults = 0 => CountersAgree)
<1>1. StoreInv /\ NothingAhead => (faults = 0 => CountersAgree)
  BY QuietThen, StoreIsSound
<1> QED
  BY <1>1, NothingAheadHolds, PTL

\* Without a memory bound, until a query fails: from the end of the hot load on
\* s.packets is in the order of first_seen that the binary searches rely on.
THEOREM PacketsSortedHolds ==
    ASSUME RxTimes \subseteq {Now}, MaxMemory = 0
    PROVE  Spec => [](faults = 0 => PacketsSorted)
<1>1. StoreInv /\ NothingAhead => (faults = 0 => PacketsSorted)
  BY QuietThen, StoreIsSound
<1> QED
  BY <1>1, NothingAheadHolds, PTL

------------------------------------------------------------------------------
\* Sets of transmissions: a larger one has at least as many.
LEMMA CardMono ==
    ASSUME NEW T \in SUBSET Tx, NEW S \in SUBSET T
    PROVE  Cardinality(S) \in Nat /\ Cardinality(T) \in Nat /\ Cardinality(S) <= Cardinality(T)
<1>1. IsFiniteSet(Tx)
  BY DBAssumption, UpToFinite DEF Tx
<1>2. IsFiniteSet(T) /\ IsFiniteSet(S)
  BY <1>1, FS_Subset
<1> QED
  BY <1>2, FS_Subset, FS_CardinalityType

\* The hot load has t in memory, or will still meet it.
Coming(t) ==
    \/ Seen(t)
    \/ /\ loader \in {"hotQuery", "hotMerge"} /\ txs[t].last >= Floor /\ t > cursorID
       /\ loader = "hotMerge" =>
             \/ t \in TxsOf(chunk)
             \/ (\A x \in TxsOf(chunk) : x < t) /\ ~(Cardinality(TxsOf(chunk)) < ChunkSize)

\* The rows that are in memory, were in memory, or will be met by the hot load.
Expected == {t \in 1 .. Len(txs) : Coming(t)}

\* What is or was in memory.
Present == {t \in Tx : InMemory(t)} \union evicted

\* Where the numbers of the load are, and what they are.
TotalsPlace ==
    /\ totalInDB \in Int /\ loadedCount \in Nat
    /\ backgroundLoadDone => loader = "ended"
    /\ loader \in {"begin", "hotCount"} => cursorID = 0

\* The program counters of the verification, to its end.
VerifyStates == {"verify", "count", "compare", "publish", "finish"}

\* Without hot startup: as many rows are in memory or expected as were counted.
CountedRows ==
    /\ ~hotStartup /\ totalInDB >= 0 /\ loader \notin {"begin", "hotCount"}
    /\ ~(loader = "ended" /\ backgroundLoadFailed)
    => totalInDB <= Cardinality(Expected)

\* With hot startup: the length of s.packets says how many rows are in memory,
\* and a load that is not failed measured nine tenths of the rows counted.
LoadedRows ==
    /\ hotStartup /\ Quiet /\ loader \in VerifyStates => loadedCount <= Cardinality(Present)
    /\ hotStartup /\ Quiet /\ loader = "ended" /\ ~backgroundLoadFailed /\ totalInDB >= 0
       => 10 * Cardinality(Present) >= 9 * totalInDB

\* The steps that change the numbers of the load.
LEMMA TotalsAre ==
    ASSUME [Next]_vars
    PROVE  \/ /\ Load
              /\ \/ HotCount \/ HotMerge \/ HotFails \/ HotFinish \/ FillBegin \/ FillMeasure
                 \/ Finish(retainedFrom # Unproven)
           \/ /\ UNCHANGED <<totalInDB, loadedCount, backgroundLoadDone, backgroundLoadFailed>>
              /\ loader' = "ended" => loader = "ended"
              /\ loader \notin {"ended", "begin"} => loader' \notin {"ended", "begin"}
              /\ loader = "ended" => loader' = "ended"
<1>1. Load =>
           \/ HotCount \/ HotMerge \/ HotFails \/ HotFinish \/ FillBegin \/ FillMeasure
           \/ Finish(retainedFrom # Unproven)
           \/ /\ UNCHANGED <<totalInDB, loadedCount, backgroundLoadDone, backgroundLoadFailed>>
              /\ loader' # "ended" /\ loader # "ended"
              /\ loader' # "begin"
  BY DEF Load, LoaderNext, BeginLoad, HotQuery,
         FillQuery, FillFails, FillIndex, FillPublish, ReheardQuery, ReheardLoad,
         ReheardMissing, ReheardFails, signals, totals, fillVars,
         VerifyNext, VerifyEdge, VerifyCount, VerifyCountFails, VerifyCompare, Publish, At
<1>2. ~Load => UNCHANGED <<totalInDB, loadedCount, backgroundLoadDone, backgroundLoadFailed, loader>>
  BY DEF Next, Write, Poll, RunEviction, vars, loadVars, signals, totals, fillVars
<1> QED
  BY <1>1, <1>2

\* TotalsPlace is preserved by every step.
LEMMA TotalsPlaceStep ==
    ASSUME CursorInv, DataTrue, TotalsPlace, [Next]_vars
    PROVE  TotalsPlace'
<1>0. /\ Len(txs) \in Nat /\ RowsTrue(chunk) /\ store.packets \in Seq(Entry)
      /\ Len(store.packets) \in Nat /\ TxsOf(chunk) \subseteq Tx
  <2>1. DBTypes /\ RowsOK(chunk)
    BY DEF CursorInv, IngestTypes
  <2>2. Len(txs) \in Nat /\ Len(txs) <= MaxTx /\ MaxTx \in Nat
    BY <2>1, DBAssumption DEF DBTypes
  <2> QED
    BY <2>1, <2>2 DEF DataTrue, EntriesTrue, RowsOK, TxsOf, Tx
<1>1. totalInDB' \in Int /\ loadedCount' \in Nat /\ (backgroundLoadDone' => loader' = "ended")
  <2>1. \A T \in SUBSET (1 .. Len(txs)) : Cardinality(T) \in Nat
    BY <1>0, UpToFinite, FS_Subset, FS_CardinalityType
  <2>2. CASE HotCount
    <3>1. SeenSince(HotFrom) \in SUBSET (1 .. Len(txs))
      BY DEF SeenSince
    <3>2. totalInDB' \in Int
      BY <2>1, <2>2, <3>1 DEF HotCount
    <3> QED
      BY <2>2, <3>2 DEF HotCount, TotalsPlace, signals
  <2>3. CASE HotMerge
    <3>1. Cardinality(TxsOf(chunk)) \in Nat
      BY <1>0, CardMono
    <3>2. loadedCount' = loadedCount + Cardinality(TxsOf(chunk)) /\ totalInDB' = totalInDB
          /\ backgroundLoadDone' = backgroundLoadDone /\ loader = "hotMerge"
      BY <2>3 DEF HotMerge
    <3> QED
      BY <3>1, <3>2 DEF TotalsPlace
  <2>4. CASE HotFails
    BY <2>4 DEF HotFails, TotalsPlace
  <2>5. CASE HotFinish
    BY <2>5 DEF HotFinish, TotalsPlace
  <2>6. CASE FillBegin
    <3>1. SeenSince(Floor) \in SUBSET (1 .. Len(txs))
      BY DEF SeenSince
    <3>2. totalInDB' \in Int
      BY <2>1, <2>6, <3>1 DEF FillBegin
    <3> QED
      BY <2>6, <3>2 DEF FillBegin, TotalsPlace, signals
  <2>7. CASE FillMeasure
    BY <1>0, <2>7 DEF FillMeasure, TotalsPlace, signals
  <2>8. CASE Finish(retainedFrom # Unproven)
    BY <2>8 DEF Finish, TotalsPlace
  <2> QED
    BY <2>2, <2>3, <2>4, <2>5, <2>6, <2>7, <2>8, TotalsAre DEF TotalsPlace
<1>2. ASSUME loader' \in {"begin", "hotCount"} PROVE cursorID' = 0
  <2>1. Load => BeginLoad
    BY <1>2 DEF Load, LoaderNext, HotCount, HotQuery, HotMerge, HotFails, HotFinish,
         FillBegin, FillQuery, FillFails, FillIndex, FillPublish, ReheardQuery, ReheardLoad,
         ReheardMissing, ReheardFails, FillMeasure, Finish,
         VerifyNext, VerifyEdge, VerifyCount, VerifyCountFails, VerifyCompare, Publish, At
  <2>2. BeginLoad => loader = "begin" /\ cursorID' = cursorID
    BY DEF BeginLoad
  <2> QED
    BY <1>2, <2>1, <2>2, LoadFrame DEF TotalsPlace
<1> QED
  BY <1>1, <1>2 DEF TotalsPlace

------------------------------------------------------------------------------
\* Without hot startup, what the hot load has met or will still meet stays so
\* until it fails: the cursor passes only rows that are in memory.
LEMMA ComingStep ==
    ASSUME CursorInv, DataTrue, [Next]_vars, ~hotStartup, loader \notin {"begin", "hotCount"},
           ~HotFails, NEW t \in 1 .. Len(txs), Coming(t)
    PROVE  Coming(t)' /\ t \in 1 .. Len(txs')
<1>0. /\ IngestTypes /\ DBTypes /\ Store(store) /\ RowsOK(chunk) /\ HotCovers
      /\ Len(txs) \in Nat /\ t \in Tx /\ t \in 1 .. Len(txs')
      /\ Floor \in Nat /\ ChunkSize \in Nat /\ HotFrom = Floor
      /\ txs[t].last \in Nat /\ txs'[t].last \in Nat /\ txs[t].last <= txs'[t].last
  <2>1. IngestTypes /\ IngestTypes' /\ TablesGrow /\ HotCovers
    BY TypesStep DEF CursorInv, DataTrue
  <2>2. DBTypes /\ DBTypes' /\ Store(store) /\ RowsOK(chunk)
    BY <2>1 DEF IngestTypes
  <2>3. Len(txs) \in Nat /\ t \in 1 .. Len(txs') /\ t \in Tx
    BY <2>1, <2>2, DBAssumption DEF DBTypes, TablesGrow, Tx
  <2>4. txs[t] \in [first : Stamp, last : Stamp] /\ txs'[t] \in [first : Stamp, last : Stamp]
    BY <2>2, <2>3, ElementOfSeq DEF DBTypes
  <2>5. txs[t].last \in Nat /\ txs'[t].last \in Nat /\ Floor \in Nat /\ ChunkSize \in Nat
    BY <2>4, DBAssumption, StoreAssumption, LoadAssumption DEF Stamp
  <2> QED
    BY <2>1, <2>2, <2>3, <2>5 DEF TablesGrow, HotFrom
<1>1. CASE Seen(t)
  BY <1>0, <1>1, SeenStays DEF Coming
<1>2. CASE ~Seen(t) /\ ~Load
  <2>1. UNCHANGED <<loader, cursorID, chunk>>
    BY <1>2, LoadFrame
  <2> QED
    BY <1>0, <1>2, <2>1 DEF Coming, TxsOf
<1>3. CASE ~Seen(t) /\ Load
  <2>1. /\ loader \in {"hotQuery", "hotMerge"} /\ txs[t].last >= Floor /\ t > cursorID
        /\ loader = "hotMerge" =>
              \/ t \in TxsOf(chunk)
              \/ (\A x \in TxsOf(chunk) : x < t) /\ ~(Cardinality(TxsOf(chunk)) < ChunkSize)
        /\ txs' = txs /\ cursorID \in 0 .. Len(txs)
    BY <1>0, <1>3, LoadRows DEF Coming, db, HotCovers, HotStates
  <2>2. CASE HotQuery
    <3> DEFINE ids == {u \in SeenSince(HotFrom) : u > cursorID}
               got == FirstN(ids, ChunkSize)
    <3>1. /\ loader = "hotQuery" /\ loader' = "hotMerge" /\ UNCHANGED cursorID /\ chunk' = Rows(got)
      BY <2>2 DEF HotQuery
    <3>2. ids \in SUBSET Nat /\ IsFiniteSet(ids) /\ ids \subseteq 1 .. Len(txs)
      <4>1. IsFiniteSet(1 .. Len(txs))
        BY <1>0, UpToFinite
      <4>2. ids \subseteq 1 .. Len(txs)
        BY DEF SeenSince
      <4> QED
        BY <1>0, <4>1, <4>2, FS_Subset
    <3>3. got \subseteq ids
      BY DEF FirstN
    <3>4. TxsOf(chunk') = got
      BY <3>1, <3>2, <3>3, RowsAreOK
    <3>5. t \in ids
      BY <1>0, <2>1 DEF SeenSince
    <3> HIDE DEF ids
    <3> HIDE DEF got
    <3>6. ASSUME t \notin got, NEW x \in got PROVE x < t
      <4>0. x \in ids /\ t \in ids
        BY <3>3, <3>5, <3>6
      <4>1. x \in Nat /\ t \in Nat
        BY <3>2, <4>0
      <4>2. t <= x => t \in FirstN(ids, ChunkSize)
        BY <1>0, <3>2, <3>5, <3>6, FirstNClosed DEF got
      <4> QED
        BY <3>6, <4>1, <4>2 DEF got
    <3>7. Cardinality(got) < ChunkSize => got = ids
      BY <1>0, <3>2, ShortIsAll DEF got
    <3>8. \/ t \in got
          \/ (\A x \in got : x < t) /\ ~(Cardinality(got) < ChunkSize)
      BY <3>5, <3>6, <3>7
    <3> QED
      BY <2>1, <3>1, <3>4, <3>8 DEF Coming, TxsOf
  <2>3. CASE HotMerge
    <3> DEFINE S == {cursorID} \union TxsOf(chunk)
    <3>1. /\ loader = "hotMerge" /\ store' = AddRows(store, chunk) /\ cursorID' = Max(S)
          /\ loader' = IF Cardinality(TxsOf(chunk)) < ChunkSize THEN "hotFinish" ELSE "hotQuery"
      BY <2>3 DEF HotMerge
    <3>2. CASE t \in TxsOf(chunk)
      <4>1. store'.index = [u \in Tx |-> IF u \in TxsOf(chunk) /\ store.index[u] = "none"
                                         THEN "merged" ELSE store.index[u]]
        BY <1>0, <3>1, AddRowsStore
      <4>2. Seen(t)'
        BY <1>0, <3>2, <4>1 DEF Seen, InMemory
      <4>3. Seen(t)' => Coming(t)'
        BY DEF Coming
      <4> QED
        BY <1>0, <4>2, <4>3
    <3>3. CASE t \notin TxsOf(chunk)
      <4>1. (\A x \in TxsOf(chunk) : x < t) /\ loader' = "hotQuery"
        BY <2>1, <3>1, <3>3
      <4>2. TxsOf(chunk) \subseteq 1 .. Len(txs)
        BY <1>0 DEF RowsOK, TxsOf
      <4>3. S \in SUBSET (0 .. Len(txs)) /\ S # {}
        BY <2>1, <4>2
      <4>4. \A x \in S : x < t
        BY <2>1, <4>1
      <4> HIDE DEF S
      <4>5. cursorID' \in S
        BY <1>0, <3>1, <4>3, MaxIs
      <4>6. t > cursorID'
        BY <4>4, <4>5
      <4> QED
        BY <2>1, <4>1, <4>6 DEF Coming
    <3> QED
      BY <3>2, <3>3
  <2>4. HotQuery \/ HotMerge
    BY <1>3, <2>1 DEF Load, LoaderNext, BeginLoad, HotCount, HotFinish,
         FillBegin, FillQuery, FillFails, FillIndex, FillPublish, ReheardQuery, ReheardLoad,
         ReheardMissing, ReheardFails, FillMeasure, Finish,
         VerifyNext, VerifyEdge, VerifyCount, VerifyCountFails, VerifyCompare, Publish, At
  <2> QED
    BY <2>2, <2>3, <2>4
<1> QED
  BY <1>1, <1>2, <1>3

\* Where the counts of the load can change without hot startup.
LEMMA CountedCases ==
    ASSUME FillPlace, TotalsPlace, [Next]_vars, ~hotStartup', totalInDB' >= 0,
           loader' \notin {"begin", "hotCount"}, ~(loader' = "ended" /\ backgroundLoadFailed')
    PROVE  /\ ~hotStartup
           /\ \/ /\ Load /\ HotCount
              \/ /\ ~HotCount /\ ~HotFails /\ totalInDB' = totalInDB
                 /\ loader \notin {"begin", "hotCount"}
                 /\ ~(loader = "ended" /\ backgroundLoadFailed)
<1>1. ~hotStartup
  BY LoadFrame DEF Load
<1>2. CASE ~Load
  <2>1. UNCHANGED <<totalInDB, loadedCount, backgroundLoadDone, backgroundLoadFailed, loader>>
    BY <1>2 DEF Next, Write, Poll, RunEviction, vars, loadVars, signals, totals, fillVars
  <2>2. ASSUME HotCount \/ HotFails PROVE FALSE
    <3>1. HotCount => loader' # loader
      BY DEF HotCount
    <3>2. HotFails => loader' # loader
      BY DEF HotFails
    <3> QED
      BY <2>1, <2>2, <3>1, <3>2
  <2> QED
    BY <1>1, <2>1, <2>2
<1>3. CASE Load /\ ~HotCount
  <2>1. ~HotFails
    BY DEF HotFails
  <2>2. loader \notin {"begin", "hotCount"}
    BY <1>3 DEF Load, LoaderNext, BeginLoad, HotQuery, HotMerge, HotFails, HotFinish,
         FillBegin, FillQuery, FillFails, FillIndex, FillPublish, ReheardQuery, ReheardLoad,
         ReheardMissing, ReheardFails, FillMeasure, Finish,
         VerifyNext, VerifyEdge, VerifyCount, VerifyCountFails, VerifyCompare, Publish, At
  <2>3. loader # "ended"
    BY <1>3 DEF Load, LoaderNext, BeginLoad, HotQuery, HotMerge, HotFails, HotFinish,
         FillBegin, FillQuery, FillFails, FillIndex, FillPublish, ReheardQuery, ReheardLoad,
         ReheardMissing, ReheardFails, FillMeasure, Finish,
         VerifyNext, VerifyEdge, VerifyCount, VerifyCountFails, VerifyCompare, Publish, At
  <2>4. ~FillBegin
    BY <1>1 DEF FillBegin, FillPlace, FillStates
  <2>5. totalInDB' = totalInDB
    <3>1. HotMerge \/ HotFinish \/ FillMeasure \/ Finish(retainedFrom # Unproven)
          => totalInDB' = totalInDB
      BY DEF HotMerge, HotFinish, FillMeasure, Finish
    <3> QED
      BY <1>3, <2>1, <2>4, <3>1, TotalsAre
  <2> QED
    BY <1>1, <1>3, <2>1, <2>2, <2>3, <2>5
<1> QED
  BY <1>1, <1>2, <1>3

\* The hot load reaches every row that it counted.
LEMMA CountedRowsStep ==
    ASSUME CursorInv, DataTrue, TotalsPlace, CountedRows, [Next]_vars
    PROVE  CountedRows'
<1> SUFFICES ASSUME ~hotStartup', totalInDB' >= 0, loader' \notin {"begin", "hotCount"},
                    ~(loader' = "ended" /\ backgroundLoadFailed')
             PROVE  totalInDB' <= Cardinality(Expected')
  BY DEF CountedRows
<1>0. /\ IngestTypes /\ IngestTypes' /\ DBTypes /\ FillPlace /\ 1 .. Len(txs) \subseteq Tx
      /\ 1 .. Len(txs') \subseteq Tx /\ Len(txs) \in Nat
  <2>1. IngestTypes /\ IngestTypes' /\ FillPlace
    BY TypesStep DEF CursorInv
  <2>2. DBTypes /\ DBTypes'
    BY <2>1 DEF IngestTypes
  <2> QED
    BY <2>1, <2>2, DBAssumption DEF DBTypes, Tx
<1>1. Expected' = {t \in 1 .. Len(txs') : Coming(t)'} /\ Expected = {t \in 1 .. Len(txs) : Coming(t)}
  BY DEF Expected
<1>2. CASE Load /\ HotCount
  <2>1. /\ loader = "hotCount" /\ loader' = "hotQuery" /\ cursorID' = cursorID /\ cursorID = 0
        /\ totalInDB' = Cardinality(SeenSince(HotFrom)) \/ totalInDB' = -1
        /\ txs' = txs
    BY <1>2 DEF HotCount, TotalsPlace, db
  <2>2. totalInDB' = Cardinality(SeenSince(Floor))
    BY <1>0, <2>1, CountedCases DEF HotFrom
  <2>3. \A t \in SeenSince(Floor) : Coming(t)'
    BY <1>0, <2>1 DEF SeenSince, Coming
  <2>4. SeenSince(Floor) \subseteq Expected' /\ Expected' \subseteq Tx
    BY <1>0, <1>1, <2>1, <2>3 DEF SeenSince
  <2> QED
    BY <2>2, <2>4, CardMono
<1>3. CASE ~(Load /\ HotCount)
  <2>1. /\ ~hotStartup /\ ~HotFails /\ totalInDB' = totalInDB
        /\ loader \notin {"begin", "hotCount"} /\ ~(loader = "ended" /\ backgroundLoadFailed)
    BY <1>0, <1>3, CountedCases
  <2>2. totalInDB <= Cardinality(Expected) /\ totalInDB \in Int
    BY <2>1 DEF CountedRows, TotalsPlace
  <2>3. Expected \subseteq Expected'
    BY <1>1, <2>1, ComingStep
  <2>4. Expected' \subseteq Tx
    BY <1>0, <1>1
  <2>5. /\ Cardinality(Expected) \in Nat /\ Cardinality(Expected') \in Nat
        /\ Cardinality(Expected) <= Cardinality(Expected')
    BY <2>3, <2>4, CardMono
  <2> QED
    BY <2>1, <2>2, <2>5
<1> QED
  BY <1>2, <1>3

------------------------------------------------------------------------------
\* The entries of s.packets are of different transmissions, all of them present.
LEMMA ListedArePresent ==
    ASSUME DBTypes, EntriesTrue(store.packets), ListedWell, evicted \subseteq Tx
    PROVE  Len(store.packets) <= Cardinality(Present)
<1> DEFINE p == store.packets
           n == Len(p)
           f == [i \in 1 .. n |-> p[i].tx]
<1>1. n \in Nat
  BY DEF EntriesTrue
<1>2. \A i \in 1 .. n : p[i].tx \in Tx /\ store.index[p[i].tx] = p[i].by /\ p[i].by \in Maker
  BY EntryIs DEF ListedWell, IndexedBut, Leads
<1>3. \A i, j \in 1 .. n : p[i].tx = p[j].tx => i = j
  BY DEF ListedWell, IndexedBut, Leads
<1>4. \A i \in 1 .. n : p[i].tx \in Present
  BY <1>2 DEF Present, InMemory, Maker
<1> HIDE DEF n, p
<1>5. f \in Injection(1 .. n, Present)
  BY <1>3, <1>4 DEF Injection, IsInjective
<1>6. IsFiniteSet(Present) /\ Cardinality(Present) \in Nat
  <2>1. Present \subseteq Tx
    BY DEF Present
  <2>2. IsFiniteSet(Tx)
    BY DBAssumption, UpToFinite DEF Tx
  <2> QED
    BY <2>1, <2>2, FS_Subset, FS_CardinalityType
<1>7. IsFiniteSet(1 .. n) /\ Cardinality(1 .. n) = n
  <2>1. Cardinality(1 .. n) = IF 1 > n THEN 0 ELSE n - 1 + 1
    BY <1>1, FS_Interval
  <2> QED
    BY <1>1, <2>1, UpToFinite
<1>8. Cardinality(1 .. n) <= Cardinality(Present)
  BY <1>5, <1>6, <1>7, FS_Injection
<1> QED
  BY <1>7, <1>8 DEF n, p

\* The steps that reach the verification, and the end.
LEMMA VerifyCases ==
    ASSUME [Next]_vars
    PROVE  /\ hotStartup' = hotStartup
           /\ loader' \in VerifyStates =>
                 \/ Load /\ FillMeasure
                 \/ Load /\ HotFinish
                 \/ /\ loader \in VerifyStates /\ ~HotFinish /\ ~FillMeasure
                    /\ UNCHANGED <<totalInDB, loadedCount>>
           /\ loader' = "ended" =>
                 \/ Load /\ HotFails
                 \/ Load /\ Finish(retainedFrom # Unproven)
                 \/ loader = "ended" /\ UNCHANGED <<totalInDB, backgroundLoadFailed>>
<1>1. hotStartup' = hotStartup
  BY LoadFrame DEF Load
<1>2. CASE ~Load
  <2>1. UNCHANGED <<totalInDB, loadedCount, backgroundLoadFailed, loader>>
    BY <1>2 DEF Next, Write, Poll, RunEviction, vars, loadVars, signals, totals, fillVars
  <2>2. HotFinish \/ FillMeasure => loader' # loader
    BY DEF HotFinish, FillMeasure
  <2> QED
    BY <1>1, <2>1, <2>2
<1>3. CASE Load
  <2>1. ASSUME loader' \in VerifyStates, ~FillMeasure, ~HotFinish
        PROVE  loader \in VerifyStates /\ UNCHANGED <<totalInDB, loadedCount>>
    BY <1>3, <2>1 DEF Load, LoaderNext, BeginLoad, HotCount, HotQuery, HotMerge, HotFails,
         FillBegin, FillQuery, FillFails, FillIndex, FillPublish, ReheardQuery, ReheardLoad,
         ReheardMissing, ReheardFails, Finish, VerifyStates, fillVars, totals,
         VerifyNext, VerifyEdge, VerifyCount, VerifyCountFails, VerifyCompare, Publish, At
  <2>2. loader' = "ended" => HotFails \/ Finish(retainedFrom # Unproven)
    BY <1>3 DEF Load, LoaderNext, BeginLoad, HotCount, HotQuery, HotMerge, HotFinish,
         FillBegin, FillQuery, FillFails, FillIndex, FillPublish, ReheardQuery, ReheardLoad,
         ReheardMissing, ReheardFails, FillMeasure,
         VerifyNext, VerifyEdge, VerifyCount, VerifyCountFails, VerifyCompare, Publish, At
  <2> QED
    BY <1>1, <1>3, <2>1, <2>2
<1> QED
  BY <1>2, <1>3

\* What is or was in memory stays so.
LEMMA PresentGrows ==
    ASSUME CursorInv, DataTrue, PollPlace, [Next]_vars
    PROVE  /\ Cardinality(Present) \in Nat /\ Cardinality(Present') \in Nat
           /\ Cardinality(Present) <= Cardinality(Present')
<1>1. PollPlace' /\ IngestTypes
  BY PollPlaceStep DEF CursorInv, DataTrue
<1>2. \A t \in Tx : Seen(t) => Seen(t)'
  BY <1>1, SeenStays
<1>3. Present = {t \in Tx : Seen(t)} /\ Present' = {t \in Tx : Seen(t)'}
  BY <1>1 DEF PollPlace, Present, Seen
<1>4. Present \subseteq Present' /\ Present' \subseteq Tx
  BY <1>2, <1>3
<1> QED
  BY <1>4, CardMono

\* The length that the gate of the fill is taken against counts rows that are
\* or were in memory, and the gate holds what it measured.
LEMMA LoadedRowsStep ==
    ASSUME StoreInv, TotalsPlace, LoadedRows, [Next]_vars
    PROVE  LoadedRows'
<1>0. /\ IngestTypes /\ DBTypes /\ EntriesTrue(store.packets) /\ evicted \subseteq Tx
      /\ Cardinality(Present) \in Nat /\ Cardinality(Present') \in Nat
      /\ Cardinality(Present) <= Cardinality(Present')
      /\ totalInDB \in Int /\ loadedCount \in Nat
      /\ Quiet' => Quiet /\ ListedWell
  <2>1. CursorInv /\ DataTrue /\ PollPlace /\ (Quiet => ListedWell)
    BY DEF StoreInv, Sound
  <2>2. IngestTypes /\ DBTypes /\ EntriesTrue(store.packets) /\ heardMaxID \in 0 .. store.maxTxID
    BY <2>1 DEF CursorInv, IngestTypes, DataTrue
  <2>3. Quiet' => Quiet
    BY <2>1, <2>2, QuietBack
  <2> QED
    BY <2>1, <2>2, <2>3, PresentGrows DEF PollPlace, TotalsPlace
<1>1. ASSUME hotStartup', Quiet', loader' \in VerifyStates
      PROVE  loadedCount' <= Cardinality(Present')
  <2>1. hotStartup /\ Quiet /\ ListedWell
    BY <1>0, <1>1, VerifyCases
  <2>2. CASE Load /\ FillMeasure
    <3>1. Len(store.packets) <= Cardinality(Present)
      BY <1>0, <2>1, ListedArePresent
    <3>2. loadedCount' = Len(store.packets) /\ Len(store.packets) \in Nat
      BY <1>0, <2>2 DEF FillMeasure, EntriesTrue
    <3> QED
      BY <1>0, <3>1, <3>2
  <2>3. ~HotFinish
    BY <1>1, <2>1 DEF HotFinish, VerifyStates
  <2>4. CASE loader \in VerifyStates /\ UNCHANGED <<totalInDB, loadedCount>>
    <3>1. loadedCount <= Cardinality(Present) /\ loadedCount' = loadedCount
      BY <2>1, <2>4 DEF LoadedRows
    <3> QED
      BY <1>0, <3>1
  <2> QED
    BY <1>1, <2>2, <2>3, <2>4, VerifyCases
<1>2. ASSUME hotStartup', Quiet', loader' = "ended", ~backgroundLoadFailed', totalInDB' >= 0
      PROVE  10 * Cardinality(Present') >= 9 * totalInDB'
  <2>1. hotStartup /\ Quiet
    BY <1>0, <1>2, VerifyCases
  <2>2. ~HotFails
    BY <1>2 DEF HotFails
  <2>3. CASE Load /\ Finish(retainedFrom # Unproven)
    <3>1. /\ loader = "finish" /\ totalInDB' = totalInDB
          /\ ~(totalInDB > 0 /\ 10 * loadedCount < 9 * totalInDB)
      BY <1>2, <2>1, <2>3 DEF Finish
    <3>2. loadedCount <= Cardinality(Present)
      BY <2>1, <3>1 DEF LoadedRows, VerifyStates
    <3> QED
      BY <1>0, <1>2, <3>1, <3>2
  <2>4. CASE loader = "ended" /\ UNCHANGED <<totalInDB, backgroundLoadFailed>>
    <3>1. 10 * Cardinality(Present) >= 9 * totalInDB /\ totalInDB' = totalInDB
      BY <1>2, <2>1, <2>4 DEF LoadedRows
    <3> QED
      BY <1>0, <3>1
  <2> QED
    BY <1>2, <2>2, <2>3, <2>4, VerifyCases
<1> QED
  BY <1>1, <1>2 DEF LoadedRows

\* The store, and the numbers its load was gated with.
LoadInv == StoreInv /\ TotalsPlace /\ CountedRows /\ LoadedRows

\* LoadInv holds throughout.
LEMMA LoadInvariant ==
    ASSUME RxTimes \subseteq {Now}
    PROVE  Spec => []LoadInv
<1>1. Init => TotalsPlace /\ CountedRows /\ LoadedRows
  BY DEF Init, LoadInit, TotalsPlace, CountedRows, LoadedRows, VerifyStates
<1>2. ASSUME StoreInv, TotalsPlace /\ CountedRows /\ LoadedRows, [Next]_vars
      PROVE  (TotalsPlace /\ CountedRows /\ LoadedRows)'
  BY <1>2, TotalsPlaceStep, CountedRowsStep, LoadedRowsStep DEF StoreInv
<1> QED
  BY <1>1, <1>2, StoreInvariant, PTL DEF Spec, LoadInv

\* DoneMeansCovered: a load that ends as done, whatever failed on its way, has
\* brought nine tenths of the rows that it counted; with hot startup, unless the
\* poller replayed or ran behind the eviction (Quiet), because the gate takes
\* the length of s.packets for the number of its transmissions.
THEOREM DoneMeansCoveredHolds ==
    ASSUME RxTimes \subseteq {Now}
    PROVE  Spec => [](~hotStartup \/ (NotReplayed /\ ~EvictedAhead) => DoneMeansCovered)
<1>1. LoadInv => (~hotStartup \/ (NotReplayed /\ ~EvictedAhead) => DoneMeansCovered)
  <2> SUFFICES ASSUME LoadInv, ~hotStartup \/ Quiet,
                      backgroundLoadDone, ~backgroundLoadFailed, totalInDB >= 0
               PROVE  10 * Cardinality(Present) >= 9 * totalInDB
    BY DEF DoneMeansCovered, Quiet, Present
  <2>1. loader = "ended" /\ totalInDB \in Int
    BY DEF LoadInv, TotalsPlace
  <2>2. CASE hotStartup
    BY <2>1, <2>2 DEF LoadInv, LoadedRows
  <2>3. CASE ~hotStartup
    <3>1. totalInDB <= Cardinality(Expected)
      BY <2>1, <2>3 DEF LoadInv, CountedRows
    <3>2. DBTypes /\ evicted \subseteq Tx
      BY DEF LoadInv, StoreInv, CursorInv, IngestTypes, PollPlace
    <3>3. 1 .. Len(txs) \subseteq Tx
      BY <3>2, DBAssumption DEF DBTypes, Tx
    <3>4. Expected \subseteq Present /\ Present \subseteq Tx
      BY <2>1, <3>2, <3>3 DEF Expected, Coming, Seen, Present
    <3>5. /\ Cardinality(Expected) \in Nat /\ Cardinality(Present) \in Nat
          /\ Cardinality(Expected) <= Cardinality(Present)
      BY <3>4, CardMono
    <3> QED
      BY <2>1, <3>1, <3>5
  <2> QED
    BY <2>2, <2>3
<1> QED
  BY <1>1, LoadInvariant, PTL

------------------------------------------------------------------------------
\* The two times that the edge of the verification is made of.
EdgeTimes == oldestLoaded \in 0 .. Now /\ store.evictedFrom \in 0 .. Now + 1

\* Eviction moves evictedFrom to where an evicted entry ends, if at all.
LEMMA EvictedFromIs ==
    ASSUME DBTypes, NEW s, Store(s), EntriesTrue(s.packets), s.evictedFrom \in 0 .. Now + 1,
           NEW k \in 0 .. Len(s.packets)
    PROVE  EvictHead(s, k).evictedFrom \in 0 .. Now + 1
<1> DEFINE g == {s.packets[i] : i \in 1 .. k}
           times == {s.evictedFrom} \union {e.first + 1 : e \in g}
           txsGone == {e.tx : e \in g}
           index == [t \in Tx |-> IF t \in txsGone THEN "none" ELSE s.index[t]]
           held == [t \in Tx |-> [m \in Maker |->
                       IF \E e \in g : e.tx = t /\ e.by = m THEN {} ELSE s.held[t][m]]]
           a == EvictHead(s, k)
<1>0. Now \in Nat /\ Len(s.packets) \in Nat /\ Now + 1 \in Nat
  BY DBAssumption DEF EntriesTrue
<1>1. \A e \in g : e.first \in 0 .. Now
  <2>1. \A i \in 1 .. k : i \in 1 .. Len(s.packets)
    BY <1>0
  <2> QED
    BY <2>1, EntryIs
<1>2. a = [s EXCEPT !.packets = SubSeq(@, k + 1, Len(@)), !.index = index, !.held = held,
                    !.evictedFrom = Max({@} \union {e.first + 1 : e \in g}),
                    !.totalObs = @ - HeldBy(s, 1 .. k)]
  BY DEF EvictHead
<1> HIDE DEF g, index, held, a
<1>3. a.evictedFrom = Max(times)
  BY <1>2 DEF Store
<1>4. times \in SUBSET (0 .. Now + 1) /\ times # {}
  BY <1>0, <1>1
<1> HIDE DEF times
<1>5. Max(times) \in times
  BY <1>0, <1>4, MaxIs
<1>6. Max(times) \in 0 .. Now + 1
  BY <1>4, <1>5
<1>7. a.evictedFrom \in 0 .. Now + 1
  BY <1>3, <1>6
<1> QED
  BY <1>7 DEF a

\* What a step leaves of oldestLoaded.
LEMMA OldestIs ==
    ASSUME [Next]_vars
    PROVE  \/ oldestLoaded' = oldestLoaded
           \/ Load /\ HotFinish
           \/ /\ oldestLoaded' = WindowStart
              /\ (loader = "fillQuery" /\ oldestLoaded > Floor)
                 \/ (loader = "fillIndex" /\ heard = {})
<1>1. Load => \/ oldestLoaded' = oldestLoaded
              \/ HotFinish \/ FillQuery \/ FillFails \/ FillPublish
  BY DEF Load, LoaderNext, BeginLoad, HotCount, HotQuery, HotMerge, HotFails,
         FillBegin, FillIndex, ReheardQuery, ReheardLoad,
         ReheardMissing, ReheardFails, FillMeasure, Finish, fillVars,
         VerifyNext, VerifyEdge, VerifyCount, VerifyCountFails, VerifyCompare, Publish, At
<1>2. FillQuery => \/ oldestLoaded' = oldestLoaded
                   \/ oldestLoaded' = WindowStart /\ loader = "fillQuery" /\ oldestLoaded > Floor
  BY DEF FillQuery
<1>3. FillFails => oldestLoaded' = WindowStart /\ loader = "fillQuery" /\ oldestLoaded > Floor
  BY DEF FillFails
<1>4. FillPublish => \/ oldestLoaded' = oldestLoaded
                     \/ oldestLoaded' = WindowStart /\ loader = "fillIndex" /\ heard = {}
  BY DEF FillPublish
<1> QED
  BY <1>1, <1>2, <1>3, <1>4, LoadFrame

\* EdgeTimes is preserved by every step.
LEMMA EdgeTimesStep ==
    ASSUME CursorInv, DataTrue, DataTrue', EdgeTimes, [Next]_vars
    PROVE  EdgeTimes'
<1>0. /\ IngestTypes /\ DBTypes /\ DBTypes' /\ Store(store) /\ StoreTrue(store) /\ RowsOK(chunk)
      /\ RowsTrue(chunk) /\ RowsOK(newRows) /\ newObs \in SUBSET (1 .. Len(obs))
      /\ FillPlace /\ EntriesTrue(store.packets) /\ HeldTrue(store.held) /\ store.totalObs \in Int
      /\ EntriesTrue(store.packets)' /\ Now \in Nat /\ Floor \in 0 .. Now /\ HotCutoff \in 0 .. Now
  <2>1. Now \in Nat /\ Floor \in 0 .. Now /\ HotCutoff \in 0 .. Now
    BY DBAssumption, StoreAssumption, LoadAssumption DEF Stamp
  <2> QED
    BY <2>1, Basics DEF DataTrue, CursorInv, IngestTypes
<1>1. oldestLoaded' \in 0 .. Now
  <2>1. ASSUME oldestLoaded' = WindowStart,
               \/ loader = "fillQuery" /\ oldestLoaded > Floor
               \/ loader = "fillIndex" /\ heard = {}
        PROVE  oldestLoaded' \in 0 .. Now
    <3>1. oldestLoaded > Floor /\ oldestLoaded \in Floor .. Now
      BY <1>0, <2>1 DEF EdgeTimes, FillPlace
    <3> QED
      BY <1>0, <2>1, <3>1, WindowIs
  <2>2. CASE Load /\ HotFinish
    <3>1. /\ store' = [store EXCEPT !.packets = SortByFirstSeen(@)]
          /\ oldestLoaded' = CASE hotStartup -> HotCutoff
                               [] ~hotStartup /\ store.packets # << >> -> store'.packets[1].first
                               [] OTHER -> oldestLoaded
      BY <2>2 DEF HotFinish
    <3>2. ASSUME store.packets # << >> PROVE store'.packets[1].first \in 0 .. Now
      <4>1. store'.packets = SortByFirstSeen(store.packets) /\ store.packets \in Seq(Entry)
        BY <1>0, <3>1 DEF Store, EntriesTrue
      <4>2. store'.packets \in Seq(Entry) /\ Len(store'.packets) = Len(store.packets)
        BY <4>1, SortIs DEF SameEntries
      <4>3. Len(store.packets) \in Nat /\ Len(store.packets) # 0
        BY <3>2, <4>1, EmptySeq
      <4>4. 1 \in 1 .. Len(store'.packets)
        BY <4>2, <4>3
      <4>5. store'.packets[1] \in Entry
        BY <4>2, <4>4, ElementOfSeq
      <4> QED
        BY <4>5 DEF Entry, Stamp
    <3> QED
      BY <1>0, <3>1, <3>2 DEF EdgeTimes
  <2> QED
    BY <2>1, <2>2, OldestIs DEF EdgeTimes
<1>2. store'.evictedFrom \in 0 .. Now + 1
  <2>0. store.evictedFrom \in 0 .. Now + 1
    BY DEF EdgeTimes
  <2>1. ASSUME NEW R, RowsOK(R), store' = AddRows(store, R) PROVE store'.evictedFrom = store.evictedFrom
    BY <1>0, <2>1, AddRowsIs
  <2>2. CASE Load /\ (HotMerge \/ HotFails)
    <3>1. PICK R \in SUBSET chunk : store' = AddRows(store, R) /\ RowsOK(R)
      BY <1>0, <2>2, HotAdds
    <3> QED
      BY <2>0, <2>1, <3>1
  <2>3. CASE Load /\ FillIndex
    <3>1. PICK R \in SUBSET {r \in chunk : r.tx \notin indexed} :
             store' = IndexRows(store, R) /\ RowsOK(R)
      BY <1>0, <2>3, FillIndexIs
    <3>2. store'.evictedFrom = store.evictedFrom
      BY <1>0, <3>1 DEF IndexRows, Store
    <3> QED
      BY <2>0, <3>2
  <2>4. ASSUME NEW k, store' = PublishRows(store, chunk, k)
        PROVE  store'.evictedFrom \in 0 .. Now + 1
    BY <1>0, <2>0, <2>4, PublishRowsIs
  <2>5. ASSUME store' = [store EXCEPT !.packets = SortByFirstSeen(@)]
        PROVE  store'.evictedFrom \in 0 .. Now + 1
    BY <1>0, <2>0, <2>5 DEF Store
  <2>6. ASSUME IngestNewFromDB PROVE store'.evictedFrom \in 0 .. Now + 1
    <3>1. store' = AddRows(store, newRows)
      BY <2>6 DEF IngestNewFromDB
    <3> QED
      BY <1>0, <2>0, <2>1, <3>1
  <2>7. ASSUME store' = AddObservations(store, newObs) PROVE store'.evictedFrom \in 0 .. Now + 1
    BY <1>0, <2>0, <2>7, AddObservationsIs
  <2>8. ASSUME RunEviction PROVE store'.evictedFrom \in 0 .. Now + 1
    <3> DEFINE k == EvictCount(store)
    <3>1. store' = EvictHead(store, k)
      BY <2>8 DEF RunEviction, EvictStale
    <3>2. k \in 0 .. Len(store.packets)
      BY <1>0, EvictCountIs DEF EntriesTrue
    <3> HIDE DEF k
    <3> QED
      BY <1>0, <2>0, <3>1, <3>2, EvictedFromIs
  <2> QED
    BY <2>0, <2>2, <2>3, <2>4, <2>5, <2>6, <2>7, <2>8, StoreCases
<1> QED
  BY <1>1, <1>2 DEF EdgeTimes

\* The edge of the verification is a time, or there is none.
LEMMA EdgeIs ==
    ASSUME EdgeTimes, Edge # Unproven
    PROVE  Edge \in Nat
<1> DEFINE S == {oldestLoaded, store.evictedFrom, Floor}
<1>1. Edge = Max(S)
  BY DEF Edge
<1>2. S \in SUBSET (0 .. Now + 1) /\ S # {} /\ Now + 1 \in Nat /\ S \subseteq Nat
  BY DBAssumption, StoreAssumption DEF EdgeTimes, Stamp
<1> HIDE DEF S
<1>3. Max(S) \in S
  BY <1>2, MaxIs
<1>4. Max(S) \in Nat
  BY <1>2, <1>3
<1> QED
  BY <1>1, <1>4 DEF S

------------------------------------------------------------------------------
\* A row of the history from "from" on that a reader may count on: in memory,
\* or evicted for memory with nothing older left.
Safe(t, from) ==
    txs[t].first >= from /\ txs[t].first >= Floor /\ ~InMemory(t) =>
        /\ MaxMemory > 0 /\ t \in evicted
        /\ \A i \in 1 .. Len(store.packets) : txs[t].first <= store.packets[i].first

\* What comes after the verification: the load touches the store no more.
Ending == {"publish", "finish", "ended"}

\* After the comparison only the poller and the eviction change the store.
LEMMA EndingStep ==
    ASSUME loader \in Ending, [Next]_vars
    PROVE  \/ store' = store /\ evicted' = evicted
           \/ Poll /\ IngestNewFromDB
           \/ Poll /\ IngestNewObservations /\ store' = AddObservations(store, newObs)
           \/ RunEviction
<1>1. ~HotMerge /\ ~HotFails /\ ~FillIndex /\ ~FillPublish /\ ~HotFinish
  BY DEF Ending, HotMerge, HotFails, FillIndex, FillPublish, HotFinish
<1> QED
  BY <1>1, StoreCases

\* The poller appends only rows of the present, so nothing older comes back.
LEMMA SafePoll ==
    ASSUME StoreInv, DataTrue', Quiet, Poll, IngestNewFromDB, FirstsKept, [Next]_vars,
           NEW t \in 1 .. Len(txs), NEW from, Safe(t, from)
    PROVE  Safe(t, from)'
<1>0. /\ IngestTypes /\ DBTypes /\ Store(store) /\ StoreTrue(store) /\ RowsInHand /\ NotReplayed
      /\ IndexedBut(store, indexed) /\ EntriesTrue(store.packets) /\ EntriesTrue(store.packets)'
      /\ t \in Tx /\ txs'[t].first = txs[t].first /\ txs[t].first \in 0 .. Now /\ Now \in Nat
  <2>1. CursorInv /\ DataTrue /\ PollPlace /\ Sound /\ NotReplayed
    BY DEF StoreInv, Quiet
  <2>2. IngestTypes /\ DBTypes /\ Store(store) /\ StoreTrue(store) /\ RowsInHand
    BY <2>1, Basics
  <2>3. t \in Tx /\ Len(txs) \in Nat
    BY <2>2, DBAssumption DEF DBTypes, Tx
  <2>4. txs[t] \in [first : Stamp, last : Stamp]
    BY <2>2, ElementOfSeq DEF DBTypes
  <2>5. IndexedBut(store, indexed)
    BY <2>1 DEF Sound, ListedWell
  <2> QED
    BY <2>1, <2>2, <2>3, <2>4, <2>5, DBAssumption DEF Stamp, FirstsKept, DataTrue
<1>1. /\ store' = AddRows(store, newRows) /\ RowsOK(newRows) /\ RowsTrue(newRows)
      /\ \A r \in newRows : r.first = Now
  BY <1>0, PollAdds DEF StoreInv
<1>2. evicted' = evicted /\ txs' = txs
  BY PollStoreIs DEF db
<1>3. InMemory(t) => InMemory(t)'
  <2>1. store'.index = [u \in Tx |-> IF u \in TxsOf(newRows) /\ store.index[u] = "none"
                                     THEN "merged" ELSE store.index[u]]
    BY <1>0, <1>1, AddRowsStore
  <2> QED
    BY <1>0, <2>1 DEF InMemory
<1>4. \A u : ListedIn(store', u) => ListedIn(store, u) \/ u \in TxsOf(newRows)
  BY <1>0, <1>1, AddIndexed
<1>5. ASSUME NEW i \in 1 .. Len(store'.packets),
             \A j \in 1 .. Len(store.packets) : txs[t].first <= store.packets[j].first
      PROVE  txs'[t].first <= store'.packets[i].first
  <2> DEFINE u == store'.packets[i].tx
  <2>1. ListedIn(store', u) /\ store'.packets[i].first = txs[u].first
    BY <1>0, <1>2 DEF ListedIn, EntriesTrue
  <2>2. CASE u \in TxsOf(newRows)
    <3>1. txs[u].first = Now
      BY <1>1, <2>2 DEF TxsOf, RowsTrue
    <3> QED
      BY <1>0, <2>1, <3>1
  <2>3. CASE ListedIn(store, u)
    <3>1. PICK j \in 1 .. Len(store.packets) : store.packets[j].tx = u
      BY <2>3 DEF ListedIn
    <3>2. store.packets[j].first = txs[u].first
      BY <1>0, <3>1 DEF EntriesTrue
    <3> QED
      BY <1>0, <1>5, <2>1, <3>2
  <2> QED
    BY <1>4, <2>1, <2>2, <2>3
<1> QED
  BY <1>0, <1>2, <1>3, <1>5 DEF Safe

\* Eviction takes the oldest first, and without a memory bound only what the
\* retention window has left.
LEMMA SafeEviction ==
    ASSUME StoreInv, Quiet, loadComplete, RunEviction, FirstsKept, [Next]_vars,
           NEW t \in 1 .. Len(txs), NEW from, Safe(t, from)
    PROVE  Safe(t, from)'
<1> DEFINE k == EvictCount(store)
           p == store.packets
           q == store'.packets
<1>0. /\ DBTypes /\ Store(store) /\ StoreTrue(store)
      /\ Leads(store) /\ EntriesTrue(p) /\ p \in Seq(Entry) /\ Len(p) \in Nat /\ Sorted(p)
      /\ t \in Tx /\ txs'[t].first = txs[t].first /\ txs[t].first \in 0 .. Now
      /\ Now \in Nat /\ Floor \in Nat /\ MaxMemory \in Nat
      /\ \A u \in Tx : InMemory(u) => ListedIn(store, u) \/ u \in indexed
  <2>1. CursorInv /\ DataTrue /\ Sound
    BY DEF StoreInv
  <2>2. DBTypes /\ Store(store) /\ StoreTrue(store)
    BY <2>1, Basics
  <2>3. t \in Tx /\ Len(txs) \in Nat
    BY <2>2, DBAssumption DEF DBTypes, Tx
  <2>4. txs[t] \in [first : Stamp, last : Stamp]
    BY <2>2, ElementOfSeq DEF DBTypes
  <2>5. Leads(store) /\ Sorted(p) /\ \A u \in Tx : InMemory(u) => ListedIn(store, u) \/ u \in indexed
    BY <2>1 DEF Sound, ListedWell, IndexedBut, SortedWhenDone, InMemory
  <2>6. EntriesTrue(p) /\ p \in Seq(Entry) /\ Len(p) \in Nat
    BY <2>1 DEF DataTrue, EntriesTrue
  <2> QED
    BY <2>1, <2>2, <2>3, <2>4, <2>5, <2>6, DBAssumption, StoreAssumption DEF Stamp, FirstsKept
<1>1. /\ store' = EvictHead(store, k) /\ evicted' = evicted \union {p[i].tx : i \in 1 .. k}
      /\ k \in 0 .. Len(p)
      /\ MaxMemory = 0 => \A i \in 1 .. k : p[i].first < Floor
  BY <1>0, EvictCountIs DEF RunEviction, EvictStale
<1> HIDE DEF k
<1>2. /\ q \in Seq(Entry) /\ Len(q) = Len(p) - k /\ \A i \in 1 .. Len(q) : q[i] = p[i + k]
  BY <1>0, <1>1, EvictHeadIs, SMTT(30) DEF StoreTrue
<1>3. \A u \in Tx : store'.index[u] = IF u \in {p[i].tx : i \in 1 .. k} THEN "none" ELSE store.index[u]
  BY <1>0, <1>1, EvictHeadStore
<1>4. ASSUME NEW i \in 1 .. Len(q) PROVE i + k \in 1 .. Len(p) /\ q[i] = p[i + k] /\ i + k > k
  BY <1>0, <1>1, <1>2, SMTT(30)
<1>5. \A i \in 1 .. Len(p) : p[i].first \in Int
  BY <1>0, FirstIsInt
<1>6. CASE InMemory(t) /\ ~InMemory(t)' /\ txs[t].first >= Floor
  <2>1. PICK i \in 1 .. k : p[i].tx = t
    BY <1>0, <1>3, <1>6 DEF InMemory
  <2>2. i \in 1 .. Len(p) /\ p[i].first = txs[t].first
    BY <1>0, <1>1, <2>1 DEF EntriesTrue
  <2>3. MaxMemory > 0
    <3>1. p[i].first >= Floor /\ p[i].first \in Int
      BY <1>5, <1>6, <2>2
    <3> QED
      BY <1>0, <1>1, <2>1, <3>1
  <2>4. t \in evicted'
    BY <1>1, <2>1
  <2>5. ASSUME NEW j \in 1 .. Len(q) PROVE txs[t].first <= q[j].first
    <3>1. j + k \in 1 .. Len(p) /\ q[j] = p[j + k] /\ i < j + k
      BY <1>1, <1>4, <2>1
    <3>2. p[i].first <= p[j + k].first
      BY <1>0, <2>2, <3>1 DEF Sorted
    <3> QED
      BY <2>2, <3>1, <3>2
  <2> QED
    BY <1>0, <2>3, <2>4, <2>5 DEF Safe
<1>7. CASE ~InMemory(t)
  <2>1. ASSUME \A j \in 1 .. Len(p) : txs[t].first <= p[j].first, NEW j \in 1 .. Len(q)
        PROVE  txs[t].first <= q[j].first
    BY <1>4, <2>1
  <2>2. evicted \subseteq evicted'
    BY <1>1
  <2>3. txs[t].first >= from /\ txs[t].first >= Floor =>
           MaxMemory > 0 /\ t \in evicted /\ \A i \in 1 .. Len(p) : txs[t].first <= p[i].first
    BY <1>7 DEF Safe
  <2> QED
    BY <1>0, <2>1, <2>2, <2>3 DEF Safe
<1> QED
  BY <1>0, <1>6, <1>7 DEF Safe

\* Once the verification is through, what a reader may count on stays so.
LEMMA SafeStep ==
    ASSUME StoreInv, DataTrue', Quiet, loadComplete, loader \in Ending, FirstsKept, [Next]_vars,
           NEW t \in 1 .. Len(txs), NEW from, Safe(t, from)
    PROVE  Safe(t, from)'
<1>1. CASE store' = store /\ evicted' = evicted
  <2>1. txs'[t].first = txs[t].first
    BY DEF FirstsKept
  <2> QED
    BY <1>1, <2>1 DEF Safe, InMemory
<1>2. CASE Poll /\ IngestNewObservations /\ store' = AddObservations(store, newObs)
  <2>1. store'.index = store.index /\ store'.packets = store.packets
    <3>1. DBTypes /\ Store(store) /\ newObs \in SUBSET (1 .. Len(obs))
      BY DEF StoreInv, CursorInv, IngestTypes
    <3> QED
      BY <1>2, <3>1, AddObservationsStore
  <2>2. txs' = txs /\ evicted' = evicted
    BY <1>2, PollStoreIs DEF db
  <2> QED
    BY <2>1, <2>2 DEF Safe, InMemory
<1> QED
  BY <1>1, <1>2, EndingStep, SafePoll, SafeEviction

------------------------------------------------------------------------------
\* The count in memory equals the count in the table only if all those rows
\* are in memory: wherever the binary search stops, no entry is counted twice
\* and none that the table does not have.
LEMMA CountIs ==
    ASSUME DBTypes, EntriesTrue(store.packets), Leads(store),
           NEW skipped \in 0 .. Len(store.packets), NEW from, NEW maxID \in 0 .. Len(txs),
           CountRetained(skipped, from, maxID) = Cardinality({t \in 1 .. maxID : txs[t].first >= from}),
           NEW t \in 1 .. maxID, txs[t].first >= from
    PROVE  InMemory(t)
<1> DEFINE p == store.packets
           I == {i \in skipped + 1 .. Len(p) : p[i].tx <= maxID /\ p[i].first >= from}
           D == {u \in 1 .. maxID : txs[u].first >= from}
           f == [i \in I |-> p[i].tx]
<1>0. Len(txs) \in Nat /\ Len(p) \in Nat /\ maxID \in Nat /\ skipped \in Nat
  BY DEF DBTypes, EntriesTrue
<1>1. Cardinality(I) = Cardinality(D)
  BY DEF CountRetained
<1>2. ASSUME NEW i \in I
      PROVE  /\ i \in 1 .. Len(p) /\ p[i].tx \in D
             /\ store.index[p[i].tx] = p[i].by /\ p[i].by \in Maker
  <2>1. i \in 1 .. Len(p) /\ p[i].tx <= maxID /\ p[i].first >= from
    BY <1>0, Between
  <2>2. p[i].tx \in 1 .. Len(txs) /\ p[i].first = txs[p[i].tx].first
    BY <2>1 DEF EntriesTrue
  <2>3. p[i].tx \in D
    BY <1>0, <2>1, <2>2
  <2> QED
    BY <2>1, <2>3, EntryIs DEF Leads
<1>3. \A i, j \in I : p[i].tx = p[j].tx => i = j
  BY <1>2 DEF Leads
<1>4. IsFiniteSet(D)
  <2>1. D \subseteq 1 .. maxID
    OBVIOUS
  <2> QED
    BY <1>0, <2>1, UpToFinite, FS_Subset
<1>5. t \in D
  OBVIOUS
<1> HIDE DEF I, D, p
<1>6. f \in Injection(I, D)
  BY <1>2, <1>3 DEF Injection, IsInjective
<1>7. f \in Surjection(I, D)
  BY <1>1, <1>4, <1>6, FS_Injection
<1>8. PICK i \in I : f[i] = t
  BY <1>5, <1>7 DEF Surjection
<1>9. p[i].tx = t
  BY <1>8
<1> QED
  BY <1>2, <1>9 DEF InMemory, Maker

\* Where the verification is, and what it has in hand.
CoverPlace ==
    /\ check \in [attempt : Nat, from : Nat \union {Unproven}, maxID : Nat, inDB : Nat]
    /\ check.maxID <= Len(txs) /\ retainedFrom \in Nat \union {Unproven}
    /\ loader \in {"count", "compare"} => check.from # Unproven
    /\ retainedFrom # Unproven => loader \in {"finish", "ended"} /\ loadComplete

\* The count of the table is still true when it is compared.
CountTrue ==
    loader = "compare" =>
        check.inDB = Cardinality({t \in 1 .. check.maxID : txs[t].first >= check.from})

\* What is proved, to be published or published, is true.
Covered ==
    /\ loader = "publish" /\ check.from # Unproven =>
          \A t \in 1 .. check.maxID : Safe(t, check.from)
    /\ retainedFrom # Unproven => \A t \in 1 .. check.maxID : Safe(t, retainedFrom)

\* The verification's own steps, and all others.
LEMMA CheckCases ==
    ASSUME [Next]_vars
    PROVE  \/ VerifyEdge \/ VerifyCount \/ VerifyCountFails \/ VerifyCompare \/ Publish
           \/ /\ UNCHANGED <<check, retainedFrom>>
              /\ loader' \in {"count", "compare", "publish"} => loader' = loader
              /\ loader \in {"finish", "ended"} =>
                    loader' \in {"finish", "ended"} /\ loadComplete' = loadComplete
<1>1. CASE ~Load
  <2>1. UNCHANGED <<check, retainedFrom>>
    BY <1>1 DEF Next, Write, Poll, RunEviction, vars, verifyVars
  <2>2. UNCHANGED <<loader, loadComplete>>
    BY <1>1, LoadFrame
  <2> QED
    BY <2>1, <2>2
<1>2. CASE Load /\ ~VerifyNext
  <2>1. UNCHANGED <<check, retainedFrom>> /\ (LoaderNext \/ Finish(retainedFrom # Unproven))
    BY <1>2 DEF Load, verifyVars
  <2>2. loader' \notin {"count", "compare", "publish"}
    BY <2>1 DEF LoaderNext, BeginLoad, HotCount, HotQuery, HotMerge, HotFails, HotFinish,
         FillBegin, FillQuery, FillFails, FillIndex, FillPublish, ReheardQuery, ReheardLoad,
         ReheardMissing, ReheardFails, FillMeasure, Finish
  <2>3. loader \in {"finish", "ended"} => loader' = "ended" /\ loadComplete' = loadComplete
    BY <2>1 DEF LoaderNext, BeginLoad, HotCount, HotQuery, HotMerge, HotFails, HotFinish,
         FillBegin, FillQuery, FillFails, FillIndex, FillPublish, ReheardQuery, ReheardLoad,
         ReheardMissing, ReheardFails, FillMeasure, Finish
  <2> QED
    BY <2>1, <2>2, <2>3
<1> QED
  BY <1>1, <1>2 DEF VerifyNext

------------------------------------------------------------------------------
\* Reading the edge, counting, and failing to count prove nothing yet.
LEMMA CheckStep ==
    ASSUME StoreInv, EdgeTimes, CoverPlace, [Next]_vars, VerifyEdge \/ VerifyCount \/ VerifyCountFails
    PROVE  CoverPlace' /\ CountTrue' /\ Covered'
<1>0. /\ store.maxTxID \in Nat /\ store.maxTxID <= Len(txs) /\ Len(txs) \in Nat
      /\ check \in [attempt : Nat, from : Nat \union {Unproven}, maxID : Nat, inDB : Nat]
      /\ check.maxID <= Len(txs) /\ Unproven = -1
  <2>1. DBTypes /\ Store(store)
    BY DEF StoreInv, CursorInv, IngestTypes
  <2>2. store.maxTxID \in 0 .. Len(txs) /\ Len(txs) \in Nat
    BY <2>1 DEF DBTypes, Store
  <2> QED
    BY <2>2 DEF CoverPlace, Unproven
<1>1. /\ UNCHANGED <<txs, store, retainedFrom, loadComplete>>
      /\ loader \notin {"finish", "ended"}
  BY DEF VerifyEdge, VerifyCount, VerifyCountFails, At, db, signals
<1>2. retainedFrom = Unproven
  BY <1>1 DEF CoverPlace
<1>3. CASE VerifyEdge
  <2>1. /\ check' = [check EXCEPT !.attempt = @ + 1, !.from = Edge, !.maxID = store.maxTxID]
        /\ loader' = IF Edge = Unproven THEN "publish" ELSE "count"
    BY <1>3 DEF VerifyEdge, At
  <2>2. Edge \in Nat \union {Unproven}
    BY EdgeIs
  <2>3. /\ check' \in [attempt : Nat, from : Nat \union {Unproven}, maxID : Nat, inDB : Nat]
        /\ check'.maxID = store.maxTxID /\ check'.from = Edge
    <3> DEFINE edge == Edge
               top == store.maxTxID
    <3>1. edge \in Nat \union {Unproven} /\ top \in Nat
      BY <1>0, <2>2
    <3>2. check' = [check EXCEPT !.attempt = @ + 1, !.from = edge, !.maxID = top]
      BY <2>1
    <3> HIDE DEF edge, top
    <3>3. /\ check' \in [attempt : Nat, from : Nat \union {Unproven}, maxID : Nat, inDB : Nat]
          /\ check'.maxID = top /\ check'.from = edge
      <4>1. /\ check = [attempt |-> check.attempt, from |-> check.from, maxID |-> check.maxID,
                        inDB |-> check.inDB]
            /\ check.attempt \in Nat /\ check.inDB \in Nat
        BY <1>0
      <4>2. check' = [attempt |-> check.attempt + 1, from |-> edge, maxID |-> top,
                      inDB |-> check.inDB]
        BY <3>2, <4>1
      <4>3. check.attempt + 1 \in Nat
        BY <4>1
      <4> QED
        BY <3>1, <4>1, <4>2, <4>3
    <3> QED
      BY <3>3 DEF edge, top
  <2>4. CoverPlace'
    BY <1>0, <1>1, <1>2, <2>1, <2>3 DEF CoverPlace
  <2>5. CountTrue' /\ Covered'
    BY <1>1, <1>2, <2>1, <2>3 DEF CountTrue, Covered
  <2> QED
    BY <2>4, <2>5
<1>4. CASE VerifyCount
  <2> DEFINE S == {t \in 1 .. Len(txs) : txs[t].first >= check.from /\ t <= check.maxID}
             D == {t \in 1 .. check.maxID : txs[t].first >= check.from}
  <2>1. /\ check' = [check EXCEPT !.inDB = Cardinality(S)]
        /\ loader = "count" /\ loader' = "compare"
    BY <1>4 DEF VerifyCount, At
  <2>2. S = D
    BY <1>0
  <2>3. Cardinality(S) \in Nat
    <3>1. S \in SUBSET (1 .. Len(txs))
      OBVIOUS
    <3> QED
      BY <1>0, <3>1, UpToFinite, FS_Subset, FS_CardinalityType
  <2>4. check'.inDB = Cardinality(D)
    BY <1>0, <2>1, <2>2
  <2> HIDE DEF S
  <2>5. /\ check' \in [attempt : Nat, from : Nat \union {Unproven}, maxID : Nat, inDB : Nat]
        /\ check'.maxID = check.maxID /\ check'.from = check.from
    BY <1>0, <2>1, <2>3
  <2>6. CoverPlace'
    BY <1>0, <1>1, <1>2, <2>1, <2>5 DEF CoverPlace
  <2>7. CountTrue'
    BY <1>1, <2>4, <2>5 DEF CountTrue
  <2>8. Covered'
    BY <1>1, <1>2, <2>1 DEF Covered
  <2> QED
    BY <2>6, <2>7, <2>8
<1>5. CASE VerifyCountFails
  <2>1. check' = [check EXCEPT !.from = Unproven, !.attempt = 0] /\ loader' = "publish"
    BY <1>5 DEF VerifyCountFails, At
  <2>2. /\ check' \in [attempt : Nat, from : Nat \union {Unproven}, maxID : Nat, inDB : Nat]
        /\ check'.maxID = check.maxID /\ check'.from = Unproven
    BY <1>0, <2>1
  <2>3. CoverPlace'
    BY <1>0, <1>1, <1>2, <2>1, <2>2 DEF CoverPlace
  <2>4. CountTrue' /\ Covered'
    BY <1>1, <1>2, <2>1, <2>2 DEF CountTrue, Covered
  <2> QED
    BY <2>3, <2>4
<1> QED
  BY <1>3, <1>4, <1>5

\* What the comparison finds equal is in memory.
LEMMA CompareStep ==
    ASSUME StoreInv, CoverPlace, CountTrue, [Next]_vars, VerifyCompare
    PROVE  CoverPlace' /\ CountTrue' /\ (Quiet => Covered')
<1>0. /\ DBTypes /\ EntriesTrue(store.packets) /\ Len(txs) \in Nat
      /\ check \in [attempt : Nat, from : Nat \union {Unproven}, maxID : Nat, inDB : Nat]
      /\ check.maxID <= Len(txs) /\ Unproven = -1 /\ check.maxID \in 0 .. Len(txs)
      /\ Quiet => Leads(store)
  <2>1. DBTypes /\ EntriesTrue(store.packets)
    BY DEF StoreInv, CursorInv, IngestTypes, DataTrue
  <2>2. Quiet => Leads(store)
    BY DEF StoreInv, Sound, ListedWell, IndexedBut
  <2>3. /\ check \in [attempt : Nat, from : Nat \union {Unproven}, maxID : Nat, inDB : Nat]
        /\ check.maxID <= Len(txs) /\ Unproven = -1
    BY DEF CoverPlace, Unproven
  <2>4. Len(txs) \in Nat /\ check.maxID \in Nat
    BY <2>1, <2>3 DEF DBTypes
  <2> QED
    BY <2>1, <2>2, <2>3, <2>4
<1>1. /\ UNCHANGED <<txs, store, evicted, retainedFrom, loadComplete>>
      /\ loader = "compare"
  BY DEF VerifyCompare, At, db, signals
<1>2. retainedFrom = Unproven /\ check.from # Unproven
      /\ check.inDB = Cardinality({t \in 1 .. check.maxID : txs[t].first >= check.from})
  BY <1>1 DEF CoverPlace, CountTrue
<1>3. CASE loader' = "verify" /\ check' = check
  <2>1. CoverPlace'
    BY <1>0, <1>1, <1>2, <1>3 DEF CoverPlace
  <2>2. CountTrue' /\ Covered'
    BY <1>1, <1>2, <1>3 DEF CountTrue, Covered
  <2> QED
    BY <2>1, <2>2
<1>4. ASSUME loader' = "publish", NEW skipped \in Boundaries(store.packets, check.from),
             NEW proven \in BOOLEAN,
             proven => CountRetained(skipped, check.from, check.maxID) = check.inDB,
             check' = [check EXCEPT !.from = IF proven THEN @ ELSE Unproven,
                                    !.attempt = 0, !.inDB = 0]
      PROVE  CoverPlace' /\ CountTrue' /\ (Quiet => Covered')
  <2>1. /\ check' \in [attempt : Nat, from : Nat \union {Unproven}, maxID : Nat, inDB : Nat]
        /\ check'.maxID = check.maxID /\ check'.from = IF proven THEN check.from ELSE Unproven
    BY <1>0, <1>4
  <2>2. CoverPlace'
    BY <1>0, <1>1, <1>2, <1>4, <2>1 DEF CoverPlace
  <2>3. CountTrue'
    BY <1>4 DEF CountTrue
  <2>4. ASSUME Quiet, proven, NEW t \in 1 .. check.maxID, txs[t].first >= check.from
        PROVE  InMemory(t)
    <3>1. skipped \in 0 .. Len(store.packets)
      BY DEF Boundaries
    <3>2. CountRetained(skipped, check.from, check.maxID)
             = Cardinality({u \in 1 .. check.maxID : txs[u].first >= check.from})
      BY <1>2, <1>4, <2>4
    <3> QED
      BY <1>0, <2>4, <3>1, <3>2, CountIs
  <2>5. ASSUME Quiet, check'.from # Unproven, NEW t \in 1 .. check'.maxID PROVE Safe(t, check.from)'
    <3>1. txs[t].first >= check.from => InMemory(t)
      BY <2>1, <2>4, <2>5
    <3>2. InMemory(t)' <=> InMemory(t)
      BY <1>1 DEF InMemory
    <3> QED
      BY <1>1, <2>1, <2>5, <3>1, <3>2 DEF Safe
  <2>6. Quiet => Covered'
    BY <1>1, <1>2, <2>5 DEF Covered
  <2> QED
    BY <2>2, <2>3, <2>6
<1>5. \/ loader' = "verify" /\ check' = check
      \/ /\ loader' = "publish"
         /\ \E skipped \in Boundaries(store.packets, check.from), proven \in BOOLEAN :
               /\ proven => CountRetained(skipped, check.from, check.maxID) = check.inDB
               /\ check' = [check EXCEPT !.from = IF proven THEN @ ELSE Unproven,
                                         !.attempt = 0, !.inDB = 0]
  <2>1. ASSUME NEW skipped \in Boundaries(store.packets, check.from),
               check' = [check EXCEPT
                   !.from = IF /\ Edge = check.from
                               /\ CountRetained(skipped, check.from, check.maxID) = check.inDB
                            THEN @ ELSE Unproven,
                   !.attempt = 0, !.inDB = 0]
        PROVE  \E proven \in BOOLEAN :
               /\ proven => CountRetained(skipped, check.from, check.maxID) = check.inDB
               /\ check' = [check EXCEPT !.from = IF proven THEN @ ELSE Unproven,
                                         !.attempt = 0, !.inDB = 0]
    <3> DEFINE both == /\ Edge = check.from
                       /\ CountRetained(skipped, check.from, check.maxID) = check.inDB
    <3>1. both \in BOOLEAN
      OBVIOUS
    <3>2. check' = [check EXCEPT !.from = IF both THEN @ ELSE Unproven,
                                 !.attempt = 0, !.inDB = 0]
      BY <2>1
    <3>3. both => CountRetained(skipped, check.from, check.maxID) = check.inDB
      OBVIOUS
    <3> HIDE DEF both
    <3> QED
      BY <3>1, <3>2, <3>3
  <2> QED
    BY <2>1 DEF VerifyCompare, At
<1> QED
  BY <1>3, <1>4, <1>5

------------------------------------------------------------------------------
\* Publishing changes what is said, not what is so.
LEMMA PublishStep ==
    ASSUME StoreInv, CoverPlace, Covered, [Next]_vars, Publish
    PROVE  Covered'
<1>1. /\ UNCHANGED <<txs, store, evicted, check>> /\ retainedFrom' = check.from
      /\ loader = "publish" /\ loader' = "finish"
  BY DEF Publish, At, db
<1>2. ASSUME check.from # Unproven, NEW t \in 1 .. check.maxID PROVE Safe(t, check.from)
  BY <1>1, <1>2 DEF Covered
<1> QED
  BY <1>1, <1>2 DEF Covered, Safe, InMemory

\* Every other step leaves the proof, and what it says stays true.
LEMMA CoveredStays ==
    ASSUME StoreInv, DataTrue', CoverPlace, Covered, Quiet, FirstsKept, [Next]_vars,
           UNCHANGED <<check, retainedFrom>>,
           loader' = "publish" => loader = "publish"
    PROVE  Covered'
<1>0. /\ check.maxID \in Nat /\ check.maxID <= Len(txs) /\ Len(txs) \in Nat /\ LoadPlace
  BY DEF CoverPlace, StoreInv, CursorInv, IngestTypes, DBTypes, DataTrue
<1>1. ASSUME loader \in Ending, loadComplete, NEW from, NEW t \in 1 .. check.maxID, Safe(t, from)
      PROVE  Safe(t, from)'
  <2>1. t \in 1 .. Len(txs)
    BY <1>0
  <2> QED
    BY <1>1, <2>1, SafeStep
<1>2. ASSUME loader' = "publish", check'.from # Unproven, NEW t \in 1 .. check'.maxID
      PROVE  Safe(t, check.from)'
  <2>1. loader = "publish" /\ check.from # Unproven /\ loadComplete /\ t \in 1 .. check.maxID
    BY <1>0, <1>2 DEF LoadPlace, HotStates
  <2>2. Safe(t, check.from)
    BY <2>1 DEF Covered
  <2> DEFINE from == check.from
  <2>3. Safe(t, from)
    BY <2>2
  <2> HIDE DEF from
  <2>4. Safe(t, from) /\ loader \in Ending
    BY <2>1, <2>3 DEF Ending
  <2>5. txs'[t].first >= from /\ txs'[t].first >= Floor /\ ~InMemory(t)' =>
           /\ MaxMemory > 0 /\ t \in evicted'
           /\ \A i \in 1 .. Len(store'.packets) : txs'[t].first <= store'.packets[i].first
    BY <1>1, <2>1, <2>4 DEF Safe
  <2>6. check'.from = from
    BY DEF from
  <2> QED
    BY <2>5, <2>6 DEF Safe
<1>3. ASSUME retainedFrom' # Unproven, NEW t \in 1 .. check'.maxID
      PROVE  Safe(t, retainedFrom)'
  <2>1. /\ retainedFrom # Unproven /\ loadComplete /\ t \in 1 .. check.maxID
        /\ loader \in Ending
    BY <1>3 DEF CoverPlace, Ending
  <2>2. Safe(t, retainedFrom)
    BY <2>1 DEF Covered
  <2> DEFINE from == retainedFrom
  <2>3. Safe(t, from)
    BY <2>2
  <2> HIDE DEF from
  <2>5. txs'[t].first >= from /\ txs'[t].first >= Floor /\ ~InMemory(t)' =>
           /\ MaxMemory > 0 /\ t \in evicted'
           /\ \A i \in 1 .. Len(store'.packets) : txs'[t].first <= store'.packets[i].first
    BY <1>1, <2>1, <2>3 DEF Safe
  <2>6. retainedFrom' = from
    BY DEF from
  <2> QED
    BY <2>5, <2>6 DEF Safe
<1> QED
  BY <1>2, <1>3 DEF Covered

\* The verification, step by step.
LEMMA CoverStep ==
    ASSUME RxTimes \subseteq {Now}, StoreInv, StoreInv', EdgeTimes, CoverPlace, CountTrue,
           Quiet => Covered, [Next]_vars
    PROVE  CoverPlace' /\ CountTrue' /\ (Quiet' => Covered')
<1>0. /\ FirstsKept /\ DataTrue' /\ Len(txs) \in Nat /\ Len(txs') \in Nat /\ Len(txs) <= Len(txs')
      /\ LoadPlace /\ LoadPlace' /\ (Quiet' => Quiet)
      /\ check.maxID \in Nat /\ check.maxID <= Len(txs)
  <2>1. CursorInv /\ DataTrue /\ DataTrue' /\ PollPlace
    BY DEF StoreInv
  <2>2. /\ IngestTypes /\ RowsInHand /\ TimesFixed /\ heardMaxID \in 0 .. store.maxTxID
        /\ LoadPlace /\ LoadPlace'
    BY <2>1 DEF CursorInv, DataTrue
  <2>3. FirstsKept
    BY <2>2, TimesStep
  <2>4. DBTypes /\ DBTypes' /\ TablesGrow
    BY <2>1, Basics
  <2>5. Quiet' => Quiet
    BY <2>1, <2>2, QuietBack
  <2> QED
    BY <2>1, <2>2, <2>3, <2>4, <2>5 DEF DBTypes, TablesGrow, CoverPlace
<1>1. CASE VerifyEdge \/ VerifyCount \/ VerifyCountFails
  BY <1>1, CheckStep
<1>2. CASE VerifyCompare
  BY <1>0, <1>2, CompareStep
<1>3. CASE Publish
  <2>1. /\ UNCHANGED <<txs, check, loadComplete>> /\ retainedFrom' = check.from
        /\ loader = "publish" /\ loader' = "finish"
    BY <1>3 DEF Publish, At, db, signals
  <2>2. loadComplete
    BY <1>0, <2>1 DEF LoadPlace, HotStates
  <2>3. CoverPlace'
    BY <2>1, <2>2 DEF CoverPlace
  <2>4. CountTrue'
    BY <2>1 DEF CountTrue
  <2> QED
    BY <1>0, <1>3, <2>3, <2>4, PublishStep
<1>4. CASE /\ UNCHANGED <<check, retainedFrom>>
           /\ loader' \in {"count", "compare", "publish"} => loader' = loader
           /\ loader \in {"finish", "ended"} =>
                 loader' \in {"finish", "ended"} /\ loadComplete' = loadComplete
  <2>1. CoverPlace'
    BY <1>0, <1>4 DEF CoverPlace
  <2>2. CountTrue'
    <3> SUFFICES ASSUME loader' = "compare"
                 PROVE  check'.inDB = Cardinality({t \in 1 .. check'.maxID : txs'[t].first >= check'.from})
      BY DEF CountTrue
    <3>1. check.inDB = Cardinality({t \in 1 .. check.maxID : txs[t].first >= check.from})
      BY <1>4 DEF CountTrue
    <3>2. \A t \in 1 .. check.maxID : txs'[t].first = txs[t].first
      BY <1>0 DEF FirstsKept
    <3>3. {t \in 1 .. check.maxID : txs[t].first >= check.from}
             = {t \in 1 .. check.maxID : txs'[t].first >= check.from}
      BY <3>2
    <3> QED
      BY <1>4, <3>1, <3>3
  <2>3. Quiet' => Covered'
    BY <1>0, <1>4, CoveredStays
  <2> QED
    BY <2>1, <2>2, <2>3
<1> QED
  BY <1>1, <1>2, <1>3, <1>4, CheckCases

\* The store, and what the verification says of it.
CoverInv == StoreInv /\ EdgeTimes /\ CoverPlace /\ CountTrue /\ (Quiet => Covered)

\* CoverInv holds throughout.
LEMMA CoverInvariant ==
    ASSUME RxTimes \subseteq {Now}
    PROVE  Spec => []CoverInv
<1>1. Init => EdgeTimes /\ CoverPlace /\ CountTrue /\ (Quiet => Covered)
  <2> SUFFICES ASSUME Init PROVE EdgeTimes /\ CoverPlace /\ CountTrue /\ Covered
    OBVIOUS
  <2>1. /\ store = EmptyStore /\ loader = "begin" /\ oldestLoaded = Now /\ retainedFrom = Unproven
        /\ check = [attempt |-> 0, from |-> Unproven, maxID |-> 0, inDB |-> 0]
    BY DEF Init, LoadInit, VerifyInit
  <2>2. Len(txs) \in Nat
    BY InitTypes DEF IngestTypes, DBTypes
  <2>3. store.evictedFrom = 0 /\ Now \in Nat
    BY <2>1, DBAssumption DEF EmptyStore
  <2>4. EdgeTimes
    BY <2>1, <2>3 DEF EdgeTimes
  <2>5. check.maxID = 0 /\ check.from = Unproven
        /\ check \in [attempt : Nat, from : Nat \union {Unproven}, maxID : Nat, inDB : Nat]
    BY <2>1
  <2>6. CoverPlace
    BY <2>1, <2>2, <2>5 DEF CoverPlace
  <2>7. CountTrue /\ Covered
    BY <2>1 DEF CountTrue, Covered
  <2> QED
    BY <2>4, <2>6, <2>7
<1>2. ASSUME StoreInv, StoreInv', EdgeTimes /\ CoverPlace /\ CountTrue /\ (Quiet => Covered),
             [Next]_vars
      PROVE  (EdgeTimes /\ CoverPlace /\ CountTrue /\ (Quiet => Covered))'
  <2>1. EdgeTimes'
    BY <1>2, EdgeTimesStep DEF StoreInv
  <2> QED
    BY <1>2, <2>1, CoverStep
<1> QED
  BY <1>1, <1>2, StoreInvariant, PTL DEF Spec, CoverInv

\* CoverageIsTrue: what verifyRetainedHistory proved and the readers take as
\* complete history is complete, then and later, although the counts were taken
\* at different times and the poller and the eviction go on -- unless the poller
\* replayed or ran behind the eviction (Quiet), when the slice may list one row
\* twice and the count in memory counts it twice.
THEOREM CoverageIsTrueHolds ==
    ASSUME RxTimes \subseteq {Now}
    PROVE  Spec => [](NotReplayed /\ ~EvictedAhead => CoverageIsTrue)
<1>1. CoverInv => (NotReplayed /\ ~EvictedAhead => CoverageIsTrue)
  <2> SUFFICES ASSUME CoverInv, Quiet, CoverageStart # Unproven, NEW t \in 1 .. check.maxID
               PROVE  \/ txs[t].first < CoverageStart \/ InMemory(t)
                      \/ MaxMemory > 0 /\ txs[t].first = CoverageStart /\ t \in evicted
    BY DEF CoverageIsTrue, Quiet
  <2> DEFINE head == store.packets[1].first
             S == {retainedFrom, Floor} \union (IF MaxMemory > 0 THEN {head} ELSE {})
  <2>1. /\ store.packets # << >> /\ retainedFrom # Unproven /\ CoverageStart = Max(S)
    BY DEF CoverageStart
  <2>2. /\ retainedFrom \in Nat /\ Floor \in Nat /\ Now \in Nat /\ Floor <= Now
        /\ DBTypes /\ EntriesTrue(store.packets) /\ t \in 1 .. Len(txs) /\ Safe(t, retainedFrom)
    <3>1. retainedFrom \in Nat /\ Safe(t, retainedFrom)
      BY <2>1 DEF CoverInv, CoverPlace, Covered
    <3>2. DBTypes /\ EntriesTrue(store.packets)
      BY DEF CoverInv, StoreInv, CursorInv, IngestTypes, DataTrue
    <3>3. t \in 1 .. Len(txs)
      BY <3>2 DEF CoverInv, CoverPlace, DBTypes
    <3> QED
      BY <3>1, <3>2, <3>3, DBAssumption, StoreAssumption DEF Stamp
  <2>3. txs[t].first \in Nat
    <3>1. txs[t] \in [first : Stamp, last : Stamp]
      BY <2>2, ElementOfSeq DEF DBTypes
    <3> QED
      BY <2>2, <3>1 DEF Stamp
  <2>4. 1 \in 1 .. Len(store.packets) /\ head \in 0 .. Now
    <3>1. store.packets \in Seq(Entry) /\ Len(store.packets) \in Nat
      BY <2>2 DEF EntriesTrue
    <3>2. Len(store.packets) # 0
      BY <2>1, <3>1, EmptySeq
    <3>3. 1 \in 1 .. Len(store.packets)
      BY <3>1, <3>2
    <3> QED
      BY <2>2, <3>3, EntryIs
  <2>5. /\ retainedFrom + Now \in Nat /\ S \in SUBSET (0 .. retainedFrom + Now) /\ S # {}
        /\ retainedFrom \in S /\ Floor \in S /\ (MaxMemory > 0 => head \in S)
    <3> HIDE DEF head
    <3> QED
      BY <2>2, <2>4
  <2> HIDE DEF S
  <2> DEFINE start == Max(S)
  <2>6. start \in S /\ \A x \in S : x <= start
    BY <2>5, MaxIs
  <2>7. start \in Nat
    <3> HIDE DEF start
    <3> QED
      BY <2>2, <2>5, <2>6
  <2>8. CoverageStart = start
    BY <2>1
  <2> HIDE DEF start, head
  <2>9. ASSUME ~(txs[t].first < start), ~InMemory(t)
        PROVE  MaxMemory > 0 /\ txs[t].first = start /\ t \in evicted
    <3>1. txs[t].first >= retainedFrom /\ txs[t].first >= Floor
      BY <2>2, <2>3, <2>5, <2>6, <2>7, <2>9
    <3>2. MaxMemory > 0 /\ t \in evicted /\ txs[t].first <= head
      BY <2>2, <2>4, <2>9, <3>1 DEF Safe, head
    <3>3. head <= start /\ head \in Nat
      BY <2>2, <2>4, <2>5, <2>6, <3>2
    <3> QED
      BY <2>3, <2>7, <2>9, <3>2, <3>3
  <2> QED
    BY <2>8, <2>9
<1> QED
  BY <1>1, CoverInvariant, PTL
==============================================================================
