---------------------------- MODULE ObservationDB ----------------------------
(***************************************************************************)
(* The two SQLite tables the ingestor writes and the server only reads,    *)
(* and the ingestor's writer (Store.InsertTransmission).  The writer runs  *)
(* under writerMu, one packet at a time, but every prepared statement      *)
(* auto-commits: a server query may run between any two of them.           *)
(*                                                                         *)
(* Times are small numbers; Now is the present.  The startup load takes    *)
(* minutes and its windows are hours, so the clock stands still.  A packet *)
(* carries the time its observer received it, one of RxTimes: buffered     *)
(* uploads carry a time before Now (resolveRxTime keeps those).            *)
(***************************************************************************)
EXTENDS Integers, Sequences, FiniteSets, FiniteSetsExt, SequencesExt

CONSTANTS Now,            \* the present
          RxTimes,        \* the receive times of packets heard while running
          ObsWrites,      \* how an observation is written: see WriteObservation
          MaxTx, MaxObs,  \* bounds: rows in the two tables
          MaxFaults       \* bound: SQLite errors of the whole run

ASSUME DBAssumption ==
    /\ Now \in Nat
    /\ RxTimes \subseteq 0 .. Now
    /\ ObsWrites \subseteq {"insert", "upsert"}
    /\ MaxTx \in Nat /\ MaxObs \in Nat /\ MaxFaults \in Nat

VARIABLES
    txs,     \* table transmissions: row t has id t, first_seen, last_seen
    obs,     \* table observations: row o has id o; obs[o] = transmission_id
    writer,  \* what InsertTransmission has done of the packet in hand
    faults   \* SQLite errors so far

db == <<txs, obs, writer>>

Tx == 1 .. MaxTx
Obs == 1 .. MaxObs
Stamp == 0 .. Now
Idle == [pc |-> "idle", tx |-> 0, rx |-> 0]

DBTypeOK ==
    /\ txs \in Seq([first : Stamp, last : Stamp]) /\ Len(txs) <= MaxTx
    /\ obs \in Seq(Tx) /\ Len(obs) <= MaxObs
    /\ writer \in [pc : {"idle", "observe", "bump"}, tx : 0 .. MaxTx, rx : Stamp]
    /\ faults \in 0 .. MaxFaults

ObsOf(t) == {o \in 1 .. Len(obs) : obs[o] = t}

\* What a row of "transmissions LEFT JOIN observations" says of t.
Row(t) == [tx |-> t, first |-> txs[t].first, obs |-> ObsOf(t)]

\* The rows of a query, a set: they carry what they are ordered by, the id or
\* (for a background chunk) first_seen.
Rows(T) == {Row(t) : t \in T}
TxsOf(rows) == {r.tx : r \in rows}

\* ORDER BY id ASC LIMIT n.
FirstN(ids, n) == {x \in ids : Cardinality({y \in ids : y < x}) < n}

Fault == faults < MaxFaults /\ faults' = faults + 1
------------------------------------------------------------------------------
\* A packet with an unknown hash: INSERT INTO transmissions.
InsertTransmission(rx) ==
    /\ writer = Idle
    /\ Len(txs) < MaxTx /\ Len(obs) < MaxObs
    /\ txs' = Append(txs, [first |-> rx, last |-> rx])
    /\ writer' = [pc |-> "observe", tx |-> Len(txs) + 1, rx |-> rx]
    /\ UNCHANGED <<obs, faults>>

\* A packet whose hash is known: first_seen only ever moves back.
RehearTransmission(t, rx) ==
    /\ writer = Idle
    /\ Len(obs) < MaxObs
    /\ txs' = [txs EXCEPT ![t].first = IF rx < @ THEN rx ELSE @]
    /\ writer' = [pc |-> "observe", tx |-> t, rx |-> rx]
    /\ UNCHANGED <<obs, faults>>

\* INSERT ... ON CONFLICT (transmission, observer, path) DO UPDATE: a new row
\* with the next id, or an update of an existing row, which keeps its id.
WriteObservation ==
    /\ writer.pc = "observe"
    /\ \/ "insert" \in ObsWrites /\ obs' = Append(obs, writer.tx)
       \/ "upsert" \in ObsWrites /\ ObsOf(writer.tx) # {} /\ UNCHANGED obs
    /\ writer' = [writer EXCEPT !.pc = "bump"]
    /\ UNCHANGED <<txs, faults>>

\* The insert fails: logged, counted, and last_seen is not bumped.
WriteObservationFails ==
    /\ writer.pc = "observe"
    /\ Fault
    /\ writer' = Idle
    /\ UNCHANGED <<txs, obs>>

\* UPDATE transmissions SET last_seen = rx WHERE last_seen < rx.
BumpLastSeen ==
    /\ writer.pc = "bump"
    /\ txs' = [txs EXCEPT ![writer.tx].last = IF @ < writer.rx THEN writer.rx ELSE @]
    /\ writer' = Idle
    /\ UNCHANGED <<obs, faults>>

WriterNext ==
    \/ \E rx \in RxTimes : InsertTransmission(rx)
    \/ \E t \in 1 .. Len(txs), rx \in RxTimes : RehearTransmission(t, rx)
    \/ WriteObservation
    \/ WriteObservationFails
    \/ BumpLastSeen
==============================================================================
