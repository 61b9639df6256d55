---------------------- MODULE AnalyticsRecomputerProofs ----------------------
(***************************************************************************)
(* For any recomputers, dependencies, readers and failures: no read is     *)
(* lost to a pause, a snapshot that outlived a skipped refresh says so,    *)
(* the warm-up ends on complete data only, and the recompute after the     *)
(* load leaves every recomputer it passed with a snapshot from after it.   *)
(***************************************************************************)
EXTENDS AnalyticsRecomputer, TLAPS

\* A loop that computes has left the pause.
ComputingIsAwake == \A r \in Rc : pc[r] = "compute" => ~paused[r]

\* A pass whose gate sample was open began after the load, and so did every
\* pass of a recomputer that settled or ended its warm-up.
GateTells ==
    \A r \in Rc :
        /\ gate[r] => loaded /\ (pc[r] = "compute" => begun[r])
        /\ settled[r] => loaded /\ (pc[r] = "compute" => begun[r])
        /\ r \in Gated /\ firstPassDone[r] => loaded /\ (pc[r] = "compute" => begun[r])

\* recomputeWhenLoaded asks only after the load; a pass it waits for, and any
\* pass of a recomputer it is done with, began after the load.
PostBounds == postAt >= 1 /\ (post \in {"send", "ack"} => postAt \in 1..Len(order))
PostLoaded == post \in {"next", "send", "ack"} \/ postAt > 1 => loaded
PostWaits ==
    post = "ack" /\ order[postAt] \notin stop /\ pc[order[postAt]] = "compute"
      => begun[order[postAt]]
PostDone ==
    \A i \in 1..Len(order) :
        i < postAt /\ order[i] \notin stop /\ pc[order[i]] = "compute" => begun[order[i]]
PostTells == PostBounds /\ PostLoaded /\ PostWaits /\ PostDone

Inv == /\ TypeOK /\ ComputingIsAwake /\ NoLostWakeup /\ StaleIsLabelled
       /\ GateTells /\ FullDataFirst /\ PostTells /\ RecomputedWhenLoaded

LEMMA InitInv == Init => Inv
  <1> SUFFICES ASSUME Init PROVE Inv
    OBVIOUS
  <1> USE RecomputerAssumption DEF Init
  <1>1. TypeOK BY DEF TypeOK, Readers, NotReading, NoSnapshot, None
  <1>2. ComputingIsAwake /\ NoLostWakeup /\ StaleIsLabelled
    BY DEF ComputingIsAwake, NoLostWakeup, StaleIsLabelled, NoSnapshot
  <1>3. GateTells /\ FullDataFirst BY DEF GateTells, FullDataFirst
  <1>4. PostTells /\ RecomputedWhenLoaded BY DEF PostTells, PostBounds, PostLoaded, PostWaits, PostDone, RecomputedWhenLoaded
  <1>5. QED BY <1>1, <1>2, <1>3, <1>4 DEF Inv
------------------------------------------------------------------------------
PC == {"new", "idle", "stopped", "pausing", "run", "send", "ack", "unpause", "compute"}

LEMMA ToPassType ==
    ASSUME NEW r \in Rc, TypeOK, ToPass(r)
    PROVE  /\ pc' \in [Rc -> PC] /\ left' \in [Rc -> SUBSET Rc]
           /\ job' \in [Rc -> {"start", "own", "now", "none"}]
           /\ \A p \in Rc : pc'[p] \in {"send", "ack"} => waitOn[p] \in Rc
  <1>1. Deps[r] \in SUBSET Rc BY RecomputerAssumption
  <1>2. left' \in [Rc -> SUBSET Rc] BY <1>1 DEF ToPass, TypeOK
  <1>3. QED BY <1>2 DEF ToPass, TypeOK, PC

\* Type correctness, one action at a time.
LEMMA TypeLoop ==
    ASSUME NEW r \in Rc, TypeOK,
           \/ Start(r) \/ Tick(r) \/ PauseDecide(r) \/ Kick(r) \/ LoopStops(r) \/ NextDep(r)
           \/ DepAccepts(r) \/ DepGivesUp(r) \/ BeginPass(r) \/ Unpause(r) \/ ComputeLoads(r)
    PROVE  TypeOK'
  <1> USE RecomputerAssumption DEF flags, results, postVars, loops
  <1>1. CASE Start(r) BY <1>1 DEF Start, TypeOK
  <1>2. CASE Tick(r)
    <2>1. CASE ~MayPause(r) BY <1>2, <2>1, ToPassType DEF Tick, TypeOK, PC
    <2>2. CASE MayPause(r)
      <3>1. /\ paused' = [paused EXCEPT ![r] = TRUE] /\ pc' = [pc EXCEPT ![r] = "pausing"]
            /\ UNCHANGED <<left, job>>
        BY <1>2, <2>2 DEF Tick
      <3>2. paused' \in [Rc -> BOOLEAN] BY <3>1 DEF TypeOK
      <3>3. QED BY <3>1, <3>2, <1>2 DEF Tick, TypeOK
    <2>3. QED BY <2>1, <2>2
  <1>3. CASE PauseDecide(r)
    <2>1. CASE ToPass(r) /\ UNCHANGED <<missed, cache>>
      BY <1>3, <2>1, ToPassType DEF PauseDecide, TypeOK, PC
    <2>2. CASE ~(ToPass(r) /\ UNCHANGED <<missed, cache>>)
      <3>1. /\ missed' = [missed EXCEPT ![r] = TRUE] /\ cache' = [cache EXCEPT ![r].skipped = TRUE]
            /\ pc' = [pc EXCEPT ![r] = "idle"] /\ UNCHANGED <<left, job>>
        BY <1>3, <2>2 DEF PauseDecide
      <3>2. cache' \in [Rc -> [full : BOOLEAN, skipped : BOOLEAN]]
        <4>1. cache[r] \in [full : BOOLEAN, skipped : BOOLEAN] BY DEF TypeOK
        <4>2. [cache[r] EXCEPT !.skipped = TRUE] \in [full : BOOLEAN, skipped : BOOLEAN] BY <4>1
        <4>3. QED BY <3>1, <4>2 DEF TypeOK
      <3>3. QED BY <3>1, <3>2, <1>3 DEF PauseDecide, TypeOK
    <2>3. QED BY <2>1, <2>2
  <1>4. CASE Kick(r)
    <2>1. CASE paused[r] BY <1>4, <2>1, ToPassType DEF Kick, TypeOK, PC
    <2>2. CASE ~paused[r] BY <1>4, <2>2 DEF Kick, TypeOK
    <2>3. QED BY <2>1, <2>2
  <1>5. CASE LoopStops(r) BY <1>5 DEF LoopStops, TypeOK
  <1>6. CASE NextDep(r)
    <2>1. PICK d \in left[r] :
            /\ left' = [left EXCEPT ![r] = @ \ {d}]
            /\ \/ pc' = [pc EXCEPT ![r] = "send"] /\ waitOn' = [waitOn EXCEPT ![r] = d]
               \/ UNCHANGED <<pc, waitOn>>
      BY <1>6 DEF NextDep
    <2>2. left[r] \subseteq Rc /\ left' \in [Rc -> SUBSET Rc] BY <2>1 DEF TypeOK
    <2>3. /\ pc' \in [Rc -> PC] /\ waitOn' \in [Rc -> Rc \cup {None}]
          /\ \A p \in Rc : pc'[p] \in {"send", "ack"} => waitOn'[p] \in Rc
      <3>1. CASE UNCHANGED <<pc, waitOn>> BY <3>1 DEF TypeOK, PC
      <3>2. CASE pc' = [pc EXCEPT ![r] = "send"] /\ waitOn' = [waitOn EXCEPT ![r] = d]
        <4>1. d \in Rc BY <2>2
        <4>2. QED BY <3>2, <4>1 DEF TypeOK, PC
      <3>3. QED BY <2>1, <3>1, <3>2
    <2>4. QED BY <2>2, <2>3, <1>6 DEF NextDep, TypeOK, PC
  <1>7. CASE DepAccepts(r) BY <1>7 DEF DepAccepts, TypeOK
  <1>8. CASE DepGivesUp(r) BY <1>8 DEF DepGivesUp, TypeOK
  <1>9. CASE BeginPass(r) BY <1>9 DEF BeginPass, TypeOK
  <1>10. CASE Unpause(r) BY <1>10 DEF Unpause, TypeOK
  <1>11. CASE ComputeLoads(r)
    <2>1. PICK d \in left[r] :
            /\ left' = [left EXCEPT ![r] = @ \ {d}]
            /\ \/ CountRead(r, d)
               \/ UNCHANGED <<order, asked, loaded, stopPost, stop, pc, job, waitOn, gate, begun,
                              flags, results, reading, postVars>>
      BY <1>11 DEF ComputeLoads
    <2>2. left[r] \subseteq Rc /\ left' \in [Rc -> SUBSET Rc] BY <2>1 DEF TypeOK
    <2>3. CASE CountRead(r, d)
      <3>1. /\ reading' \in [Readers -> [rc : Rc \cup {None}, at : {"out", "counted"}]]
            /\ \A p \in Readers : reading'[p].at = "counted" => reading'[p].rc \in Rc
            /\ readSince' \in [Rc -> BOOLEAN]
        BY <2>1, <2>2, <2>3 DEF CountRead, TypeOK, Readers
      <3>2. QED BY <3>1, <2>2, <2>3 DEF CountRead, TypeOK
    <2>4. QED BY <2>1, <2>2, <2>3 DEF TypeOK
  <1>12. QED
    BY <1>1, <1>2, <1>3, <1>4, <1>5, <1>6, <1>7, <1>8, <1>9, <1>10, <1>11

LEMMA TypeEnds == ASSUME NEW r \in Rc, TypeOK, PassEnds(r) PROVE TypeOK'
  <1>1. PICK outcome \in {"ok", "nil", "panic"} :
         /\ outcome # "ok" => fails > 0
         /\ fails' = IF outcome = "ok" THEN fails ELSE fails - 1
         /\ cache' = IF outcome = "ok"
                     THEN [cache EXCEPT ![r] = [full |-> begun[r], skipped |-> FALSE]]
                     ELSE cache
         /\ lastPassOK' = [lastPassOK EXCEPT ![r] = (outcome = "ok")]
         /\ missed' = [missed EXCEPT ![r] = @ /\ outcome # "ok"]
         /\ settled' = [settled EXCEPT ![r] = @ \/ (outcome = "ok" /\ gate[r])]
         /\ firstPassDone' = [firstPassDone EXCEPT ![r] =
                               @ \/ (outcome # "panic" /\ WarmupReady(r))]
    BY DEF PassEnds
  <1>2. fails' \in Nat BY <1>1 DEF TypeOK
  <1>3. cache' \in [Rc -> [full : BOOLEAN, skipped : BOOLEAN]] BY <1>1 DEF TypeOK
  <1>4. /\ lastPassOK' \in [Rc -> BOOLEAN] /\ missed' \in [Rc -> BOOLEAN]
        /\ settled' \in [Rc -> BOOLEAN] /\ firstPassDone' \in [Rc -> BOOLEAN]
    BY <1>1 DEF TypeOK
  <1>5. /\ pc' \in [Rc -> {"new", "idle", "stopped", "pausing", "run", "send", "ack",
                          "unpause", "compute"}]
        /\ waitOn' \in [Rc -> Rc \cup {None}]
        /\ \A p \in Rc : pc'[p] \in {"send", "ack"} => waitOn'[p] \in Rc
    BY DEF PassEnds, TypeOK
  <1>6. /\ job' \in [Rc -> {"start", "own", "now", "none"}]
        /\ gate' \in [Rc -> BOOLEAN] /\ begun' \in [Rc -> BOOLEAN]
        /\ post' \in {"wait", "next", "send", "ack", "done"} /\ postAt' \in Nat
    BY DEF PassEnds, TypeOK
  <1>7. UNCHANGED <<order, asked, loaded, stopPost, stop, left, readSince, paused, kick, reading>>
    BY DEF PassEnds, flags
  <1>8. QED BY <1>2, <1>3, <1>4, <1>5, <1>6, <1>7 DEF TypeOK

LEMMA TypeRest ==
    ASSUME TypeOK,
           \/ \E p \in Reader : ReaderLoads(p)
           \/ \E p \in Readers : WakeUp(p)
           \/ LoadDone \/ PostStep \/ StopAll \/ StopNext
    PROVE  TypeOK'
  <1> USE RecomputerAssumption DEF flags, results, postVars, loops, TypeOK
  <1>1. CASE \E p \in Reader : ReaderLoads(p) BY <1>1 DEF ReaderLoads, CountRead, Readers
  <1>2. CASE \E p \in Readers : WakeUp(p)
    <2>1. PICK p \in Readers : WakeUp(p) BY <1>2
    <2>2. QED BY <2>1 DEF WakeUp, NotReading
  <1>3. CASE LoadDone BY <1>3 DEF LoadDone
  <1>4. CASE PostNext BY <1>4 DEF PostNext
  <1>5. CASE PostAccepted BY <1>5 DEF PostAccepted
  <1>6. CASE PostGivesUp BY <1>6 DEF PostGivesUp
  <1>7. CASE StopAll BY <1>7 DEF StopAll
  <1>8. CASE StopNext BY <1>8 DEF StopNext
  <1>9. QED BY <1>1, <1>2, <1>3, <1>4, <1>5, <1>6, <1>7, <1>8 DEF PostStep

\* Every flag, channel and goroutine of the recomputers keeps its type.
THEOREM TypeCorrect == Spec => []TypeOK
  <1>1. Init => TypeOK BY InitInv DEF Inv
  <1>2. TypeOK /\ [Next]_vars => TypeOK'
    <2> SUFFICES ASSUME TypeOK, [Next]_vars PROVE TypeOK'
      OBVIOUS
    <2>1. ASSUME NEW r \in Rc, LoopStep(r) PROVE TypeOK'
      <3>1. CASE WakeUp(r) BY <3>1, TypeRest DEF Readers
      <3>2. CASE PassEnds(r) BY <3>2, TypeEnds
      <3>3. QED BY <2>1, <3>1, <3>2, TypeLoop DEF LoopStep
    <2>2. ASSUME NEW p \in Reader, ReaderLoads(p) \/ WakeUp(p) PROVE TypeOK'
      BY <2>2, TypeRest DEF Readers
    <2>3. CASE LoadDone \/ PostStep \/ StopAll \/ StopNext BY <2>3, TypeRest
    <2>4. CASE UNCHANGED vars
      BY <2>4 DEF vars, loops, flags, results, postVars, TypeOK
    <2>5. QED BY <2>1, <2>2, <2>3, <2>4 DEF Next
  <1>3. QED BY <1>1, <1>2, PTL DEF Spec
------------------------------------------------------------------------------
\* pauseTick stores paused and then loads readSince; markRead stores readSince
\* and then loads paused.  Whichever comes last sees the other.
Wakeful == ComputingIsAwake /\ NoLostWakeup

\* A counted reader covers the recomputer it read.
LEMMA WakefulCount ==
    ASSUME NEW p \in Readers, NEW r \in Rc, TypeOK, Wakeful, CountRead(p, r) PROVE Wakeful'
  <1> USE DEF Wakeful, CountRead
  <1>1. ComputingIsAwake' BY DEF ComputingIsAwake
  <1>2. NoLostWakeup'
    <2> SUFFICES ASSUME NEW q \in Rc, pc[q] = "idle", paused[q], readSince'[q]
                 PROVE  kick[q] \/ \E x \in Readers : reading'[x].at = "counted" /\ reading'[x].rc = q
      BY DEF NoLostWakeup
    <2>1. /\ reading'[p] = [rc |-> r, at |-> "counted"]
          /\ \A x \in Readers : x # p => reading'[x] = reading[x]
      BY DEF TypeOK
    <2>2. CASE q = r BY <2>1, <2>2
    <2>3. CASE q # r
      <3>1. readSince[q] BY <2>3 DEF TypeOK
      <3>2. kick[q] \/ \E x \in Readers : reading[x].at = "counted" /\ reading[x].rc = q
        BY <3>1 DEF NoLostWakeup
      <3>3. reading[p].at # "counted" BY DEF NotReading
      <3>4. QED BY <2>1, <3>2, <3>3
    <2>4. QED BY <2>2, <2>3
  <1>3. QED BY <1>1, <1>2

\* A reader leaves a wake-up behind where it is needed.
LEMMA WakefulWakeUp ==
    ASSUME NEW p \in Readers, TypeOK, Wakeful, WakeUp(p) PROVE Wakeful'
  <1> USE DEF Wakeful, WakeUp
  <1>1. ComputingIsAwake' BY DEF ComputingIsAwake, loops
  <1>2. NoLostWakeup'
    <2> SUFFICES ASSUME NEW q \in Rc, pc[q] = "idle", paused[q], readSince[q]
                 PROVE  kick'[q] \/ \E x \in Readers : reading'[x].at = "counted" /\ reading'[x].rc = q
      BY DEF NoLostWakeup, loops
    <2>1. \A x \in Readers : x # p => reading'[x] = reading[x] BY DEF TypeOK
    <2>2. kick[q] \/ reading[p].rc = q => kick'[q] BY DEF TypeOK
    <2>3. kick[q] \/ \E x \in Readers : reading[x].at = "counted" /\ reading[x].rc = q
      BY DEF NoLostWakeup
    <2>4. QED BY <2>1, <2>2, <2>3
  <1>3. QED BY <1>1, <1>2

\* What neither enters the select nor computes, and leaves the reads alone.
LEMMA WakefulQuiet ==
    ASSUME NEW r \in Rc, Wakeful, UNCHANGED <<readSince, kick, reading>>,
           pc'[r] \notin {"idle", "compute"},
           \A q \in Rc : q # r => pc'[q] = pc[q] /\ paused'[q] = paused[q]
    PROVE  Wakeful'
  <1>1. ComputingIsAwake' BY DEF Wakeful, ComputingIsAwake
  <1>2. NoLostWakeup' BY DEF Wakeful, NoLostWakeup
  <1>3. QED BY <1>1, <1>2 DEF Wakeful

LEMMA WakefulLoop ==
    ASSUME NEW r \in Rc, TypeOK, Wakeful, LoopStep(r) PROVE Wakeful'
  <1> USE DEF Wakeful, ComputingIsAwake, NoLostWakeup, flags, results, postVars, loops
  <1>1. CASE Start(r) BY <1>1 DEF Start, TypeOK
  <1>2. CASE Tick(r)
    <2>1. /\ pc'[r] \notin {"idle", "compute"} /\ UNCHANGED <<readSince, kick, reading>>
          /\ \A q \in Rc : q # r => pc'[q] = pc[q] /\ paused'[q] = paused[q]
      BY <1>2 DEF Tick, ToPass, TypeOK
    <2>2. QED BY <2>1, WakefulQuiet
  <1>3. CASE PauseDecide(r) BY <1>3 DEF PauseDecide, ToPass, TypeOK
  <1>4. CASE Kick(r) BY <1>4 DEF Kick, ToPass, TypeOK
  <1>5. CASE LoopStops(r) BY <1>5 DEF LoopStops, TypeOK
  <1>6. CASE NextDep(r)
    <2>1. /\ pc'[r] \notin {"idle", "compute"} /\ UNCHANGED <<readSince, kick, reading>>
          /\ \A q \in Rc : q # r => pc'[q] = pc[q] /\ paused'[q] = paused[q]
      BY <1>6 DEF NextDep, TypeOK
    <2>2. QED BY <2>1, WakefulQuiet
  <1>7. CASE DepAccepts(r) BY <1>7 DEF DepAccepts, TypeOK
  <1>8. CASE DepGivesUp(r) BY <1>8 DEF DepGivesUp, TypeOK
  <1>9. CASE BeginPass(r) BY <1>9 DEF BeginPass, TypeOK
  <1>10. CASE Unpause(r) BY <1>10 DEF Unpause, TypeOK
  <1>11. CASE ComputeLoads(r)
    <2>1. PICK d \in left[r] :
            CountRead(r, d) \/ UNCHANGED <<pc, readSince, paused, kick, reading>>
      BY <1>11 DEF ComputeLoads
    <2>2. d \in Rc /\ r \in Readers BY DEF TypeOK, Readers
    <2>3. CASE CountRead(r, d) BY <2>2, <2>3, WakefulCount
    <2>4. QED BY <2>1, <2>3
  <1>12. CASE WakeUp(r) BY <1>12, WakefulWakeUp DEF Readers
  <1>13. CASE PassEnds(r) BY <1>13 DEF PassEnds, TypeOK
  <1>14. QED
    BY <1>1, <1>2, <1>3, <1>4, <1>5, <1>6, <1>7, <1>8, <1>9, <1>10, <1>11, <1>12, <1>13, LoopStep(r)
       DEF LoopStep

LEMMA WakefulNext == TypeOK /\ Wakeful /\ [Next]_vars => Wakeful'
  <1> SUFFICES ASSUME TypeOK, Wakeful, [Next]_vars PROVE Wakeful'
    OBVIOUS
  <1>1. ASSUME NEW r \in Rc, LoopStep(r) PROVE Wakeful' BY <1>1, WakefulLoop
  <1>2. ASSUME NEW p \in Reader, ReaderLoads(p) \/ WakeUp(p) PROVE Wakeful'
    <2>1. p \in Readers BY DEF Readers
    <2>2. CASE WakeUp(p) BY <2>1, <2>2, WakefulWakeUp
    <2>3. CASE ReaderLoads(p)
      <3>1. PICK r \in asked : CountRead(p, r) BY <2>3 DEF ReaderLoads
      <3>2. r \in Rc BY DEF TypeOK
      <3>3. QED BY <2>1, <3>1, <3>2, WakefulCount
    <2>4. QED BY <1>2, <2>2, <2>3
  <1>3. CASE PostAccepted
    BY <1>3 DEF PostAccepted, Wakeful, ComputingIsAwake, NoLostWakeup, flags, TypeOK
  <1>4. CASE UNCHANGED <<pc, flags, reading>>
    BY <1>4 DEF Wakeful, ComputingIsAwake, NoLostWakeup, flags
  <1>5. CASE LoadDone \/ PostNext \/ PostGivesUp \/ StopAll \/ StopNext \/ UNCHANGED vars
    BY <1>4, <1>5 DEF LoadDone, PostNext, PostGivesUp, StopAll, StopNext, vars, loops, flags
  <1>6. QED BY <1>1, <1>2, <1>3, <1>5 DEF Next, PostStep

\* A read that finds or races a pause is never lost: markRead and pauseTick of
\* cmd/server/analytics_recomputer.go, for any number of readers.
THEOREM NoLostWakeupHolds == Spec => []NoLostWakeup
  <1>1. Init => Wakeful BY InitInv DEF Inv, Wakeful
  <1>2. Wakeful => NoLostWakeup BY DEF Wakeful
  <1>3. QED BY <1>1, <1>2, TypeCorrect, WakefulNext, PTL DEF Spec
------------------------------------------------------------------------------
\* A pass sets its own results only; what a pause decision writes is the label.
LEMMA StaleNext == TypeOK /\ StaleIsLabelled /\ [Next]_vars => StaleIsLabelled'
  <1> SUFFICES ASSUME TypeOK, StaleIsLabelled, [Next]_vars PROVE StaleIsLabelled'
    OBVIOUS
  <1> USE DEF StaleIsLabelled
  <1>1. ASSUME NEW r \in Rc, PauseDecide(r) PROVE StaleIsLabelled'
    BY <1>1 DEF PauseDecide, ToPass, TypeOK
  <1>2. ASSUME NEW r \in Rc, PassEnds(r) PROVE StaleIsLabelled'
    BY <1>2 DEF PassEnds, TypeOK
  <1>3. CASE UNCHANGED results BY <1>3 DEF results
  <1>4. ASSUME NEW r \in Rc, LoopStep(r) PROVE StaleIsLabelled'
    BY <1>1, <1>2, <1>3, <1>4
       DEF LoopStep, Start, Tick, Kick, LoopStops, NextDep, DepAccepts, DepGivesUp, BeginPass,
           Unpause, ComputeLoads, CountRead, WakeUp
  <1>5. ASSUME NEW p \in Reader, ReaderLoads(p) \/ WakeUp(p) PROVE StaleIsLabelled'
    BY <1>3, <1>5 DEF ReaderLoads, CountRead, WakeUp
  <1>6. QED
    BY <1>3, <1>4, <1>5
       DEF Next, LoadDone, PostStep, PostNext, PostAccepted, PostGivesUp, StopAll, StopNext, vars

\* SnapshotInfo reports a snapshot stale from the first refresh that was
\* skipped until a newer one is stored, whatever fails in between.
THEOREM StaleIsLabelledHolds == Spec => []StaleIsLabelled
  <1>1. Init => StaleIsLabelled BY InitInv DEF Inv
  <1>2. QED BY <1>1, TypeCorrect, StaleNext, PTL DEF Spec
------------------------------------------------------------------------------
FullData == GateTells /\ FullDataFirst

LEMMA FullDataEnds ==
    ASSUME NEW r \in Rc, TypeOK, FullData, PassEnds(r) PROVE FullData'
  <1>1. PICK outcome \in {"ok", "nil", "panic"} :
         /\ cache' = IF outcome = "ok"
                     THEN [cache EXCEPT ![r] = [full |-> begun[r], skipped |-> FALSE]]
                     ELSE cache
         /\ lastPassOK' = [lastPassOK EXCEPT ![r] = (outcome = "ok")]
         /\ settled' = [settled EXCEPT ![r] = @ \/ (outcome = "ok" /\ gate[r])]
         /\ firstPassDone' = [firstPassDone EXCEPT ![r] =
                               @ \/ (outcome # "panic" /\ WarmupReady(r))]
    BY DEF PassEnds
  <1>2. /\ pc[r] = "compute" /\ pc'[r] = "idle" /\ ~gate'[r] /\ UNCHANGED loaded
        /\ \A q \in Rc : q # r => /\ gate'[q] = gate[q] /\ begun'[q] = begun[q]
                                  /\ pc'[q] = "compute" => pc[q] = "compute"
    BY DEF PassEnds, TypeOK
  <1>3. \A q \in Rc : q # r => /\ cache'[q] = cache[q] /\ lastPassOK'[q] = lastPassOK[q]
                               /\ settled'[q] = settled[q] /\ firstPassDone'[q] = firstPassDone[q]
    BY <1>1 DEF TypeOK
  <1>4. GateTells'
    <2>1. ASSUME NEW q \in Rc, q # r
          PROVE  /\ gate'[q] => loaded' /\ (pc'[q] = "compute" => begun'[q])
                 /\ settled'[q] => loaded' /\ (pc'[q] = "compute" => begun'[q])
                 /\ q \in Gated /\ firstPassDone'[q] => loaded' /\ (pc'[q] = "compute" => begun'[q])
      BY <2>1, <1>2, <1>3 DEF FullData, GateTells
    <2>2. /\ settled'[r] => loaded'
          /\ r \in Gated /\ firstPassDone'[r] => loaded'
      BY <1>1, <1>2 DEF FullData, GateTells, WarmupReady, TypeOK
    <2>3. QED BY <2>1, <2>2, <1>2 DEF GateTells
  <1>5. FullDataFirst'
    <2>1. ASSUME NEW q \in Rc, q # r
          PROVE  /\ q \in Gated /\ firstPassDone'[q] /\ lastPassOK'[q] => cache'[q].full
                 /\ settled'[q] => cache'[q].full
      BY <2>1, <1>3 DEF FullData, FullDataFirst
    <2>2. CASE outcome = "ok"
      <3>1. cache'[r].full = begun[r] BY <1>1, <2>2 DEF TypeOK
      <3>2. settled'[r] => begun[r]
        BY <1>1, <1>2, <2>2 DEF FullData, GateTells, TypeOK
      <3>3. r \in Gated /\ firstPassDone'[r] => begun[r]
        BY <1>1, <1>2, <2>2 DEF FullData, GateTells, WarmupReady, TypeOK
      <3>4. QED BY <2>1, <3>1, <3>2, <3>3 DEF FullDataFirst
    <2>3. CASE outcome # "ok"
      BY <2>1, <2>3, <1>1 DEF FullData, FullDataFirst, TypeOK
    <2>4. QED BY <2>2, <2>3
  <1>6. QED BY <1>4, <1>5 DEF FullData

\* A step that begins and ends no compute and stores no result.
Quiet ==
    /\ UNCHANGED <<order, gate, begun, settled, firstPassDone, lastPassOK>>
    /\ loaded => loaded'
    /\ stop \subseteq stop'
    /\ \A q \in Rc : (pc'[q] = "compute" => pc[q] = "compute") /\ cache'[q].full = cache[q].full

LEMMA QuietLoop ==
    ASSUME NEW r \in Rc, TypeOK,
           \/ Start(r) \/ Tick(r) \/ PauseDecide(r) \/ Kick(r) \/ LoopStops(r) \/ NextDep(r)
           \/ DepAccepts(r) \/ DepGivesUp(r) \/ ComputeLoads(r)
    PROVE  Quiet /\ UNCHANGED <<post, postAt>>
  <1> USE DEF Quiet, flags, results, postVars, loops
  <1>1. CASE Start(r) BY <1>1 DEF Start, TypeOK
  <1>2. CASE Tick(r) BY <1>2 DEF Tick, ToPass, TypeOK
  <1>3. CASE PauseDecide(r)
    <2>1. \A q \in Rc : pc'[q] = "compute" => pc[q] = "compute"
      BY <1>3 DEF PauseDecide, ToPass, TypeOK
    <2>2. cache' = cache \/ cache' = [cache EXCEPT ![r].skipped = TRUE]
      BY <1>3 DEF PauseDecide
    <2>3. \A q \in Rc : cache'[q].full = cache[q].full
      <3>1. cache[r] \in [full : BOOLEAN, skipped : BOOLEAN] BY DEF TypeOK
      <3>2. [cache[r] EXCEPT !.skipped = TRUE].full = cache[r].full BY <3>1
      <3>3. QED BY <2>2, <3>2 DEF TypeOK
    <2>4. QED BY <1>3, <2>1, <2>3 DEF PauseDecide
  <1>4. CASE Kick(r) BY <1>4 DEF Kick, ToPass, TypeOK
  <1>5. CASE LoopStops(r) BY <1>5 DEF LoopStops, TypeOK
  <1>6. CASE NextDep(r) BY <1>6 DEF NextDep, TypeOK
  <1>7. CASE DepAccepts(r) BY <1>7 DEF DepAccepts, TypeOK
  <1>8. CASE DepGivesUp(r) BY <1>8 DEF DepGivesUp, TypeOK
  <1>9. CASE ComputeLoads(r) BY <1>9 DEF ComputeLoads, CountRead, TypeOK
  <1>10. QED BY <1>1, <1>2, <1>3, <1>4, <1>5, <1>6, <1>7, <1>8, <1>9

LEMMA QuietRest ==
    ASSUME TypeOK,
           \/ \E p \in Reader : ReaderLoads(p)
           \/ \E p \in Readers : WakeUp(p)
           \/ LoadDone \/ StopAll \/ StopNext \/ UNCHANGED vars
    PROVE  Quiet /\ UNCHANGED <<post, postAt>>
  <1> USE DEF Quiet, flags, results, postVars, loops
  <1>1. CASE \E p \in Reader : ReaderLoads(p) BY <1>1 DEF ReaderLoads, CountRead
  <1>2. CASE \E p \in Readers : WakeUp(p) BY <1>2 DEF WakeUp
  <1>3. CASE LoadDone BY <1>3 DEF LoadDone
  <1>4. CASE StopAll BY <1>4 DEF StopAll
  <1>5. CASE StopNext BY <1>5 DEF StopNext
  <1>6. CASE UNCHANGED vars BY <1>6 DEF vars
  <1>7. QED BY <1>1, <1>2, <1>3, <1>4, <1>5, <1>6

LEMMA QuietPost ==
    ASSUME TypeOK, PostStep PROVE Quiet
  <1> USE DEF Quiet, flags, results, postVars, loops
  <1>1. CASE PostNext BY <1>1 DEF PostNext
  <1>2. CASE PostAccepted BY <1>2 DEF PostAccepted, TypeOK
  <1>3. CASE PostGivesUp BY <1>3 DEF PostGivesUp
  <1>4. QED BY <1>1, <1>2, <1>3 DEF PostStep

LEMMA QuietFullData == ASSUME FullData, Quiet PROVE FullData'
  BY DEF FullData, GateTells, FullDataFirst, Quiet

LEMMA FullDataNext == TypeOK /\ FullData /\ [Next]_vars => FullData'
  <1> SUFFICES ASSUME TypeOK, FullData, [Next]_vars PROVE FullData'
    OBVIOUS
  <1>1. ASSUME NEW r \in Rc, LoopStep(r) PROVE FullData'
    <2>1. CASE BeginPass(r)
      BY <2>1 DEF BeginPass, results, TypeOK, FullData, GateTells, FullDataFirst
    <2>2. CASE Unpause(r)
      BY <2>2 DEF Unpause, results, TypeOK, FullData, GateTells, FullDataFirst
    <2>3. CASE PassEnds(r) BY <2>3, FullDataEnds
    <2>4. CASE WakeUp(r) BY <2>4, QuietRest, QuietFullData DEF Readers
    <2>5. QED BY <1>1, <2>1, <2>2, <2>3, <2>4, QuietLoop, QuietFullData DEF LoopStep
  <1>2. ASSUME NEW p \in Reader, ReaderLoads(p) \/ WakeUp(p) PROVE FullData'
    BY <1>2, QuietRest, QuietFullData DEF Readers
  <1>3. CASE PostStep BY <1>3, QuietPost, QuietFullData
  <1>4. CASE LoadDone \/ StopAll \/ StopNext \/ UNCHANGED vars
    BY <1>4, QuietRest, QuietFullData
  <1>5. QED BY <1>1, <1>2, <1>3, <1>4 DEF Next

\* A gated recomputer ends its warm-up, and any recomputer becomes free to
\* pause, with a snapshot whose pass began after the startup load (runOnce
\* samples StartupLoadDone before it computes).
THEOREM FullDataFirstHolds == Spec => []FullDataFirst
  <1>1. Init => FullData BY InitInv DEF Inv, FullData
  <1>2. FullData => FullDataFirst BY DEF FullData
  <1>3. QED BY <1>1, <1>2, TypeCorrect, FullDataNext, PTL DEF Spec
------------------------------------------------------------------------------
AfterLoad == PostTells /\ RecomputedWhenLoaded

LEMMA QuietAfterLoad ==
    ASSUME TypeOK, AfterLoad, Quiet, UNCHANGED <<post, postAt>> PROVE AfterLoad'
  <1> USE DEF Quiet
  <1>1. \A i \in 1..Len(order) : order[i] \in Rc BY DEF TypeOK
  <1>2. PostTells' BY <1>1 DEF AfterLoad, PostTells, PostBounds, PostLoaded, PostWaits, PostDone
  <1>3. RecomputedWhenLoaded' BY <1>1 DEF AfterLoad, RecomputedWhenLoaded
  <1>4. QED BY <1>2, <1>3 DEF AfterLoad

LEMMA AfterLoadPost == ASSUME TypeOK, AfterLoad, PostStep PROVE AfterLoad'
  <1>1. Quiet /\ UNCHANGED order /\ (\A i \in 1..Len(order) : order[i] \in Rc)
    BY QuietPost DEF Quiet, TypeOK
  <1>2. CASE PostNext
    <2>1. UNCHANGED <<postAt, loaded, pc, begun, stop, lastPassOK, cache>>
      BY <1>2 DEF PostNext, loops, results
    <2>2. PostBounds' /\ PostLoaded'
      BY <1>1, <1>2, <2>1 DEF PostNext, AfterLoad, PostTells, PostBounds, PostLoaded, TypeOK
    <2>3. PostWaits' BY <1>2, <2>1 DEF PostNext, PostWaits
    <2>4. PostDone' BY <1>1, <2>1 DEF AfterLoad, PostTells, PostDone
    <2>5. RecomputedWhenLoaded' BY <1>1, <2>1 DEF AfterLoad, RecomputedWhenLoaded
    <2>6. QED BY <2>2, <2>3, <2>4, <2>5 DEF AfterLoad, PostTells
  <1>3. CASE PostAccepted
    <2>1. /\ UNCHANGED <<postAt, loaded, begun, stop, lastPassOK, cache>>
          /\ pc' = [pc EXCEPT ![order[postAt]] = "run"]
          /\ post = "send" /\ post' = "ack"
      BY <1>3 DEF PostAccepted, results
    <2>2. postAt \in 1..Len(order) /\ order[postAt] \in Rc
      BY <1>1, <2>1 DEF AfterLoad, PostTells, PostBounds, PostLoaded, PostWaits, PostDone
    <2>3. PostTells' BY <1>1, <2>1, <2>2 DEF AfterLoad, PostTells, PostBounds, PostLoaded, PostWaits, PostDone, Quiet, TypeOK
    <2>4. RecomputedWhenLoaded' BY <1>1, <2>1 DEF AfterLoad, RecomputedWhenLoaded
    <2>5. QED BY <2>3, <2>4 DEF AfterLoad
  <1>4. CASE PostGivesUp
    <2>1. /\ UNCHANGED <<loaded, pc, begun, stop, lastPassOK, cache>>
          /\ post \in {"send", "ack"} /\ order[postAt] \in stop
          /\ post' = "next" /\ postAt' = postAt + 1
      BY <1>4 DEF PostGivesUp, loops, results
    <2>2. \A i \in 1..Len(order) : i < postAt' /\ order[i] \notin stop => i < postAt
      BY <2>1 DEF TypeOK
    <2>3. PostTells' BY <1>1, <2>1, <2>2 DEF AfterLoad, PostTells, PostBounds, PostLoaded, PostWaits, PostDone
    <2>4. RecomputedWhenLoaded' BY <1>1, <2>1, <2>2 DEF AfterLoad, RecomputedWhenLoaded
    <2>5. QED BY <2>3, <2>4 DEF AfterLoad
  <1>5. QED BY <1>2, <1>3, <1>4 DEF PostStep

\* The pass that is waited for ends: its snapshot is from after the load.
LEMMA AfterLoadEnds ==
    ASSUME NEW r \in Rc, TypeOK, AfterLoad, PassEnds(r) PROVE AfterLoad'
  <1>1. /\ \A i \in 1..Len(order) : order[i] \in Rc
        /\ UNCHANGED <<order, loaded, stop>>
        /\ pc[r] = "compute" /\ pc'[r] = "idle"
        /\ \A q \in Rc : q # r => /\ begun'[q] = begun[q] /\ (pc'[q] = "compute" => pc[q] = "compute")
                                  /\ lastPassOK'[q] = lastPassOK[q] /\ cache'[q] = cache[q]
    BY DEF PassEnds, TypeOK
  <1>2. begun[r] /\ lastPassOK'[r] => cache'[r].full
    BY DEF PassEnds, TypeOK
  <1>3. \/ post' = post /\ postAt' = postAt
        \/ post = "ack" /\ order[postAt] = r /\ post' = "next" /\ postAt' = postAt + 1
    BY DEF PassEnds, PostAcked
  <1>4. ASSUME NEW i \in 1..Len(order), i < postAt', order[i] \notin stop, order[i] = r
        PROVE  begun[r]
    BY <1>1, <1>3, <1>4 DEF AfterLoad, PostTells, PostBounds, PostLoaded, PostWaits, PostDone, TypeOK
  <1>5. PostTells'
    <2>1. PostBounds' BY <1>1, <1>3 DEF AfterLoad, PostTells, PostBounds, TypeOK
    <2>2. PostLoaded' BY <1>1, <1>3 DEF AfterLoad, PostTells, PostLoaded, TypeOK
    <2>3. PostWaits'
      <3>1. CASE post' = post /\ postAt' = postAt
        BY <3>1, <1>1 DEF AfterLoad, PostTells, PostBounds, PostWaits
      <3>2. CASE post' = "next" BY <3>2 DEF PostWaits
      <3>3. QED BY <3>1, <3>2, <1>3
    <2>4. PostDone'
      <3> SUFFICES ASSUME NEW i \in 1..Len(order), i < postAt', order[i] \notin stop,
                          pc'[order[i]] = "compute"
                   PROVE  begun'[order[i]]
        BY <1>1 DEF PostDone
      <3>1. order[i] # r BY <1>1
      <3>2. i < postAt BY <3>1, <1>3 DEF TypeOK
      <3>3. QED BY <3>1, <3>2, <1>1 DEF AfterLoad, PostTells, PostDone
    <2>5. QED BY <2>1, <2>2, <2>3, <2>4 DEF PostTells
  <1>6. RecomputedWhenLoaded'
    <2> SUFFICES ASSUME NEW i \in 1..Len(order), i < postAt', order[i] \notin stop,
                        lastPassOK'[order[i]]
                 PROVE  cache'[order[i]].full
      BY <1>1 DEF RecomputedWhenLoaded
    <2>1. CASE order[i] = r BY <2>1, <1>2, <1>4
    <2>2. CASE order[i] # r
      <3>1. i < postAt BY <2>2, <1>3 DEF TypeOK
      <3>2. QED BY <2>2, <3>1, <1>1 DEF AfterLoad, RecomputedWhenLoaded
    <2>3. QED BY <2>1, <2>2
  <1>7. QED BY <1>5, <1>6 DEF AfterLoad

LEMMA AfterLoadNext == TypeOK /\ AfterLoad /\ [Next]_vars => AfterLoad'
  <1> SUFFICES ASSUME TypeOK, AfterLoad, [Next]_vars PROVE AfterLoad'
    OBVIOUS
  <1>1. ASSUME NEW r \in Rc, LoopStep(r) PROVE AfterLoad'
    <2>1. CASE BeginPass(r)
      <3>1. /\ UNCHANGED <<order, post, postAt, loaded, begun, stop, lastPassOK, cache>>
            /\ \A q \in Rc : pc'[q] = "compute" => pc[q] = "compute"
            /\ \A i \in 1..Len(order) : order[i] \in Rc
        BY <2>1 DEF BeginPass, results, postVars, TypeOK
      <3>2. PostTells' BY <3>1 DEF AfterLoad, PostTells, PostBounds, PostLoaded, PostWaits, PostDone
      <3>3. RecomputedWhenLoaded' BY <3>1 DEF AfterLoad, RecomputedWhenLoaded
      <3>4. QED BY <3>2, <3>3 DEF AfterLoad
    <2>2. CASE Unpause(r)
      <3>1. /\ UNCHANGED <<order, post, postAt, loaded, stop, lastPassOK, cache>>
            /\ begun'[r] = loaded
            /\ \A q \in Rc : q # r => begun'[q] = begun[q] /\ pc'[q] = pc[q]
            /\ \A i \in 1..Len(order) : order[i] \in Rc
        BY <2>2 DEF Unpause, results, postVars, TypeOK
      <3>2. PostTells'
        <4>1. PostBounds' /\ PostLoaded' BY <3>1 DEF AfterLoad, PostTells, PostBounds, PostLoaded
        <4>2. PostWaits'
          BY <3>1 DEF AfterLoad, PostTells, PostBounds, PostLoaded, PostWaits
        <4>3. PostDone'
          <5>1. \A i \in 1..Len(order) : i < postAt => loaded
            BY DEF AfterLoad, PostTells, PostLoaded, TypeOK
          <5>2. QED BY <3>1, <5>1 DEF AfterLoad, PostTells, PostDone
        <4>4. QED BY <4>1, <4>2, <4>3 DEF PostTells
      <3>3. RecomputedWhenLoaded' BY <3>1 DEF AfterLoad, RecomputedWhenLoaded
      <3>4. QED BY <3>2, <3>3 DEF AfterLoad
    <2>3. CASE PassEnds(r) BY <2>3, AfterLoadEnds
    <2>4. CASE WakeUp(r) BY <2>4, QuietRest, QuietAfterLoad DEF Readers
    <2>5. QED BY <1>1, <2>1, <2>2, <2>3, <2>4, QuietLoop, QuietAfterLoad DEF LoopStep
  <1>2. ASSUME NEW p \in Reader, ReaderLoads(p) \/ WakeUp(p) PROVE AfterLoad'
    BY <1>2, QuietRest, QuietAfterLoad DEF Readers
  <1>3. CASE PostStep BY <1>3, AfterLoadPost
  <1>4. CASE LoadDone \/ StopAll \/ StopNext \/ UNCHANGED vars
    BY <1>4, QuietRest, QuietAfterLoad
  <1>5. QED BY <1>1, <1>2, <1>3, <1>4 DEF Next

\* recomputeWhenLoaded moves past a recomputer that runs only when a pass that
\* began after the load has ended: no pass under way is taken for it.
THEOREM RecomputedWhenLoadedHolds == Spec => []RecomputedWhenLoaded
  <1>1. Init => AfterLoad BY InitInv DEF Inv, AfterLoad
  <1>2. AfterLoad => RecomputedWhenLoaded BY DEF AfterLoad
  <1>3. QED BY <1>1, <1>2, TypeCorrect, AfterLoadNext, PTL DEF Spec
=============================================================================
