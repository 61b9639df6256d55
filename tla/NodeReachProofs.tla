--------------------------- MODULE NodeReachProofs ---------------------------
(***************************************************************************)
(* Proofs about NodeReach, for any number of requests, nodes, renames and  *)
(* slots: its types, that a hidden identity stays hidden, and that scans   *)
(* are bounded.                                                            *)
(***************************************************************************)
EXTENDS NodeReach, FiniteSetTheorems, TLAPS

\* The start is well typed.
LEMMA InitType == Init => TypeOK
  <1> SUFFICES ASSUME Init PROVE TypeOK OBVIOUS
  <1>1. NoReport \in Report BY DEF NoReport, Report
  <1>2. key \in [Request -> Key] BY ReachAssumption DEF Init
  <1>3. renames \in 0 .. MaxRenames BY ReachAssumption DEF Init
  <1>4. QED BY <1>1, <1>2, <1>3 DEF Init, TypeOK, PC, None

\* What an answer leaves is well typed.
LEMMA AnswerType ==
    ASSUME TypeOK, NEW rs \in SUBSET Request, NEW shows \in SUBSET Identity, Answer(rs, shows)
    PROVE  /\ pc' \in [Request -> PC] /\ report' \in [Request -> Report]
           /\ outcome' \in [Request -> {"none", "found", "failed"}]
           /\ since' \in [Request -> SUBSET Identity] /\ exposed' \subseteq Identity
  <1>1. NoReport \in Report BY DEF NoReport, Report
  <1>2. QED BY <1>1 DEF Answer, TypeOK, PC

\* A marshalled report is a report.
LEMMA MarshalType == ASSUME NEW e \in Report PROVE Marshal(e) \in Report
  BY DEF Marshal, Report, Omits

\* The steps of a request keep the types.
LEMMA TypeStep == ASSUME TypeOK, NEW r \in Request, Begin(r) \/ Step(r) PROVE TypeOK'
  <1> USE DEF names, reports, limiter, answers, Goes, Returns
  <1>0. key[r] \in Key /\ cache[key[r]] \in Report /\ report[r] \in Report BY DEF TypeOK
  <1>1. CASE Begin(r)
    <2>1. hidden \intersect Named(key[r]) \subseteq Identity BY DEF TypeOK
    <2>2. QED BY <1>0, <1>1, <2>1 DEF Begin, TypeOK, PC
  <1>2. CASE CheckTarget(r)
    <2>1. CASE Answer({r}, {}) BY <1>2, <2>1, AnswerType DEF CheckTarget, TypeOK
    <2>2. QED BY <1>2, <2>1 DEF CheckTarget, TypeOK, PC
  <1>3. CASE Join(r) BY <1>0, <1>3 DEF Join, TypeOK, PC
  <1>4. CASE Recheck(r) BY <1>0, <1>4 DEF Recheck, TypeOK, PC
  <1>5. CASE AcquireFast(r) BY <1>5 DEF AcquireFast, TypeOK, PC
  <1>6. CASE Enqueue(r) BY <1>6 DEF Enqueue, TypeOK, PC
  <1>7. CASE Wait(r) BY <1>7 DEF Wait, TypeOK, PC
  <1>8. CASE Dequeue(r) BY <1>8 DEF Dequeue, TypeOK, PC
  <1>9. CASE Release(r) BY <1>9 DEF Release, TypeOK, PC
  <1>10. CASE Compute(r)
    <2>0. /\ UNCHANGED <<key, names, cache, leader, limiter, answers>>
          /\ made' \in {made, made + 1}
          /\ \E to \in PC : pc' = [pc EXCEPT ![r] = to]
          /\ \E how \in {"failed", outcome[r]} : outcome' = [outcome EXCEPT ![r] = how]
      <3>1. outcome = [outcome EXCEPT ![r] = outcome[r]] BY DEF TypeOK
      <3>2. QED BY <1>10, <3>1 DEF Compute, PC
    <2>1. /\ UNCHANGED <<key, names, cache, leader, limiter, answers>> /\ pc' \in [Request -> PC]
          /\ outcome' \in [Request -> {"none", "found", "failed"}] /\ made' \in Nat
      BY <2>0 DEF TypeOK
    <2>2. report' \in [Request -> Report]
      <3>1. ASSUME NEW recorded \in SUBSET (everHidden \intersect Named(key[r]))
            PROVE  [NoReport EXCEPT !.at = made + 1, !.fresh = TRUE, !.recorded = recorded]
                       \in Report
        <4>1. recorded \in SUBSET Identity /\ made + 1 \in Nat BY DEF TypeOK
        <4>2. QED BY <4>1 DEF NoReport, Report
      <3>2. CASE report' = report BY <3>2 DEF TypeOK
      <3>3. CASE report' # report
        <4>1. PICK recorded \in SUBSET (everHidden \intersect Named(key[r])) :
                  report' = [report EXCEPT ![r] = [NoReport EXCEPT !.at = made + 1, !.fresh = TRUE,
                                                                   !.recorded = recorded]]
          BY <1>10, <3>3 DEF Compute
        <4>2. QED BY <3>1, <4>1 DEF TypeOK
      <3>4. QED BY <3>2, <3>3
    <2>3. QED BY <2>1, <2>2 DEF TypeOK
  <1>11. CASE FirstBody(r) BY <1>0, <1>11, MarshalType DEF FirstBody, TypeOK, PC
  <1>12. CASE Put(r)
    <2>1. NoReport \in Report BY DEF NoReport, Report
    <2>2. cache' \in [Key -> Report] BY <1>0, <1>12, <2>1 DEF Put, TypeOK
    <2>3. QED BY <1>12, <2>2 DEF Put, TypeOK, PC
  <1>13. CASE Return(r)
    <2> DEFINE flight == {r} \union {q \in Request : pc[q] = "follow" /\ key[q] = key[r]}
    <2>1. CASE Answer(flight, {})
      <3>1. flight \in SUBSET Request /\ {} \in SUBSET Identity OBVIOUS
      <3>2. leader' \in [Key -> Request \union {None}] BY <1>13 DEF Return, TypeOK
      <3> HIDE DEF flight
      <3>3. QED BY <1>13, <2>1, <3>1, <3>2, AnswerType DEF Return, TypeOK
    <2>2. QED BY <1>0, <1>13, <2>1 DEF Return, TypeOK, PC
  <1>14. CASE Serve(r)
    <2>1. ASSUME NEW shows \in SUBSET Identity, Answer({r}, shows) PROVE TypeOK'
      BY <1>14, <2>1, AnswerType DEF Serve, TypeOK
    <2>2. {key[r]} \union report[r].lists \subseteq Identity BY <1>0 DEF Report, Identity
    <2>3. QED BY <1>0, <1>14, <2>1, <2>2, MarshalType DEF Serve, TypeOK, PC
  <1>15. CASE SetBody(r)
    <2>1. {key[r]} \union report[r].lists \subseteq Identity BY <1>0 DEF Report, Identity
    <2>2. [report[r] EXCEPT !.fresh = cache[key[r]].fresh] \in Report BY <1>0 DEF Report
    <2>3. cache' \in [Key -> Report] BY <1>15, <2>2 DEF SetBody, TypeOK
    <2>4. Answer({r}, {key[r]} \union report[r].lists) BY <1>15 DEF SetBody
    <2>5. QED BY <1>15, <2>1, <2>3, <2>4, AnswerType DEF SetBody, TypeOK
  <1>16. QED
    BY <1>1, <1>2, <1>3, <1>4, <1>5, <1>6, <1>7, <1>8, <1>9, <1>10, <1>11, <1>12, <1>13, <1>14,
       <1>15 DEF Step

\* Every step keeps the types.
LEMMA TypeNext == TypeOK /\ [Next]_vars => TypeOK'
  <1> SUFFICES ASSUME TypeOK, [Next]_vars PROVE TypeOK' OBVIOUS
  <1> USE DEF names, reports, limiter, answers
  <1>1. ASSUME NEW i \in Renamed, Rename(i) PROVE TypeOK'
    BY <1>1, ReachAssumption DEF Rename, TypeOK, Identity
  <1>2. ASSUME NEW k \in Key, Expire(k) PROVE TypeOK'
    <2>1. cache[k] \in Report BY DEF TypeOK
    <2>2. [cache[k] EXCEPT !.fresh = FALSE] \in Report BY <2>1 DEF Report
    <2>3. cache' \in [Key -> Report] BY <1>2, <2>2 DEF Expire, TypeOK
    <2>4. QED BY <1>2, <2>3 DEF Expire, TypeOK
  <1>3. CASE UNCHANGED vars BY <1>3 DEF vars, TypeOK
  <1>4. QED BY <1>1, <1>2, <1>3, TypeStep DEF Next

\* Every reachable state of the endpoint is well typed.
THEOREM TypeCorrect == Spec => []TypeOK
  BY InitType, TypeNext, PTL DEF Spec
------------------------------------------------------------------------------
\* Why a hidden identity stays hidden: what a request counts as hidden since it
\* began is hidden now, a body lists all it does not omit, and a body about to
\* be sent was marshalled while those identities were hidden.
Honest(e) == e.marshalled => e.lists = Other \ e.omits
SinceHidden == \A r \in Request : since[r] \subseteq hidden
Bodies == (\A k \in Key : Honest(cache[k])) /\ (\A r \in Request : Honest(report[r]))
Ready == \A r \in Request : pc[r] = "setBody" =>
             key[r] \notin since[r] /\ report[r].lists \intersect since[r] = {}
VisInv == SinceHidden /\ Bodies /\ Ready /\ HiddenStaysHidden

\* What is marshalled now lists nothing that is hidden now.
LEMMA MarshalHonest ==
    ASSUME NEW e \in Report
    PROVE  Honest(Marshal(e)) /\ Marshal(e).lists \intersect hidden = {}
  BY DEF Honest, Marshal, Report, Omits

\* An answer that shows nothing the requests count as hidden keeps the rest.
LEMMA AnswerVisible ==
    ASSUME TypeOK, VisInv, NEW rs \in SUBSET Request, NEW shows \in SUBSET Identity,
           Answer(rs, shows), \A r \in rs : shows \intersect since[r] = {},
           UNCHANGED <<key, hidden>>, \A k \in Key : Honest(cache'[k])
    PROVE  VisInv'
  <1>1. Honest(NoReport) BY DEF Honest, NoReport
  <1>2. SinceHidden' BY DEF VisInv, SinceHidden, Answer, TypeOK
  <1>3. Bodies' BY <1>1 DEF VisInv, Bodies, Answer, TypeOK, Honest
  <1>4. Ready' BY DEF VisInv, Ready, Answer, TypeOK
  <1>5. HiddenStaysHidden' BY DEF VisInv, HiddenStaysHidden, Answer
  <1>6. QED BY <1>2, <1>3, <1>4, <1>5 DEF VisInv

\* The steps that only move a request on, and hand out honest reports.
LEMMA MoveVisible ==
    ASSUME TypeOK, VisInv, UNCHANGED <<key, hidden, exposed, since>>,
           \A k \in Key : Honest(cache'[k]), \A r \in Request : Honest(report'[r]),
           \A r \in Request : pc'[r] = "setBody" => pc[r] = "setBody" /\ report'[r] = report[r]
    PROVE  VisInv'
  BY DEF VisInv, SinceHidden, Bodies, Ready, HiddenStaysHidden, Honest

\* The steps of a request keep hidden what is hidden.
LEMMA VisStep == ASSUME TypeOK, VisInv, NEW r \in Request, Begin(r) \/ Step(r) PROVE VisInv'
  <1> USE DEF names, reports, limiter, answers, Goes, Returns
  <1>0. /\ key[r] \in Key /\ cache[key[r]] \in Report /\ report[r] \in Report
        /\ Honest(cache[key[r]]) /\ Honest(report[r])
        /\ \A k \in Key : Honest(cache[k])
        /\ \A q \in Request : Honest(report[q])
    BY DEF TypeOK, VisInv, Bodies
  <1>1. CASE Begin(r)
    <2>1. SinceHidden' BY <1>1 DEF Begin, VisInv, SinceHidden, TypeOK
    <2>2. Bodies' BY <1>0, <1>1 DEF Begin, Bodies, Honest, TypeOK
    <2>3. Ready' BY <1>1 DEF Begin, VisInv, Ready, TypeOK
    <2>4. QED BY <1>1, <2>1, <2>2, <2>3 DEF Begin, VisInv, HiddenStaysHidden
  <1>2. CASE CheckTarget(r)
    <2>1. CASE Answer({r}, {}) BY <1>0, <1>2, <2>1, AnswerVisible DEF CheckTarget, Honest
    <2>2. CASE ~Answer({r}, {})
      BY <1>0, <1>2, <2>2, MoveVisible DEF CheckTarget, TypeOK
    <2>3. QED BY <2>1, <2>2
  <1>3. CASE Join(r) BY <1>0, <1>3, MoveVisible DEF Join, TypeOK
  <1>4. CASE Recheck(r)
    <2>1. \A q \in Request : Honest(report'[q]) BY <1>0, <1>4 DEF Recheck, TypeOK
    <2>2. QED BY <1>0, <1>4, <2>1, MoveVisible DEF Recheck, TypeOK
  <1>5. CASE AcquireFast(r) BY <1>0, <1>5, MoveVisible DEF AcquireFast, TypeOK
  <1>6. CASE Enqueue(r) BY <1>0, <1>6, MoveVisible DEF Enqueue, TypeOK
  <1>7. CASE Wait(r) BY <1>0, <1>7, MoveVisible DEF Wait, TypeOK
  <1>8. CASE Dequeue(r) BY <1>0, <1>8, MoveVisible DEF Dequeue, TypeOK
  <1>9. CASE Release(r) BY <1>0, <1>9, MoveVisible DEF Release, TypeOK
  <1>10. CASE Compute(r)
    <2>1. ASSUME NEW recorded
          PROVE  Honest([NoReport EXCEPT !.at = made + 1, !.fresh = TRUE, !.recorded = recorded])
      BY DEF NoReport, Honest
    <2>2. \A q \in Request : q # r => report'[q] = report[q] BY <1>10 DEF Compute, TypeOK
    <2>3. Honest(report'[r])
      <3>1. CASE report' = report BY <1>0, <3>1
      <3>2. CASE report' # report
        <4>1. PICK recorded :
                  report' = [report EXCEPT ![r] = [NoReport EXCEPT !.at = made + 1, !.fresh = TRUE,
                                                                   !.recorded = recorded]]
          BY <1>10, <3>2 DEF Compute
        <4>2. report'[r] = [NoReport EXCEPT !.at = made + 1, !.fresh = TRUE, !.recorded = recorded]
          BY <4>1 DEF TypeOK
        <4>3. QED BY <2>1, <4>2
      <3>3. QED BY <3>1, <3>2
    <2>4. \A q \in Request : Honest(report'[q]) BY <1>0, <2>2, <2>3
    <2>5. QED BY <1>0, <1>10, <2>4, MoveVisible DEF Compute, TypeOK
  <1>11. CASE FirstBody(r)
    <2>1. \A q \in Request : Honest(report'[q])
      BY <1>0, <1>11, MarshalHonest DEF FirstBody, TypeOK
    <2>2. QED BY <1>0, <1>11, <2>1, MoveVisible DEF FirstBody, TypeOK
  <1>12. CASE Put(r)
    <2>1. Honest(NoReport) BY DEF Honest, NoReport
    <2>2. \A k \in Key : Honest(cache'[k]) BY <1>0, <1>12, <2>1 DEF Put, TypeOK
    <2>3. QED BY <1>0, <1>12, <2>2, MoveVisible DEF Put, TypeOK
  <1>13. CASE Return(r)
    <2> DEFINE flight == {r} \union {q \in Request : pc[q] = "follow" /\ key[q] = key[r]}
    <2>1. CASE Answer(flight, {})
      <3>1. flight \in SUBSET Request /\ {} \in SUBSET Identity OBVIOUS
      <3> HIDE DEF flight
      <3>2. QED BY <1>0, <1>13, <2>1, <3>1, AnswerVisible DEF Return
    <2>2. CASE ~Answer(flight, {})
      <3>1. \A q \in Request : report'[q] = report[r] \/ report'[q] = report[q]
        BY <1>13, <2>2 DEF Return, TypeOK
      <3>2. \A q \in Request : Honest(report'[q]) BY <1>0, <3>1
      <3>3. QED BY <1>0, <1>13, <2>2, <3>2, MoveVisible DEF Return, TypeOK
    <2>3. QED BY <2>1, <2>2
  <1>14. CASE Serve(r)
    <2> DEFINE e == report[r]
    <2>1. CASE Answer({r}, {}) BY <1>0, <1>14, <2>1, AnswerVisible DEF Serve
    <2>2. CASE ~TargetHidden(key[r], e) /\ Current(e) /\ Answer({r}, {key[r]} \union e.lists)
      <3>1. {key[r]} \union e.lists \subseteq Identity BY <1>0 DEF Report, Identity
      <3>2. ({key[r]} \union e.lists) \intersect hidden = {}
        BY <1>0, <2>2 DEF Current, Honest, Omits, TargetHidden
      <3>3. ({key[r]} \union e.lists) \intersect since[r] = {}
        BY <3>2 DEF VisInv, SinceHidden
      <3>4. QED BY <1>0, <1>14, <2>2, <3>1, <3>3, AnswerVisible DEF Serve
    <2>3. CASE /\ ~TargetHidden(key[r], e)
               /\ report' = [report EXCEPT ![r] = Marshal(e)]
               /\ Goes(r, "setBody") /\ UNCHANGED <<outcome, answers>>
      <3>1. Honest(Marshal(e)) /\ Marshal(e).lists \intersect since[r] = {}
        BY <1>0, MarshalHonest DEF VisInv, SinceHidden
      <3>2. key[r] \notin since[r] BY <2>3 DEF TargetHidden, VisInv, SinceHidden
      <3>3. Bodies' BY <1>0, <1>14, <2>3, <3>1 DEF Serve, Bodies, TypeOK
      <3>4. Ready' BY <1>14, <2>3, <3>1, <3>2 DEF Serve, VisInv, Ready, TypeOK
      <3>5. SinceHidden' /\ HiddenStaysHidden'
        BY <1>14, <2>3 DEF Serve, VisInv, SinceHidden, HiddenStaysHidden
      <3>6. QED BY <3>3, <3>4, <3>5 DEF VisInv
    <2>4. QED BY <1>14, <2>1, <2>2, <2>3 DEF Serve
  <1>15. CASE SetBody(r)
    <2>1. {key[r]} \union report[r].lists \subseteq Identity BY <1>0 DEF Report, Identity
    <2>2. ({key[r]} \union report[r].lists) \intersect since[r] = {}
      BY <1>15 DEF SetBody, VisInv, Ready
    <2>3. Honest([report[r] EXCEPT !.fresh = cache[key[r]].fresh])
      BY <1>0 DEF Honest, Report
    <2>4. \A k \in Key : Honest(cache'[k]) BY <1>0, <1>15, <2>3 DEF SetBody, TypeOK
    <2>5. Answer({r}, {key[r]} \union report[r].lists) BY <1>15 DEF SetBody
    <2>6. QED BY <1>15, <2>1, <2>2, <2>4, <2>5, AnswerVisible DEF SetBody
  <1>16. QED
    BY <1>1, <1>2, <1>3, <1>4, <1>5, <1>6, <1>7, <1>8, <1>9, <1>10, <1>11, <1>12, <1>13, <1>14,
       <1>15 DEF Step

\* Every step keeps hidden what is hidden, a rename included.
LEMMA VisNext == TypeOK /\ VisInv /\ [Next]_vars => VisInv'
  <1> SUFFICES ASSUME TypeOK, VisInv, [Next]_vars PROVE VisInv' OBVIOUS
  <1> USE DEF names, reports, limiter, answers
  <1>1. ASSUME NEW i \in Renamed, Rename(i) PROVE VisInv'
    <2>1. SinceHidden' BY <1>1 DEF Rename, SinceHidden, TypeOK
    <2>2. Bodies' BY <1>1 DEF Rename, VisInv, Bodies
    <2>3. Ready' BY <1>1 DEF Rename, VisInv, Ready, TypeOK
    <2>4. QED BY <1>1, <2>1, <2>2, <2>3 DEF Rename, VisInv, HiddenStaysHidden
  <1>2. ASSUME NEW k \in Key, Expire(k) PROVE VisInv'
    <2>1. cache[k] \in Report /\ Honest(cache[k]) BY DEF TypeOK, VisInv, Bodies
    <2>2. Honest([cache[k] EXCEPT !.fresh = FALSE]) BY <2>1 DEF Honest, Report
    <2>3. \A l \in Key : Honest(cache'[l]) BY <1>2, <2>2 DEF Expire, TypeOK, VisInv, Bodies
    <2>4. QED BY <1>2, <2>3, MoveVisible DEF Expire, VisInv, Bodies
  <1>3. CASE UNCHANGED vars
    BY <1>3 DEF vars, VisInv, SinceHidden, Bodies, Ready, HiddenStaysHidden
  <1>4. QED BY <1>1, <1>2, <1>3, VisStep DEF Next

\* An identity hidden since a request began is not in its answer, for every
\* number of requests, nodes, listed identities and renames.
THEOREM HiddenStaysHiddenHolds == Spec => []HiddenStaysHidden
  <1>1. Init => VisInv
    BY DEF Init, VisInv, SinceHidden, Bodies, Ready, HiddenStaysHidden, Honest, NoReport
  <1>2. VisInv => HiddenStaysHidden BY DEF VisInv
  <1>3. QED BY <1>1, <1>2, VisNext, TypeCorrect, PTL DEF Spec
------------------------------------------------------------------------------
\* Why scans are bounded: slots are, who scans holds one until it releases it,
\* and who is in a flight leads the one flight of its key.
Leading == {"lead", "acquire", "enqueue", "wait", "dequeue", "compute", "marshal", "put",
            "release", "return"}
SlotsBounded == Cardinality(sem) <= Limit
HoldsSlot == \A r \in Request : pc[r] \in {"compute", "marshal", "put", "release"} => r \in sem
OneFlight == \A r \in Request : pc[r] \in Leading => leader[key[r]] = r
ScanInv == SlotsBounded /\ HoldsSlot /\ OneFlight

\* A slot is taken only where one is free.
LEMMA SlotTaken ==
    ASSUME TypeOK, NEW r \in Request, Free, sem' = sem \union {r}
    PROVE  SlotsBounded'
  <1>1. IsFiniteSet(sem) BY FS_Subset, ReachAssumption DEF TypeOK
  <1>2. Cardinality(sem) \in Nat BY <1>1, FS_CardinalityType
  <1>3. Cardinality(sem \union {r}) <= Cardinality(sem) + 1
    <2>1. Cardinality(sem \union {r}) \in {Cardinality(sem), Cardinality(sem) + 1}
      BY <1>1, FS_AddElement
    <2>2. QED BY <1>2, <2>1
  <1>4. Cardinality(sem \union {r}) \in Nat BY <1>1, FS_AddElement, FS_CardinalityType
  <1>5. QED BY <1>2, <1>3, <1>4, ReachAssumption DEF Free, SlotsBounded

\* Giving a slot back keeps the bound.
LEMMA SlotReturned ==
    ASSUME TypeOK, SlotsBounded, NEW r \in Request, sem' = sem \ {r}
    PROVE  SlotsBounded'
  <1>1. IsFiniteSet(sem) BY FS_Subset, ReachAssumption DEF TypeOK
  <1>2. IsFiniteSet(sem') /\ Cardinality(sem') <= Cardinality(sem) BY <1>1, FS_Subset
  <1>3. Cardinality(sem) \in Nat /\ Cardinality(sem') \in Nat
    BY <1>1, <1>2, FS_CardinalityType
  <1>4. QED BY <1>2, <1>3, ReachAssumption DEF SlotsBounded

\* The steps of a request keep scans bounded.
LEMMA ScanStep == ASSUME TypeOK, ScanInv, NEW r \in Request, Begin(r) \/ Step(r) PROVE ScanInv'
  <1> USE DEF names, reports, limiter, answers, Goes, Returns
  <1>0. key[r] \in Key BY DEF TypeOK
  <1>a. UNCHANGED sem => SlotsBounded' BY DEF ScanInv, SlotsBounded
  <1>1. CASE Begin(r)
    BY <1>1, <1>a DEF Begin, ScanInv, HoldsSlot, OneFlight, Leading, TypeOK
  <1>2. CASE CheckTarget(r)
    <2>1. \A q \in Request : pc'[q] = pc[q] \/ pc'[q] \in {"done", "join"}
      BY <1>2 DEF CheckTarget, Answer, TypeOK
    <2>2. QED BY <1>2, <1>a, <2>1 DEF CheckTarget, ScanInv, HoldsSlot, OneFlight, Leading
  <1>3. CASE Join(r)
    <2>1. OneFlight'
      BY <1>0, <1>3, ReachAssumption DEF Join, ScanInv, OneFlight, Leading, TypeOK, None
    <2>2. QED BY <1>3, <1>a, <2>1 DEF Join, ScanInv, HoldsSlot, TypeOK
  <1>4. CASE Recheck(r)
    BY <1>4, <1>a DEF Recheck, ScanInv, HoldsSlot, OneFlight, Leading, TypeOK
  <1>5. CASE AcquireFast(r)
    <2>1. SlotsBounded' BY <1>5, <1>a, SlotTaken DEF AcquireFast
    <2>2. HoldsSlot' BY <1>5 DEF AcquireFast, ScanInv, HoldsSlot, TypeOK
    <2>3. OneFlight' BY <1>5 DEF AcquireFast, ScanInv, OneFlight, Leading, TypeOK
    <2>4. QED BY <2>1, <2>2, <2>3 DEF ScanInv
  <1>6. CASE Enqueue(r)
    BY <1>6, <1>a DEF Enqueue, ScanInv, HoldsSlot, OneFlight, Leading, TypeOK
  <1>7. CASE Wait(r)
    <2>1. SlotsBounded' BY <1>7, <1>a, SlotTaken DEF Wait
    <2>2. HoldsSlot' BY <1>7 DEF Wait, ScanInv, HoldsSlot, TypeOK
    <2>3. OneFlight' BY <1>7 DEF Wait, ScanInv, OneFlight, Leading, TypeOK
    <2>4. QED BY <2>1, <2>2, <2>3 DEF ScanInv
  <1>8. CASE Dequeue(r)
    BY <1>8, <1>a DEF Dequeue, ScanInv, HoldsSlot, OneFlight, Leading, TypeOK
  <1>9. CASE Release(r)
    <2>1. SlotsBounded' BY <1>9, SlotReturned DEF Release, ScanInv
    <2>2. HoldsSlot' BY <1>9 DEF Release, ScanInv, HoldsSlot, TypeOK
    <2>3. OneFlight' BY <1>9 DEF Release, ScanInv, OneFlight, Leading, TypeOK
    <2>4. QED BY <2>1, <2>2, <2>3 DEF ScanInv
  <1>10. CASE Compute(r)
    BY <1>10, <1>a DEF Compute, ScanInv, HoldsSlot, OneFlight, Leading, TypeOK
  <1>11. CASE FirstBody(r)
    BY <1>11, <1>a DEF FirstBody, ScanInv, HoldsSlot, OneFlight, Leading, TypeOK
  <1>12. CASE Put(r)
    BY <1>12, <1>a DEF Put, ScanInv, HoldsSlot, OneFlight, Leading, TypeOK
  <1>13. CASE Return(r)
    <2>1. \A q \in Request : q # r /\ pc'[q] \in Leading => pc'[q] = pc[q]
      BY <1>13 DEF Return, Answer, Leading, TypeOK
    <2>2. pc'[r] \in {"serve", "done"} BY <1>13 DEF Return, Answer, TypeOK
    <2>3. \A q \in Request : pc'[q] \in Leading => key[q] # key[r]
      BY <1>13, <2>1, <2>2 DEF Return, ScanInv, OneFlight, Leading
    <2>4. OneFlight'
      BY <1>0, <1>13, <2>1, <2>2, <2>3 DEF Return, ScanInv, OneFlight, Leading, TypeOK
    <2>5. HoldsSlot' BY <1>13, <2>1, <2>2 DEF Return, ScanInv, HoldsSlot, Leading
    <2>6. QED BY <1>13, <1>a, <2>4, <2>5 DEF Return, ScanInv
  <1>14. CASE Serve(r)
    <2>1. \A q \in Request : pc'[q] = pc[q] \/ pc'[q] \in {"done", "setBody"}
      BY <1>14 DEF Serve, Answer, TypeOK
    <2>2. QED BY <1>14, <1>a, <2>1 DEF Serve, ScanInv, HoldsSlot, OneFlight, Leading
  <1>15. CASE SetBody(r)
    <2>1. \A q \in Request : pc'[q] = pc[q] \/ pc'[q] = "done"
      BY <1>15 DEF SetBody, Answer, TypeOK
    <2>2. QED BY <1>15, <1>a, <2>1 DEF SetBody, ScanInv, HoldsSlot, OneFlight, Leading
  <1>16. QED
    BY <1>1, <1>2, <1>3, <1>4, <1>5, <1>6, <1>7, <1>8, <1>9, <1>10, <1>11, <1>12, <1>13, <1>14,
       <1>15 DEF Step

\* Renames and expiries take no slot.
LEMMA ScanNext == TypeOK /\ ScanInv /\ [Next]_vars => ScanInv'
  <1> SUFFICES ASSUME TypeOK, ScanInv, [Next]_vars PROVE ScanInv' OBVIOUS
  <1>1. UNCHANGED <<sem, pc, leader, key>> => ScanInv'
    BY DEF ScanInv, SlotsBounded, HoldsSlot, OneFlight
  <1>2. ASSUME NEW i \in Renamed, Rename(i) PROVE ScanInv' BY <1>1, <1>2 DEF Rename, limiter
  <1>3. ASSUME NEW k \in Key, Expire(k) PROVE ScanInv' BY <1>1, <1>3 DEF Expire, limiter
  <1>4. CASE UNCHANGED vars BY <1>1, <1>4 DEF vars, limiter
  <1>5. QED BY <1>2, <1>3, <1>4, ScanStep DEF Next

\* At most Limit scans run, each with a slot, and never two of one node, for
\* every number of requests and every limit.
THEOREM ScansBoundedHolds == Spec => []ScansBounded
  <1>1. Init => ScanInv
    BY FS_EmptySet, ReachAssumption
    DEF Init, ScanInv, SlotsBounded, HoldsSlot, OneFlight, Leading
  <1>2. TypeOK /\ ScanInv => ScansBounded
    <2> SUFFICES ASSUME TypeOK, ScanInv PROVE ScansBounded OBVIOUS
    <2>1. Scanning \subseteq sem BY DEF Scanning, ScanInv, HoldsSlot
    <2>2. IsFiniteSet(sem) BY FS_Subset, ReachAssumption DEF TypeOK
    <2>3. IsFiniteSet(Scanning) /\ Cardinality(Scanning) <= Cardinality(sem)
      BY <2>1, <2>2, FS_Subset
    <2>4. Cardinality(Scanning) \in Nat /\ Cardinality(sem) \in Nat
      BY <2>2, <2>3, FS_CardinalityType
    <2>5. Cardinality(Scanning) <= Limit
      BY <2>3, <2>4, ReachAssumption DEF ScanInv, SlotsBounded
    <2>6. \A q, s \in Scanning : key[q] = key[s] => q = s
      BY DEF Scanning, ScanInv, OneFlight, Leading
    <2>7. QED BY <2>1, <2>5, <2>6 DEF ScansBounded
  <1>3. QED BY <1>1, <1>2, ScanNext, TypeCorrect, PTL DEF Spec
==============================================================================
