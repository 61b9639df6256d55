-------------------------- MODULE IngestBufferProofs --------------------------
(***************************************************************************)
(* The buffer's invariants and its refinement of LossyFifo, for any set of *)
(* sources, any configured capacity and any number of messages.            *)
(***************************************************************************)
EXTENDS IngestBuffer, SequenceTheorems, TLAPS

\* The clamp leaves a usable channel whatever ingestBufferSize says.
LEMMA CapacityPositive == Capacity \in Nat \ {0}
  BY CapacityAssumption DEF Capacity

\* Moving the head of a queue to the end of the sequence before it.
LEMMA MoveHead ==
  ASSUME NEW S, NEW q \in Seq(S), q # << >>
  PROVE  /\ <<Head(q)>> \in Seq(S)
         /\ Len(<<Head(q)>>) = 1
         /\ <<Head(q)>> \o Tail(q) = q
<1>1. Head(q) \in S /\ Tail(q) \in Seq(S) /\ Len(Tail(q)) = Len(q) - 1
  BY HeadTailProperties
<1>2. <<Head(q)>> \in Seq(S) /\ Len(<<Head(q)>>) = 1 /\ <<Head(q)>>[1] = q[1]
  BY <1>1
<1>3. <<Head(q)>> \o Tail(q) \in Seq(S) /\ Len(<<Head(q)>> \o Tail(q)) = Len(q)
  BY <1>1, <1>2, ConcatProperties, LenProperties
<1>4. ASSUME NEW i \in 1..Len(q) PROVE (<<Head(q)>> \o Tail(q))[i] = q[i]
  BY <1>1, <1>2, ConcatProperties, HeadTailProperties, LenProperties
<1>5. <<Head(q)>> \o Tail(q) = q
  BY <1>3, <1>4, SeqEqual
<1> QED BY <1>2, <1>5

\* Appending to the right part appends to the whole.
LEMMA AppendAfter ==
  ASSUME NEW S, NEW p \in Seq(S), NEW q \in Seq(S), NEW e \in S
  PROVE  p \o Append(q, e) = Append(p \o q, e)
<1>1. p \o q \in Seq(S) /\ <<e>> \in Seq(S)
  BY ConcatProperties
<1>2. Append(q, e) = q \o <<e>> /\ Append(p \o q, e) = (p \o q) \o <<e>>
  BY <1>1, AppendIsConcat
<1>3. (p \o q) \o <<e>> = p \o (q \o <<e>>)
  BY <1>1, ConcatAssociative
<1> QED BY <1>2, <1>3

\* The initial values have their types.
LEMMA InitTypeOK == Init => TypeOK
<1>1. << >> \in Seq(Job)
  BY EmptySeq
<1>2. Len(<< >>) <= Capacity /\ Len(<< >>) <= 1
  BY CapacityPositive
<1>3. Init => sent \in [Source -> 0..MaxSent] /\ dropN \in [Source -> Nat]
  BY MaxSentAssumption DEF Init
<1>4. Init => handler \in [Source -> HandlerState]
  BY DEF Init, HandlerState
<1>5. Init => /\ jobs \in Seq(Job) /\ accepted \in Seq(Job)
              /\ ran \in Seq(Job) /\ running \in Seq(Job)
  BY <1>1 DEF Init
<1>6. Init => Len(jobs) <= Capacity /\ Len(running) <= 1
  BY <1>2 DEF Init
<1>7. Init => /\ ready \in BOOLEAN /\ stop \in BOOLEAN
              /\ gateOpened \in BOOLEAN /\ stallActive \in BOOLEAN
  BY DEF Init
<1>8. Init => /\ acceptedAtStop \in Nat /\ dropped \in Nat /\ stallStartDrop \in Int
              /\ consumer \in ConsumerState
  BY DEF Init, ConsumerState
<1> QED BY <1>3, <1>4, <1>5, <1>6, <1>7, <1>8 DEF TypeOK

\* Every action keeps the types.
LEMMA TypeOKStep ==
  ASSUME TypeOK, [Next]_vars
  PROVE  TypeOK'
<1> USE DEF TypeOK, ConsumerState, HandlerState
<1>1. ASSUME NEW s \in Source, Enqueue(s) PROVE TypeOK'
  <2>1. sent' \in [Source -> 0..MaxSent]
    BY <1>1, MaxSentAssumption DEF Enqueue, Receive
  <2>2. <<s, sent[s] + 1>> \in Job
    BY MaxSentAssumption DEF Job
  <2>3. jobs' \in Seq(Job) /\ Len(jobs') <= Capacity /\ accepted' \in Seq(Job)
    BY <1>1, <2>2, AppendProperties, CapacityPositive DEF Enqueue
  <2> QED BY <1>1, <2>1, <2>3 DEF Enqueue, gate, worker, stallLog
<1>2. ASSUME NEW s \in Source, Drop(s) PROVE TypeOK'
  <2>1. sent' \in [Source -> 0..MaxSent]
    BY <1>2, MaxSentAssumption DEF Drop, Receive
  <2>2. dropped' \in Nat /\ dropN' \in [Source -> Nat]
    BY <1>2 DEF Drop
  <2> QED BY <1>2, <2>1, <2>2 DEF Drop, channel, gate, worker, stallLog
<1>3. ASSUME NEW s \in Source, LogDrop(s) PROVE TypeOK'
  BY <1>3 DEF LogDrop, channel, gate, worker
<1>4. ASSUME NEW s \in Source, MaybeLogRecovery(s) PROVE TypeOK'
  BY <1>4 DEF MaybeLogRecovery, channel, gate, worker
<1>5. CASE TakeJob
  <2>1. running' \in Seq(Job) /\ Len(running') = 1
    BY <1>5, MoveHead DEF TakeJob
  <2>2. jobs' \in Seq(Job) /\ Len(jobs') <= Capacity
    BY <1>5, HeadTailProperties, CapacityPositive, LenProperties DEF TakeJob
  <2> QED BY <1>5, <2>1, <2>2 DEF TakeJob, gate, stallLog
<1>6. CASE FinishJob
  BY <1>6, ConcatProperties, EmptySeq DEF FinishJob, channel, gate, stallLog
<1>7. CASE PassGate \/ StopAtGate \/ StopLoop \/ FinishDrain
  BY <1>7 DEF PassGate, StopAtGate, StopLoop, FinishDrain, Goto, channel, gate, stallLog
<1>8. CASE Start \/ Ready \/ Stop
  BY <1>8, LenProperties DEF Start, Ready, Stop, channel, gate, worker, stallLog
<1>9. CASE UNCHANGED vars
  BY <1>9 DEF vars, channel, gate, worker, stallLog
<1> QED BY <1>1, <1>2, <1>3, <1>4, <1>5, <1>6, <1>7, <1>8, <1>9
        DEF Next, Consume, Submit

\* Every variable keeps its type and the channel never exceeds Capacity.
THEOREM TypeCorrect == Spec => []TypeOK
<1>1. TypeOK /\ [Next]_vars => TypeOK'
  BY TypeOKStep
<1> QED BY <1>1, InitTypeOK, PTL DEF Spec
------------------------------------------------------------------------------
\* The inductive invariant.  What was accepted is split between the worker and
\* the channel; only a worker that saw ready has touched a job; only a worker
\* that saw stop has left its loop.
Gate ==
    /\ gateOpened => ready
    /\ consumer \in {"loop", "drain"} => gateOpened
    /\ consumer \in {"unstarted", "gate"} => ~gateOpened
    /\ running # << >> => consumer \in {"loop", "drain"}
    /\ ran # << >> => gateOpened
    /\ consumer \in {"drain", "exited"} => stop
    /\ acceptedAtStop <= Len(accepted)

IInv == TypeOK /\ NothingLost /\ Gate /\ GracefulStop /\ DropsOnlyOverflow

\* The lengths that follow from the split of the accepted jobs.
LEMMA Lengths ==
  ASSUME TypeOK, NothingLost
  PROVE  /\ Len(accepted) = Len(ran) + Len(running) + Len(jobs)
         /\ Len(ran) \in Nat /\ Len(running) \in Nat /\ Len(jobs) \in Nat
         /\ Len(accepted) \in Nat
<1> USE DEF TypeOK, NothingLost
<1>1. ran \o running \in Seq(Job) /\ Len(ran \o running) = Len(ran) + Len(running)
  BY ConcatProperties
<1>2. Len(ran \o running \o jobs) = Len(ran \o running) + Len(jobs)
  BY <1>1, ConcatProperties
<1> QED BY <1>1, <1>2, LenProperties

\* Submit appends to both sides of the split; the worker moves the boundary.
LEMMA NothingLostStep ==
  ASSUME TypeOK, NothingLost, [Next]_vars
  PROVE  NothingLost'
<1> USE DEF TypeOK, NothingLost
<1>1. ASSUME NEW s \in Source, Enqueue(s) PROVE NothingLost'
  <2>1. <<s, sent[s] + 1>> \in Job
    BY MaxSentAssumption DEF Job
  <2>2. ran \o running \in Seq(Job)
    BY ConcatProperties
  <2>3. (ran \o running) \o Append(jobs, <<s, sent[s] + 1>>)
        = Append((ran \o running) \o jobs, <<s, sent[s] + 1>>)
    BY <2>1, <2>2, AppendAfter
  <2> QED BY <1>1, <2>3 DEF Enqueue, worker
<1>2. CASE TakeJob
  <2>1. <<Head(jobs)>> \in Seq(Job) /\ <<Head(jobs)>> \o Tail(jobs) = jobs
    BY <1>2, MoveHead DEF TakeJob
  <2>2. Tail(jobs) \in Seq(Job)
    BY <1>2, HeadTailProperties DEF TakeJob
  <2>3. ran \o running = ran
    BY <1>2, ConcatEmptySeq DEF TakeJob
  <2>4. ran \o <<Head(jobs)>> \o Tail(jobs) = ran \o jobs
    BY <2>1, <2>2, ConcatAssociative
  <2> QED BY <1>2, <2>3, <2>4 DEF TakeJob
<1>3. CASE FinishJob
  <2>1. ran \o running \in Seq(Job)
    BY ConcatProperties
  <2>2. ran \o running \o << >> = ran \o running
    BY <2>1, ConcatEmptySeq
  <2> QED BY <1>3, <2>2 DEF FinishJob, channel
<1>4. CASE UNCHANGED <<jobs, accepted, ran, running>>
  BY <1>4
<1>5. ASSUME NEW s \in Source, Drop(s) \/ LogDrop(s) \/ MaybeLogRecovery(s)
      PROVE  UNCHANGED <<jobs, accepted, ran, running>>
  BY <1>5 DEF Drop, LogDrop, MaybeLogRecovery, channel, worker
<1>6. ASSUME PassGate \/ StopAtGate \/ StopLoop \/ FinishDrain \/ Start
             \/ Ready \/ Stop \/ UNCHANGED vars
      PROVE  UNCHANGED <<jobs, accepted, ran, running>>
  BY <1>6 DEF PassGate, StopAtGate, StopLoop, FinishDrain, Goto, Start, Ready,
              Stop, vars, channel, worker
<1> QED BY <1>1, <1>2, <1>3, <1>4, <1>5, <1>6 DEF Next, Consume, Submit

\* The gate and the stop protocol, action by action.
LEMMA GateStep ==
  ASSUME IInv, TypeOK', NothingLost', [Next]_vars
  PROVE  (Gate /\ GracefulStop /\ DropsOnlyOverflow)'
<1> USE DEF Gate, GracefulStop, DropsOnlyOverflow
<1>0. /\ TypeOK /\ Gate /\ GracefulStop /\ DropsOnlyOverflow
      /\ Len(accepted) = Len(ran) + Len(running) + Len(jobs)
      /\ Len(ran) \in Nat /\ Len(running) \in Nat /\ Len(jobs) \in Nat
      /\ Len(accepted) \in Nat /\ Len(accepted') \in Nat /\ acceptedAtStop \in Nat
  BY Lengths, LenProperties DEF IInv, TypeOK
<1>1. ASSUME NEW s \in Source, Enqueue(s)
      PROVE  (Gate /\ GracefulStop /\ DropsOnlyOverflow)'
  <2>1. Len(accepted') = Len(accepted) + 1
    <3>0. sent[s] \in 0..MaxSent
      BY <1>0 DEF TypeOK
    <3>1. <<s, sent[s] + 1>> \in Job
      BY <3>0, MaxSentAssumption DEF Job
    <3>2. accepted \in Seq(Job)
      BY <1>0 DEF TypeOK
    <3> QED BY <1>1, <3>1, <3>2, AppendProperties DEF Enqueue
  <2> QED BY <1>0, <1>1, <2>1, CapacityPositive DEF Enqueue, gate, worker
<1>2. ASSUME NEW s \in Source, Drop(s)
      PROVE  (Gate /\ GracefulStop /\ DropsOnlyOverflow)'
  BY <1>0, <1>2, CapacityPositive DEF Drop, channel, gate, worker
<1>3. ASSUME NEW s \in Source, LogDrop(s) \/ MaybeLogRecovery(s)
      PROVE  (Gate /\ GracefulStop /\ DropsOnlyOverflow)'
  BY <1>0, <1>3 DEF LogDrop, MaybeLogRecovery, channel, gate, worker
<1>4. CASE TakeJob
  BY <1>0, <1>4 DEF TakeJob, gate
<1>5. CASE FinishJob
  <2>1. consumer \in {"loop", "drain"} /\ gateOpened
    BY <1>0, <1>5 DEF FinishJob
  <2>2. consumer # "exited" /\ consumer' = consumer
    BY <2>1, <1>5 DEF FinishJob
  <2> QED BY <1>0, <1>5, <2>1, <2>2 DEF FinishJob, channel, gate
<1>6. CASE PassGate \/ StopAtGate \/ StopLoop
  BY <1>0, <1>6 DEF PassGate, StopAtGate, StopLoop, Goto, channel, gate
<1>7. CASE FinishDrain
  <2>1. Len(running) = 0 /\ Len(jobs) = 0
    BY <1>7, EmptySeq DEF FinishDrain
  <2> QED BY <1>0, <1>7, <2>1 DEF FinishDrain, Goto, channel, gate
<1>8. CASE Start \/ Ready
  BY <1>0, <1>8 DEF Start, Ready, channel, gate, worker
<1>9. CASE Stop
  BY <1>0, <1>9 DEF Stop, channel, worker
<1>10. CASE UNCHANGED vars
  BY <1>0, <1>10 DEF vars, channel, gate, worker
<1> QED BY <1>1, <1>2, <1>3, <1>4, <1>5, <1>6, <1>7, <1>8, <1>9, <1>10
        DEF Next, Consume, Submit

\* The inductive invariant holds throughout.
THEOREM InductiveInvariant == Spec => []IInv
<1>1. Init => IInv
  <2>1. Init => NothingLost
    BY ConcatEmptySeq, EmptySeq DEF Init, NothingLost
  <2>2. Init => Gate /\ GracefulStop /\ DropsOnlyOverflow
    BY EmptySeq DEF Init, Gate, GracefulStop, DropsOnlyOverflow
  <2> QED BY <2>1, <2>2, InitTypeOK DEF IInv
<1>2. IInv /\ [Next]_vars => IInv'
  <2> SUFFICES ASSUME IInv, [Next]_vars PROVE IInv'
    OBVIOUS
  <2>1. TypeOK /\ NothingLost
    BY DEF IInv
  <2>2. TypeOK'
    BY <2>1, TypeOKStep
  <2>3. NothingLost'
    BY <2>1, NothingLostStep
  <2> QED BY <2>2, <2>3, GateStep DEF IInv
<1> QED BY <1>1, <1>2, PTL DEF Spec

\* No accepted job is lost, duplicated or reordered.
THEOREM NothingLostHolds == Spec => []NothingLost
BY InductiveInvariant, PTL DEF IInv

\* No job touches the database before Ready().
THEOREM NoJobBeforeReadyHolds == Spec => []NoJobBeforeReady
<1>1. IInv => NoJobBeforeReady
  <2> SUFFICES ASSUME IInv, running \o ran # << >> PROVE ready
    BY DEF NoJobBeforeReady
  <2>1. running # << >> \/ ran # << >>
    BY ConcatEmptySeq, EmptySeq DEF IInv, TypeOK
  <2> QED BY <2>1 DEF IInv, Gate
<1> QED BY <1>1, InductiveInvariant, PTL

\* A consumer that passed the gate drains before it exits.
THEOREM GracefulStopHolds == Spec => []GracefulStop
BY InductiveInvariant, PTL DEF IInv

\* Messages are dropped only once a full buffer's worth has been accepted.
THEOREM DropsOnlyOverflowHolds == Spec => []DropsOnlyOverflow
BY InductiveInvariant, PTL DEF IInv
------------------------------------------------------------------------------
\* The buffer implements the lossy FIFO: Submit is Accept or Lose, taking a job
\* from the channel is Deliver, and every other step is invisible.
THEOREM Refinement == Spec => ImplementsLossyFifo
<1>1. Init => Fifo!Init
  BY EmptySeq DEF Init, Fifo!Init
<1>2. IInv /\ [Next]_vars => [Fifo!Next]_Fifo!vars
  <2> SUFFICES ASSUME IInv, [Next]_vars PROVE [Fifo!Next]_Fifo!vars
    OBVIOUS
  <2> USE DEF Fifo!Next, Fifo!vars
  <2>0. /\ TypeOK /\ NothingLost
        /\ Len(accepted) = Len(ran) + Len(running) + Len(jobs)
        /\ Len(ran) \in Nat /\ Len(running) \in Nat /\ Len(jobs) \in Nat
    BY Lengths DEF IInv
  <2>1. ASSUME NEW s \in Source, Enqueue(s) PROVE Fifo!Accept(s)
    BY <2>1 DEF Enqueue, Receive, worker, Fifo!Accept, Fifo!HandIn
  <2>2. ASSUME NEW s \in Source, Drop(s) PROVE Fifo!Lose(s)
    BY <2>2 DEF Drop, Receive, channel, worker, Fifo!Lose, Fifo!HandIn
  <2>3. CASE TakeJob
    <3>1. jobs # << >> => Len(jobs) > 0
      BY <2>0, EmptySeq DEF TypeOK
    <3>2. Len(running) = 0 /\ Len(running') = 1
      BY <2>3, <2>0, MoveHead, EmptySeq DEF TakeJob, TypeOK
    <3>3. Fifo!Deliver
      BY <2>0, <2>3, <3>1, <3>2 DEF TakeJob, Fifo!Deliver
    <3> QED BY <3>3
  <2>4. CASE FinishJob
    <3>1. Len(ran \o running) = Len(ran) + Len(running)
      BY <2>0, ConcatProperties DEF TypeOK
    <3> QED BY <2>0, <2>4, <3>1 DEF FinishJob, channel
  <2>5. ASSUME NEW s \in Source, LogDrop(s) \/ MaybeLogRecovery(s)
        PROVE  UNCHANGED Fifo!vars
    BY <2>5 DEF LogDrop, MaybeLogRecovery, channel, worker
  <2>6. CASE \/ PassGate \/ StopAtGate \/ StopLoop \/ FinishDrain \/ Start
             \/ Ready \/ Stop \/ UNCHANGED vars
    BY <2>6 DEF PassGate, StopAtGate, StopLoop, FinishDrain, Goto, Start, Ready,
                Stop, vars, channel, worker
  <2> QED BY <2>1, <2>2, <2>3, <2>4, <2>5, <2>6 DEF Next, Consume, Submit
<1> QED BY <1>1, <1>2, InductiveInvariant, PTL
        DEF Spec, ImplementsLossyFifo, Fifo!Spec
==============================================================================
