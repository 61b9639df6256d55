----------------------------- MODULE IngestBuffer -----------------------------
(***************************************************************************)
(* The ingestor's receive buffer (cmd/ingestor/ingest_buffer.go): MQTT     *)
(* publish handlers Submit jobs without blocking; one consumer goroutine,  *)
(* held at a gate until Ready(), runs them serially.  Submit's two halves  *)
(* (the channel send or the drop counter, then the stall log under         *)
(* dropLogMu) are separate steps, because handlers of different sources    *)
(* run concurrently and nothing holds them together.                       *)
(***************************************************************************)
EXTENDS Integers, Sequences, Functions

CONSTANTS Source,             \* the MQTT sources; one publish handler each
          RequestedCapacity,  \* ingestBufferSize as configured
          MaxSent             \* bound: messages received per source

ASSUME SourceAssumption == Source # {}
ASSUME CapacityAssumption == RequestedCapacity \in Int
ASSUME MaxSentAssumption == MaxSent \in Nat

\* NewIngestBuffer clamps a non-positive capacity to 1.
Capacity == IF RequestedCapacity < 1 THEN 1 ELSE RequestedCapacity

VARIABLES
    jobs,            \* the buffered channel
    ready, stop,     \* TRUE once the channel of that name is closed
    consumer,        \* where the consumer goroutine is
    running,         \* the job being executed: << >> or <<job>>
    dropped,         \* the atomic drop counter
    handler,         \* per source, where its publish handler is
    dropN,           \* per source, what its last dropped.Add(1) returned
    stallActive, stallStartDrop,
    sent,            \* per source, messages received so far
    accepted, ran,   \* history: jobs enqueued / finished, in order
    acceptedAtStop,  \* history: Len(accepted) when Stop() ran
    gateOpened       \* history: the consumer passed the gate through ready

channel  == <<jobs, accepted>>
gate     == <<ready, stop, acceptedAtStop>>
worker   == <<consumer, running, ran, gateOpened>>
stallLog == <<stallActive, stallStartDrop>>
vars == <<channel, gate, worker, stallLog, dropped, handler, dropN, sent>>

Job == Source \X Nat
ConsumerState == {"unstarted", "gate", "loop", "drain", "exited"}
HandlerState == {"idle", "sent", "dropping"}

Init ==
    /\ jobs = << >> /\ accepted = << >> /\ ran = << >> /\ running = << >>
    /\ ready = FALSE /\ stop = FALSE
    /\ acceptedAtStop = 0 /\ gateOpened = FALSE
    /\ consumer = "unstarted"
    /\ dropped = 0 /\ stallActive = FALSE /\ stallStartDrop = 0
    /\ handler = [s \in Source |-> "idle"]
    /\ dropN = [s \in Source |-> 0]
    /\ sent = [s \in Source |-> 0]
------------------------------------------------------------------------------
\* Submit: the non-blocking send and its default arm.
Receive(s) ==
    /\ handler[s] = "idle"
    /\ sent[s] < MaxSent
    /\ sent' = [sent EXCEPT ![s] = @ + 1]

Enqueue(s) ==
    /\ Receive(s)
    /\ Len(jobs) < Capacity
    /\ jobs' = Append(jobs, <<s, sent[s] + 1>>)
    /\ accepted' = Append(accepted, <<s, sent[s] + 1>>)
    /\ handler' = [handler EXCEPT ![s] = "sent"]
    /\ UNCHANGED <<gate, worker, stallLog, dropped, dropN>>

\* The bug of evicting the oldest job to make room for the newest.
DropOldest(s) ==
    /\ Receive(s)
    /\ Len(jobs) >= Capacity
    /\ dropped' = dropped + 1
    /\ dropN' = [dropN EXCEPT ![s] = dropped']
    /\ jobs' = Append(Tail(jobs), <<s, sent[s] + 1>>)
    /\ accepted' = Append(accepted, <<s, sent[s] + 1>>)
    /\ handler' = [handler EXCEPT ![s] = "dropping"]
    /\ UNCHANGED <<gate, worker, stallLog>>

Drop(s) ==
    /\ Receive(s)
    /\ Len(jobs) >= Capacity
    /\ dropped' = dropped + 1
    /\ dropN' = [dropN EXCEPT ![s] = dropped']
    /\ handler' = [handler EXCEPT ![s] = "dropping"]
    /\ UNCHANGED <<channel, gate, worker, stallLog>>

\* Summary lines of a stall in progress change only lastSummaryAt, which
\* throttles the log: left out.
LogDrop(s) ==
    /\ handler[s] = "dropping"
    /\ handler' = [handler EXCEPT ![s] = "idle"]
    /\ stallActive' = TRUE
    /\ stallStartDrop' = IF stallActive THEN stallStartDrop ELSE dropN[s] - 1
    /\ UNCHANGED <<channel, gate, worker, dropped, dropN, sent>>

MaybeLogRecovery(s) ==
    /\ handler[s] = "sent"
    /\ handler' = [handler EXCEPT ![s] = "idle"]
    /\ stallActive' = FALSE
    /\ UNCHANGED <<channel, gate, worker, stallStartDrop, dropped, dropN, sent>>
------------------------------------------------------------------------------
Start ==
    /\ consumer = "unstarted"
    /\ consumer' = "gate"
    /\ UNCHANGED <<channel, gate, running, ran, gateOpened, stallLog, dropped,
                   handler, dropN, sent>>

Ready ==
    /\ ~ready
    /\ ready' = TRUE
    /\ UNCHANGED <<channel, stop, acceptedAtStop, worker, stallLog,
                   dropped, handler, dropN, sent>>

Stop ==
    /\ ~stop
    /\ stop' = TRUE
    /\ acceptedAtStop' = Len(accepted)
    /\ UNCHANGED <<channel, ready, worker, stallLog, dropped, handler, dropN, sent>>
------------------------------------------------------------------------------
\* The consumer goroutine.  A select with several ready arms may take any.
Goto(state) ==
    /\ consumer' = state
    /\ UNCHANGED <<channel, gate, running, ran, stallLog, dropped, handler,
                   dropN, sent>>

PassGate ==
    /\ consumer = "gate"
    /\ ready
    /\ gateOpened' = TRUE
    /\ Goto("loop")

StopAtGate ==
    /\ consumer = "gate"
    /\ stop
    /\ UNCHANGED gateOpened
    /\ Goto("exited")

TakeJob ==
    /\ consumer \in {"loop", "drain"}
    /\ running = << >>
    /\ jobs # << >>
    /\ running' = <<Head(jobs)>>
    /\ jobs' = Tail(jobs)
    /\ UNCHANGED <<accepted, gate, consumer, ran, gateOpened, stallLog, dropped,
                   handler, dropN, sent>>

\* The bug of a worker that never gets back to its select.
NeverFinishJob ==
    /\ running # << >>
    /\ FALSE
    /\ UNCHANGED vars

FinishJob ==
    /\ running # << >>
    /\ ran' = ran \o running
    /\ running' = << >>
    /\ UNCHANGED <<channel, gate, consumer, gateOpened, stallLog, dropped,
                   handler, dropN, sent>>

StopLoop ==
    /\ consumer = "loop"
    /\ running = << >>
    /\ stop
    /\ UNCHANGED gateOpened
    /\ Goto("drain")

\* The bug of returning on stop without draining the channel.
FinishDrainEarly ==
    /\ consumer = "drain"
    /\ running = << >>
    /\ UNCHANGED gateOpened
    /\ Goto("exited")

FinishDrain ==
    /\ consumer = "drain"
    /\ running = << >>
    /\ jobs = << >>
    /\ UNCHANGED gateOpened
    /\ Goto("exited")
------------------------------------------------------------------------------
Submit(s) == Enqueue(s) \/ Drop(s) \/ LogDrop(s) \/ MaybeLogRecovery(s)

Consume == PassGate \/ StopAtGate \/ TakeJob \/ FinishJob \/ StopLoop \/ FinishDrain

Next == Start \/ Ready \/ Stop \/ Consume \/ \E s \in Source : Submit(s)

Spec == Init /\ [][Next]_vars

\* main() calls Start and, once startup maintenance returns, Ready; the
\* goroutine is scheduled.  Nothing obliges messages to arrive or Stop to run.
Fairness == WF_vars(Start) /\ WF_vars(Ready) /\ WF_vars(Consume)

FairSpec == Spec /\ Fairness
------------------------------------------------------------------------------
\* Every variable has its type, and the channel never holds more than Capacity.
TypeOK ==
    /\ jobs \in Seq(Job) /\ Len(jobs) <= Capacity
    /\ accepted \in Seq(Job) /\ ran \in Seq(Job)
    /\ running \in Seq(Job) /\ Len(running) <= 1
    /\ ready \in BOOLEAN /\ stop \in BOOLEAN
    /\ acceptedAtStop \in Nat /\ gateOpened \in BOOLEAN
    /\ consumer \in ConsumerState
    /\ dropped \in Nat /\ stallActive \in BOOLEAN /\ stallStartDrop \in Int
    /\ handler \in [Source -> HandlerState]
    /\ dropN \in [Source -> Nat]
    /\ sent \in [Source -> 0..MaxSent]

\* What the consumer has run, is running and has queued is exactly what was
\* accepted, in that order: Submit and the consumer neither lose, duplicate nor
\* reorder an accepted job, whatever Ready and Stop do.
NothingLost == accepted = ran \o running \o jobs

\* The write path is untouched before Ready(): no job starts while startup
\* maintenance holds the single SQLite writer.
NoJobBeforeReady == running \o ran # << >> => ready

\* A consumer that passed the gate exits only after every job accepted before
\* Stop() has run.  One still at the gate when Ready and Stop have both fired
\* may take the stop arm of its select and run nothing: that case is outside.
GracefulStop ==
    gateOpened /\ consumer = "exited" => Len(ran) >= acceptedAtStop

\* The buffer drops only what does not fit: until a message has been dropped
\* every received message is accepted, and a drop implies a full buffer's
\* worth of accepted jobs.
DropsOnlyOverflow == dropped > 0 => Len(accepted) >= Capacity

\* An accepted job is eventually run, unless Stop() was called.
AcceptedJobsRun ==
    \A s \in Source, i \in 1..MaxSent :
        <<s, i>> \in Range(accepted) ~> stop \/ <<s, i>> \in Range(ran)

\* The buffer implements the lossy FIFO; a job counts as delivered once it has
\* left the channel.
Fifo == INSTANCE LossyFifo WITH
            delivered <- Len(ran) + Len(running), lost <- dropped

ImplementsLossyFifo == Fifo!Spec
==============================================================================
