------------------------- MODULE AnalyticsRecomputer -------------------------
(***************************************************************************)
(* The background analytics recomputers (cmd/server/analytics_recomputer.go *)
(* with the warm-up gate of analytics_warmup_1659.go).  Each has a loop    *)
(* goroutine; HTTP readers, the goroutine that recomputes after the        *)
(* startup load and the loop of a dependent recomputer work on the same    *)
(* atomics and channels.  A step is what one goroutine does between two    *)
(* accesses to what it shares, so pauseTick, markRead and runOnce are      *)
(* several steps each.                                                     *)
(***************************************************************************)
EXTENDS Naturals, Sequences

CONSTANTS Rc,             \* recomputers
          Deps,           \* per recomputer, those whose snapshot it reads
          Gated,          \* those with a warm-up gate (RF, topology, channels)
          Servers,        \* server runs: the recomputers started, in order, whether
                          \* the load is over by then, what requests ask for, and a
                          \* bound on the passes that fail (nil or panic)
          Reader,         \* HTTP requests
          PauseWhenIdle   \* analytics.pauseWhenIdle

ASSUME RecomputerAssumption ==
    /\ Deps \in [Rc -> SUBSET Rc]
    /\ Gated \subseteq Rc
    /\ Servers \subseteq [order : Seq(Rc), loaded : BOOLEAN, asked : SUBSET Rc, fails : Nat]
    /\ PauseWhenIdle \in BOOLEAN
    /\ Reader \cap Rc = {}

VARIABLES
    order,       \* the recomputers of this server, in start order
    asked,       \* those that requests ask for
    loaded,      \* StartupLoadDone is closed
    stopPost,    \* stopPostLoad is closed
    stop,        \* recomputers whose stop channel is closed
    pc,          \* per recomputer, where its loop is
    job,         \* per recomputer, who the running pass is for
    left,        \* per recomputer, dependencies still to refresh or to read
    waitOn,      \* per recomputer, the dependency whose pass it waits for
    gate,        \* per recomputer, the gate as the running pass sampled it
    begun,       \* history: whether the running pass began after the load
    readSince, paused, kick, missed, settled, lastPassOK, firstPassDone,
    cache,       \* per recomputer, its snapshot
    fails,       \* passes that may still fail
    reading,     \* per reader (or computing loop), the markRead it is in
    post, postAt \* recomputeWhenLoaded: where it is, and at which recomputer

flags == <<readSince, paused, kick>>
results == <<missed, settled, lastPassOK, firstPassDone, cache, fails>>
loops == <<pc, job, left, waitOn, gate, begun>>
postVars == <<post, postAt>>
vars == <<order, asked, loaded, stopPost, stop, loops, flags, results, reading, postVars>>

None == "none"
Readers == Reader \cup Rc
NotReading == [rc |-> None, at |-> "out"]

\* full: the pass that stored it began after the startup load; skipped: a
\* refresh of it was skipped.
NoSnapshot == [full |-> FALSE, skipped |-> FALSE]

Running == {order[i] : i \in 1..Len(order)}

Init ==
    /\ \E s \in Servers : order = s.order /\ loaded = s.loaded /\ asked = s.asked /\ fails = s.fails
    /\ stopPost = FALSE /\ stop = {}
    /\ pc = [r \in Rc |-> "new"]
    /\ job = [r \in Rc |-> "start"]
    /\ left = [r \in Rc |-> {}]
    /\ waitOn = [r \in Rc |-> None]
    /\ gate = [r \in Rc |-> FALSE] /\ begun = [r \in Rc |-> FALSE]
    /\ readSince = [r \in Rc |-> FALSE] /\ paused = [r \in Rc |-> FALSE]
    /\ kick = [r \in Rc |-> FALSE] /\ missed = [r \in Rc |-> FALSE]
    /\ settled = [r \in Rc |-> FALSE] /\ lastPassOK = [r \in Rc |-> FALSE]
    /\ firstPassDone = [r \in Rc |-> FALSE]
    /\ cache = [r \in Rc |-> NoSnapshot]
    /\ reading = [p \in Readers |-> NotReading]
    /\ post = "wait" /\ postAt = 1
------------------------------------------------------------------------------
\* Start: recomputers start one after the other, each running its first pass
\* synchronously before its loop is launched.
Start(r) ==
    /\ \E i \in 1..Len(order) :
         /\ order[i] = r
         /\ \A j \in 1..(i - 1) : pc[order[j]] \notin {"new"} /\ job[order[j]] # "start"
    /\ pc[r] = "new"
    /\ pc' = [pc EXCEPT ![r] = "run"]
    /\ UNCHANGED <<order, asked, loaded, stopPost, stop, job, left, waitOn, gate, begun,
                   flags, results, reading, postVars>>

\* The loop leaves its select to refresh its paused dependencies and compute.
ToPass(r) ==
    /\ pc' = [pc EXCEPT ![r] = "run"]
    /\ left' = [left EXCEPT ![r] = Deps[r]]
    /\ job' = [job EXCEPT ![r] = "own"]

MayPause(r) == PauseWhenIdle /\ settled[r] /\ lastPassOK[r]

\* The ticker: a recomputer that may pause publishes paused first ...
Tick(r) ==
    /\ pc[r] = "idle"
    /\ IF MayPause(r)
       THEN /\ paused' = [paused EXCEPT ![r] = TRUE]
            /\ pc' = [pc EXCEPT ![r] = "pausing"]
            /\ UNCHANGED <<left, job>>
       ELSE ToPass(r) /\ UNCHANGED paused
    /\ UNCHANGED <<order, asked, loaded, stopPost, stop, waitOn, gate, begun,
                   readSince, kick, results, reading, postVars>>

\* The bug of not looking at the reads again once paused is published.
PauseDecideBlind(r) ==
    /\ pc[r] = "pausing"
    /\ missed' = [missed EXCEPT ![r] = TRUE]
    /\ cache' = [cache EXCEPT ![r].skipped = TRUE]
    /\ pc' = [pc EXCEPT ![r] = "idle"]
    /\ UNCHANGED <<order, asked, loaded, stopPost, stop, left, job, waitOn, gate, begun, flags,
                   settled, lastPassOK, firstPassDone, fails, reading, postVars>>

\* ... and the read flag second: the pass is skipped only when it is clear.
PauseDecide(r) ==
    /\ pc[r] = "pausing"
    /\ \/ /\ readSince[r]
          /\ ToPass(r)
          /\ UNCHANGED <<missed, cache>>
       \/ /\ ~readSince[r]
          /\ missed' = [missed EXCEPT ![r] = TRUE]
          /\ cache' = [cache EXCEPT ![r].skipped = TRUE]
          /\ pc' = [pc EXCEPT ![r] = "idle"]
          /\ UNCHANGED <<left, job>>
    /\ UNCHANGED <<order, asked, loaded, stopPost, stop, waitOn, gate, begun, flags,
                   settled, lastPassOK, firstPassDone, fails, reading, postVars>>

\* A queued wake-up: dropped when a pass has run in the meantime.
Kick(r) ==
    /\ pc[r] = "idle" /\ kick[r]
    /\ kick' = [kick EXCEPT ![r] = FALSE]
    /\ IF paused[r] THEN ToPass(r) ELSE UNCHANGED <<pc, left, job>>
    /\ UNCHANGED <<order, asked, loaded, stopPost, stop, waitOn, gate, begun,
                   readSince, paused, results, reading, postVars>>

\* The select may also find stop closed.
LoopStops(r) ==
    /\ pc[r] = "idle" /\ r \in stop
    /\ pc' = [pc EXCEPT ![r] = "stopped"]
    /\ UNCHANGED <<order, asked, loaded, stopPost, stop, job, left, waitOn, gate, begun,
                   flags, results, reading, postVars>>
------------------------------------------------------------------------------
\* refreshPausedDeps, one dependency at a time.
NextDep(r) ==
    /\ pc[r] = "run"
    /\ \E d \in left[r] :
         /\ left' = [left EXCEPT ![r] = @ \ {d}]
         /\ IF paused[d]
            THEN /\ pc' = [pc EXCEPT ![r] = "send"]
                 /\ waitOn' = [waitOn EXCEPT ![r] = d]
            ELSE UNCHANGED <<pc, waitOn>>
    /\ UNCHANGED <<order, asked, loaded, stopPost, stop, job, gate, begun,
                   flags, results, reading, postVars>>

\* d.recomputeReq <- ack: a rendezvous with d's select.
DepAccepts(r) ==
    /\ pc[r] = "send" /\ pc[waitOn[r]] = "idle"
    /\ pc' = [pc EXCEPT ![r] = "ack", ![waitOn[r]] = "run"]
    /\ job' = [job EXCEPT ![waitOn[r]] = "now"]
    /\ UNCHANGED <<order, asked, loaded, stopPost, stop, left, waitOn, gate, begun,
                   flags, results, reading, postVars>>

\* The bug of waiting for the dependency alone.
DepGivesUpNever(r) == FALSE /\ UNCHANGED vars

\* Either select also ends when the dependency stops (go on with the next)
\* or the recomputer itself does (go on to the pass).
DepGivesUp(r) ==
    /\ pc[r] \in {"send", "ack"}
    /\ \/ waitOn[r] \in stop /\ UNCHANGED left
       \/ r \in stop /\ left' = [left EXCEPT ![r] = {}]
    /\ pc' = [pc EXCEPT ![r] = "run"]
    /\ waitOn' = [waitOn EXCEPT ![r] = None]
    /\ UNCHANGED <<order, asked, loaded, stopPost, stop, job, gate, begun,
                   flags, results, reading, postVars>>
------------------------------------------------------------------------------
\* runOnce samples the gates and forgets the reads so far, leaves the pause
\* and computes.
BeginPass(r) ==
    /\ pc[r] = "run" /\ left[r] = {}
    /\ gate' = [gate EXCEPT ![r] = loaded]
    /\ readSince' = [readSince EXCEPT ![r] = FALSE]
    /\ pc' = [pc EXCEPT ![r] = "unpause"]
    /\ UNCHANGED <<order, asked, loaded, stopPost, stop, job, left, waitOn, begun,
                   paused, kick, results, reading, postVars>>

\* The bug of reporting the snapshot fresh as soon as a pass has begun.
UnpauseFresh(r) ==
    /\ pc[r] = "unpause"
    /\ paused' = [paused EXCEPT ![r] = FALSE]
    /\ missed' = [missed EXCEPT ![r] = FALSE]
    /\ begun' = [begun EXCEPT ![r] = loaded]
    /\ left' = [left EXCEPT ![r] = Deps[r]]
    /\ pc' = [pc EXCEPT ![r] = "compute"]
    /\ UNCHANGED <<order, asked, loaded, stopPost, stop, job, waitOn, gate, readSince, kick,
                   settled, lastPassOK, firstPassDone, cache, fails, reading, postVars>>

Unpause(r) ==
    /\ pc[r] = "unpause"
    /\ paused' = [paused EXCEPT ![r] = FALSE]
    /\ begun' = [begun EXCEPT ![r] = loaded]
    /\ left' = [left EXCEPT ![r] = Deps[r]]
    /\ pc' = [pc EXCEPT ![r] = "compute"]
    /\ UNCHANGED <<order, asked, loaded, stopPost, stop, job, waitOn, gate,
                   readSince, kick, results, reading, postVars>>

\* Who waited for this pass learns that it is done: close(ack).
Acked(r) == IF job[r] = "now" THEN {p \in Rc : pc[p] = "ack" /\ waitOn[p] = r} ELSE {}
PostAcked(r) == job[r] = "now" /\ post = "ack" /\ order[postAt] = r

\* The warm-up gate read when the pass ends, not when it began.
WarmupReadyLate(r) == r \in Gated => loaded
WarmupReady(r) == r \in Gated => gate[r]

\* compute ends with a result, which replaces the snapshot, with nil, or in a
\* panic, which is recovered; then, for an on-demand pass, the ack.
PassEnds(r) ==
    /\ pc[r] = "compute" /\ left[r] = {} /\ reading[r] = NotReading
    /\ \E outcome \in {"ok"} \cup (IF fails > 0 THEN {"nil", "panic"} ELSE {}) :
         /\ fails' = IF outcome = "ok" THEN fails ELSE fails - 1
         /\ cache' = IF outcome = "ok"
                     THEN [cache EXCEPT ![r] = [full |-> begun[r], skipped |-> FALSE]]
                     ELSE cache
         /\ lastPassOK' = [lastPassOK EXCEPT ![r] = (outcome = "ok")]
         /\ missed' = [missed EXCEPT ![r] = @ /\ outcome # "ok"]
         /\ settled' = [settled EXCEPT ![r] = @ \/ (outcome = "ok" /\ gate[r])]
         /\ firstPassDone' = [firstPassDone EXCEPT ![r] =
                               @ \/ (outcome # "panic" /\ WarmupReady(r))]
    /\ pc' = [p \in Rc |-> IF p = r THEN "idle" ELSE IF p \in Acked(r) THEN "run" ELSE pc[p]]
    /\ waitOn' = [p \in Rc |-> IF p \in Acked(r) THEN None ELSE waitOn[p]]
    /\ job' = [job EXCEPT ![r] = "none"]
    /\ gate' = [gate EXCEPT ![r] = FALSE] /\ begun' = [begun EXCEPT ![r] = FALSE]
    /\ post' = IF PostAcked(r) THEN "next" ELSE post
    /\ postAt' = IF PostAcked(r) THEN postAt + 1 ELSE postAt
    /\ UNCHANGED <<order, asked, loaded, stopPost, stop, left, flags, reading>>
------------------------------------------------------------------------------
\* markRead, by an HTTP handler or by a compute that loads a dependency's
\* snapshot: the read is counted first ...
CountRead(p, r) ==
    /\ reading[p] = NotReading
    /\ PauseWhenIdle
    /\ reading' = [reading EXCEPT ![p] = [rc |-> r, at |-> "counted"]]
    /\ readSince' = [readSince EXCEPT ![r] = TRUE]
    /\ UNCHANGED <<order, asked, loaded, stopPost, stop, pc, job, waitOn, gate, begun,
                   paused, kick, results, postVars>>

ReaderLoads(p) ==
    \E r \in asked : CountRead(p, r) /\ UNCHANGED left

\* ... and a paused recomputer is woken second; a full kick absorbs it.
WakeUp(p) ==
    /\ reading[p].at = "counted"
    /\ reading' = [reading EXCEPT ![p] = NotReading]
    /\ kick' = [kick EXCEPT ![reading[p].rc] = @ \/ paused[reading[p].rc]]
    /\ UNCHANGED <<order, asked, loaded, stopPost, stop, loops, readSince, paused, results, postVars>>

\* Without pauseWhenIdle markRead is a no-op and the load leaves no trace.
ComputeLoads(r) ==
    /\ pc[r] = "compute"
    /\ \E d \in left[r] :
         /\ left' = [left EXCEPT ![r] = @ \ {d}]
         /\ \/ CountRead(r, d)
            \/ /\ ~PauseWhenIdle
               /\ UNCHANGED <<order, asked, loaded, stopPost, stop, pc, job, waitOn, gate, begun,
                              flags, results, reading, postVars>>
------------------------------------------------------------------------------
\* The startup load terminates.
LoadDone ==
    /\ ~loaded /\ loaded' = TRUE
    /\ UNCHANGED <<order, asked, stopPost, stop, loops, flags, results, reading, postVars>>

\* recomputeWhenLoaded, launched when every recomputer has started: one
\* RecomputeNow after the other, until the list or the server ends.
PostNext ==
    /\ \/ /\ post = "wait" /\ (loaded \/ stopPost)
          /\ \A r \in Running : pc[r] # "new" /\ job[r] # "start"
          /\ post' = IF loaded THEN "next" ELSE "done"
       \/ /\ post = "next"
          /\ post' = IF stopPost \/ postAt > Len(order) THEN "done" ELSE "send"
    /\ UNCHANGED <<order, asked, loaded, stopPost, stop, loops, flags, results, reading, postAt>>

\* The bug of letting a pass already running answer the request.
PostJoinsPass ==
    /\ post = "send"
    /\ LET r == order[postAt]
       IN /\ pc[r] \notin {"new", "stopped"}
          /\ pc' = IF pc[r] = "idle" THEN [pc EXCEPT ![r] = "run"] ELSE pc
          /\ job' = [job EXCEPT ![r] = "now"]
    /\ post' = "ack"
    /\ UNCHANGED <<order, asked, loaded, stopPost, stop, left, waitOn, gate, begun,
                   flags, results, reading, postAt>>

\* RecomputeNow: the request is taken by the loop's select ...
PostAccepted ==
    /\ post = "send" /\ pc[order[postAt]] = "idle"
    /\ pc' = [pc EXCEPT ![order[postAt]] = "run"]
    /\ job' = [job EXCEPT ![order[postAt]] = "now"]
    /\ post' = "ack"
    /\ UNCHANGED <<order, asked, loaded, stopPost, stop, left, waitOn, gate, begun,
                   flags, results, reading, postAt>>

\* ... or the recomputer stops first.
PostGivesUp ==
    /\ post \in {"send", "ack"} /\ order[postAt] \in stop
    /\ post' = "next" /\ postAt' = postAt + 1
    /\ UNCHANGED <<order, asked, loaded, stopPost, stop, loops, flags, results, reading>>

\* The stop closure: stopPostLoad first, then each recomputer in order.  Stop
\* waits for the loop at most five seconds, so the next one may be stopped
\* while this one still computes.
StopAll ==
    /\ \A r \in Running : pc[r] # "new" /\ job[r] # "start"
    /\ ~stopPost /\ stopPost' = TRUE
    /\ UNCHANGED <<order, asked, loaded, stop, loops, flags, results, reading, postVars>>

StopNext ==
    /\ stopPost
    /\ \E i \in 1..Len(order) :
         /\ order[i] \notin stop
         /\ \A j \in 1..(i - 1) : order[j] \in stop
         /\ stop' = stop \cup {order[i]}
    /\ UNCHANGED <<order, asked, loaded, stopPost, loops, flags, results, reading, postVars>>

LoopStep(r) ==
    \/ Start(r) \/ Tick(r) \/ PauseDecide(r) \/ Kick(r) \/ LoopStops(r)
    \/ NextDep(r) \/ DepAccepts(r) \/ DepGivesUp(r)
    \/ BeginPass(r) \/ Unpause(r)
    \/ ComputeLoads(r) \/ WakeUp(r) \/ PassEnds(r)

PostStep == PostNext \/ PostAccepted \/ PostGivesUp

Next ==
    \/ \E r \in Rc : LoopStep(r)
    \/ \E p \in Reader : ReaderLoads(p) \/ WakeUp(p)
    \/ LoadDone \/ PostStep
    \/ StopAll \/ StopNext

Spec == Init /\ [][Next]_vars

\* Goroutines are scheduled, tickers keep firing, computes terminate, and a
\* select that finds stop closed every time it comes round takes it in the
\* end; whether anybody reads or stops the server is open.
FairSpec ==
    /\ Spec
    /\ \A r \in Rc : WF_vars(LoopStep(r))
    /\ SF_vars(\E r \in Rc : LoopStops(r))
    /\ WF_vars(PostStep) /\ WF_vars(StopNext)
------------------------------------------------------------------------------
TypeOK ==
    /\ order \in Seq(Rc) /\ asked \subseteq Rc /\ loaded \in BOOLEAN /\ stopPost \in BOOLEAN
    /\ stop \subseteq Rc
    /\ pc \in [Rc -> {"new", "idle", "stopped", "pausing", "run", "send", "ack",
                  "unpause", "compute"}]
    /\ job \in [Rc -> {"start", "own", "now", "none"}]
    /\ left \in [Rc -> SUBSET Rc]
    /\ waitOn \in [Rc -> Rc \cup {None}]
    /\ \A r \in Rc : pc[r] \in {"send", "ack"} => waitOn[r] \in Rc
    /\ gate \in [Rc -> BOOLEAN] /\ begun \in [Rc -> BOOLEAN]
    /\ readSince \in [Rc -> BOOLEAN] /\ paused \in [Rc -> BOOLEAN]
    /\ kick \in [Rc -> BOOLEAN] /\ missed \in [Rc -> BOOLEAN]
    /\ settled \in [Rc -> BOOLEAN] /\ lastPassOK \in [Rc -> BOOLEAN]
    /\ firstPassDone \in [Rc -> BOOLEAN]
    /\ cache \in [Rc -> [full : BOOLEAN, skipped : BOOLEAN]]
    /\ reading \in [Readers -> [rc : Rc \cup {None}, at : {"out", "counted"}]]
    /\ \A p \in Readers : reading[p].at = "counted" => reading[p].rc \in Rc
    /\ post \in {"wait", "next", "send", "ack", "done"} /\ postAt \in Nat
    /\ fails \in Nat

\* No read is lost to a pause: when a recomputer sits paused in its select
\* after a counted read, a wake-up is queued or the reader is about to queue
\* it.  (pauseTick and markRead, whose stores and loads cross over.)
NoLostWakeup ==
    \A r \in Rc : pc[r] = "idle" /\ paused[r] /\ readSince[r] =>
        kick[r] \/ \E p \in Readers : reading[p].at = "counted" /\ reading[p].rc = r

\* A snapshot that outlived a skipped refresh is labelled stale until a newer
\* one is stored, through failed passes and while a wake-up pass runs.
StaleIsLabelled == \A r \in Rc : cache[r].skipped => missed[r]

\* The warm-up ends, and pausing becomes possible, on complete data only: a
\* pass that began on a partly loaded store does neither, even when the load
\* finishes while it runs.  (A nil result ends the warm-up and is no data.)
FullDataFirst ==
    \A r \in Rc : /\ r \in Gated /\ firstPassDone[r] /\ lastPassOK[r] => cache[r].full
                  /\ settled[r] => cache[r].full

\* Once recomputeWhenLoaded has passed a recomputer that was not stopped, the
\* recomputer's last successful pass began after the load: RecomputeNow waits
\* for a pass that starts after the call.
RecomputedWhenLoaded ==
    \A i \in 1..Len(order) :
        i < postAt /\ order[i] \notin stop /\ lastPassOK[order[i]] => cache[order[i]].full

\* Nobody waits forever: a stopped server's loops and its post-load recompute
\* all end for good, although a dependency may stop while it is waited for.
NobodyStuck == <>[](stopPost => post = "done" /\ \A r \in Running : pc[r] = "stopped")
==============================================================================
