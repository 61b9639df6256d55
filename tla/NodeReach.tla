------------------------------ MODULE NodeReach ------------------------------
(***************************************************************************)
(* GET /api/nodes/{pubkey}/reach (cmd/server/node_reach.go): a report is   *)
(* computed once for all the requests that wait for it (singleflight), at  *)
(* most Limit of them at a time (node_reach_cold_limit.go), and cached;    *)
(* which identities it may show is decided anew for every answer, since a  *)
(* node can be renamed into a hidden prefix at any time.                   *)
(***************************************************************************)
EXTENDS Integers, FiniteSets

CONSTANTS Request,      \* HTTP requests, each made once
          Key,          \* the nodes asked for
          Asks,         \* which request may ask for which node
          Other,        \* the identities every report lists
          Renamed,      \* those of either that may get another name
          Limit,        \* reachColdBuildLimit
          WaiterLimit,  \* reachColdWaiterLimit
          CacheMax,     \* reachCacheMax
          MaxRenames    \* bound of the environment

ASSUME ReachAssumption ==
    /\ IsFiniteSet(Request) /\ "none" \notin Request
    /\ Asks \subseteq [Request -> Key] /\ Key \intersect Other = {}
    /\ Renamed \subseteq Key \union Other
    /\ Limit \in Nat \ {0} /\ WaiterLimit \in Nat /\ CacheMax \in Nat \ {0}
    /\ MaxRenames \in Nat

VARIABLES
    hidden,     \* identities whose current name has a hidden prefix
    everHidden, \* those that had one at some time
    renames,    \* how often a name changed, bounded
    cache,      \* the cached report of each key
    made,       \* number of the latest report: the time it is stamped with
    leader,     \* reach.sf: the request that computes the report of a key
    sem,        \* requests with a slot of the cold limiter
    queued,     \* requests admitted to its queue
    pc, key,    \* where each request is, and what it asks for
    outcome,    \* what the flight it leads came to
    report,     \* the report in hand
    since,      \* history: identities hidden all the time since it began
    exposed     \* history: those of them that an answer showed all the same

limiter == <<sem, queued>>
names == <<hidden, everHidden, renames>>
reports == <<cache, made>>
answers == <<since, exposed>>
vars == <<key, names, reports, leader, limiter, pc, outcome, report, answers>>

Identity == Key \union Other
Named(k) == {k} \union Other   \* the identities in the report of k
None == "none"
\* A report: its time, the identities hidden under the names it recorded, and,
\* once marshalled, the body: what it lists and what it omits.
NoReport == [at |-> 0, recorded |-> {}, marshalled |-> FALSE, lists |-> {}, omits |-> {},
             fresh |-> FALSE]

Init ==
    /\ hidden = {} /\ everHidden = {} /\ renames = 0
    /\ cache = [k \in Key |-> NoReport] /\ made = 0
    /\ leader = [k \in Key |-> None]
    /\ sem = {} /\ queued = {}
    /\ pc = [r \in Request |-> "new"] /\ key \in Asks
    /\ outcome = [r \in Request |-> "none"] /\ report = [r \in Request |-> NoReport]
    /\ since = [r \in Request |-> {}] /\ exposed = {}

Goes(r, to) == pc' = [pc EXCEPT ![r] = to]
Returns(r, how) == Goes(r, "return") /\ outcome' = [outcome EXCEPT ![r] = how]

\* The requests of a flight, or one alone, are answered, showing some
\* identities or, with 404, 429 or 500, none; nothing of them is left.
Answer(rs, identities) ==
    /\ pc' = [r \in Request |-> IF r \in rs THEN "done" ELSE pc[r]]
    /\ outcome' = [r \in Request |-> IF r \in rs THEN "none" ELSE outcome[r]]
    /\ report' = [r \in Request |-> IF r \in rs THEN NoReport ELSE report[r]]
    /\ since' = [r \in Request |-> IF r \in rs THEN {} ELSE since[r]]
    /\ exposed' = exposed \union (identities \intersect UNION {since[r] : r \in rs})
------------------------------------------------------------------------------
\* handleNodeReach: an entry that has not expired is served.
Begin(r) ==
    /\ pc[r] = "new"
    /\ since' = [since EXCEPT ![r] = hidden \intersect Named(key[r])]
    /\ IF cache[key[r]].fresh
       THEN Goes(r, "serve") /\ report' = [report EXCEPT ![r] = cache[key[r]]]
       ELSE Goes(r, "check") /\ UNCHANGED report
    /\ UNCHANGED <<key, names, reports, leader, limiter, outcome, exposed>>

\* isIdentityHidden: the live names of the node itself, before the scan.  404
\* if one is hidden, 500 if they cannot be read.
CheckTarget(r) ==
    /\ pc[r] = "check"
    /\ \/ Answer({r}, {})
       \/ key[r] \notin hidden /\ Goes(r, "join") /\ UNCHANGED <<outcome, report, answers>>
    /\ UNCHANGED <<key, names, reports, leader, limiter>>

\* singleflight.Group.Do: the first request for a key leads.
Join(r) ==
    /\ pc[r] = "join"
    /\ IF leader[key[r]] = None
       THEN Goes(r, "lead") /\ leader' = [leader EXCEPT ![key[r]] = r]
       ELSE Goes(r, "follow") /\ UNCHANGED leader
    /\ UNCHANGED <<key, names, reports, limiter, outcome, report, answers>>

\* The leader looks into the cache again; only then is the work cold.
Recheck(r) ==
    /\ pc[r] = "lead"
    /\ IF cache[key[r]].fresh
       THEN Returns(r, "found") /\ report' = [report EXCEPT ![r] = cache[key[r]]]
       ELSE Goes(r, "acquire") /\ UNCHANGED <<outcome, report>>
    /\ UNCHANGED <<key, names, reports, leader, limiter, answers>>
------------------------------------------------------------------------------
\* The bug of an off-by-one in the limiter.
FreeOneMore == Cardinality(sem) <= Limit

\* A send to the buffered channel of slots succeeds.
Free == Cardinality(sem) < Limit

\* acquire: a client that left is not served, a free slot is taken at once ...
AcquireFast(r) ==
    /\ pc[r] = "acquire"
    /\ \/ Returns(r, "failed") /\ UNCHANGED sem
       \/ Free /\ sem' = sem \union {r} /\ Goes(r, "compute") /\ UNCHANGED outcome
       \/ ~Free /\ Goes(r, "enqueue") /\ UNCHANGED <<sem, outcome>>
    /\ UNCHANGED <<key, names, reports, leader, queued, report, answers>>

\* ... a full queue sheds the request ...
Enqueue(r) ==
    /\ pc[r] = "enqueue"
    /\ IF Cardinality(queued) < WaiterLimit
       THEN queued' = queued \union {r} /\ Goes(r, "wait") /\ UNCHANGED outcome
       ELSE Returns(r, "failed") /\ UNCHANGED queued
    /\ UNCHANGED <<key, names, reports, leader, sem, report, answers>>

\* ... and a queued one gets a slot, or its client leaves, or its time is up.
Wait(r) ==
    /\ pc[r] = "wait"
    /\ \/ Free /\ sem' = sem \union {r} /\ UNCHANGED outcome
       \/ outcome' = [outcome EXCEPT ![r] = "failed"] /\ UNCHANGED sem
    /\ Goes(r, "dequeue")
    /\ UNCHANGED <<key, names, reports, leader, queued, report, answers>>

\* The deferred receive gives the place in the queue back in every case.
Dequeue(r) ==
    /\ pc[r] = "dequeue"
    /\ queued' = queued \ {r}
    /\ Goes(r, IF r \in sem THEN "compute" ELSE "return")
    /\ UNCHANGED <<key, names, reports, leader, sem, outcome, report, answers>>

\* The bug of a release that is not deferred, so that an error skips it.
ReleaseOnSuccess(r) ==
    /\ pc[r] = "release"
    /\ sem' = IF outcome[r] = "found" THEN sem \ {r} ELSE sem
    /\ Goes(r, "return")
    /\ UNCHANGED <<key, names, reports, leader, queued, outcome, report, answers>>

\* The deferred release, on every way out of the scan.
Release(r) ==
    /\ pc[r] = "release"
    /\ sem' = sem \ {r}
    /\ Goes(r, "return")
    /\ UNCHANGED <<key, names, reports, leader, queued, outcome, report, answers>>
------------------------------------------------------------------------------
\* visibleReach: a name that was hidden when recorded hides, and so does the
\* current one.
Omits(e) == Other \intersect (e.recorded \union hidden)
TargetHidden(k, e) == k \in e.recorded \union hidden
Marshal(e) == [e EXCEPT !.marshalled = TRUE, !.lists = Other \ Omits(e), !.omits = Omits(e)]

\* computeNodeReach fails, does not know the node, or reports.  The names come
\* from caches of the nodes and may each be the one from before any change.
Compute(r) ==
    /\ pc[r] = "compute"
    /\ \/ /\ outcome' = [outcome EXCEPT ![r] = "failed"]
          /\ Goes(r, "release")
          /\ UNCHANGED <<made, report>>
       \/ /\ made' = made + 1
          /\ \E recorded \in SUBSET (everHidden \intersect Named(key[r])) :
                report' = [report EXCEPT ![r] = [NoReport EXCEPT !.at = made + 1, !.fresh = TRUE,
                                                                 !.recorded = recorded]]
          /\ Goes(r, "marshal") /\ UNCHANGED outcome
    /\ UNCHANGED <<key, names, cache, leader, limiter, answers>>

\* The first body, for all who wait; none where the node itself is hidden now.
FirstBody(r) ==
    /\ pc[r] = "marshal"
    /\ \/ /\ outcome' = [outcome EXCEPT ![r] = "failed"]
          /\ Goes(r, "release") /\ UNCHANGED report
       \/ /\ report' = [report EXCEPT ![r] = IF TargetHidden(key[r], @) THEN @ ELSE Marshal(@)]
          /\ Goes(r, "put") /\ UNCHANGED outcome
    /\ UNCHANGED <<key, names, reports, leader, limiter, answers>>

\* evictReachLocked: what has expired, and if that is nothing, the oldest.
Cached == {k \in Key : cache[k].at > 0}
Evicted ==
    LET expired == {k \in Cached : ~cache[k].fresh}
    IN  IF expired # {} THEN expired
        ELSE {k \in Cached : \A l \in Cached : cache[k].at <= cache[l].at}

\* reachCachePut.
Put(r) ==
    /\ pc[r] = "put"
    /\ LET full == key[r] \notin Cached /\ Cardinality(Cached) >= CacheMax
       IN  cache' = [k \in Key |-> CASE k = key[r] -> report[r]
                                     [] k # key[r] /\ full /\ k \in Evicted -> NoReport
                                     [] OTHER -> cache[k]]
    /\ outcome' = [outcome EXCEPT ![r] = "found"]
    /\ Goes(r, "release")
    /\ UNCHANGED <<key, names, made, leader, limiter, report, answers>>

\* The flight is over: all its requests get its report, or at once the answer
\* to its failure.
Return(r) ==
    /\ pc[r] = "return"
    /\ leader' = [leader EXCEPT ![key[r]] = None]
    /\ LET flight == {r} \union {q \in Request : pc[q] = "follow" /\ key[q] = key[r]}
       IN  \/ /\ outcome[r] = "found"
              /\ pc' = [q \in Request |-> IF q \in flight THEN "serve" ELSE pc[q]]
              /\ report' = [q \in Request |-> IF q \in flight THEN report[r] ELSE report[q]]
              /\ outcome' = [outcome EXCEPT ![r] = "none"]
              /\ UNCHANGED answers
           \/ /\ outcome[r] # "found"
              /\ Answer(flight, {})
    /\ UNCHANGED <<key, names, reports, limiter>>
------------------------------------------------------------------------------
\* The bug of trusting a body whatever it was marshalled for.
CurrentAny(e) == e.marshalled

\* A cached body is used for the identities it was marshalled for only.
Current(e) == e.marshalled /\ e.omits = Omits(e)

\* reachBody: visibility is applied now, a hidden node is not found, and names
\* that cannot be read are an error.  The body is marshalled again where it is
\* not current, or where the ranks it carries, which are not modelled, moved.
Serve(r) ==
    /\ pc[r] = "serve"
    /\ LET e == report[r]
       IN  \/ Answer({r}, {})
           \/ /\ ~TargetHidden(key[r], e) /\ Current(e)
              /\ Answer({r}, {key[r]} \union e.lists)
           \/ /\ ~TargetHidden(key[r], e)
              /\ report' = [report EXCEPT ![r] = Marshal(e)]
              /\ Goes(r, "setBody") /\ UNCHANGED <<outcome, answers>>
    /\ UNCHANGED <<key, names, reports, leader, limiter>>

\* reachCacheSetBody, unless the entry was replaced or evicted meanwhile.
SetBody(r) ==
    /\ pc[r] = "setBody"
    /\ LET e == report[r]
       IN  /\ cache' = [cache EXCEPT ![key[r]] =
                            IF @.at = e.at THEN [e EXCEPT !.fresh = cache[key[r]].fresh] ELSE @]
           /\ Answer({r}, {key[r]} \union e.lists)
    /\ UNCHANGED <<key, names, made, leader, limiter>>
------------------------------------------------------------------------------
\* A node or observer is renamed in the database, into a hidden prefix or back.
Rename(i) ==
    /\ renames < MaxRenames
    /\ renames' = renames + 1
    /\ hidden' = IF i \in hidden THEN hidden \ {i} ELSE hidden \union {i}
    /\ everHidden' = everHidden \union hidden'
    /\ since' = [r \in Request |-> since[r] \intersect hidden']
    /\ UNCHANGED <<key, reports, leader, limiter, pc, outcome, report, exposed>>

\* reachCacheTTL has passed.
Expire(k) ==
    /\ cache[k].fresh
    /\ cache' = [cache EXCEPT ![k].fresh = FALSE]
    /\ UNCHANGED <<key, names, made, leader, limiter, pc, outcome, report, answers>>

Step(r) ==
    \/ CheckTarget(r) \/ Join(r) \/ Recheck(r)
    \/ AcquireFast(r) \/ Enqueue(r) \/ Wait(r) \/ Dequeue(r) \/ Release(r)
    \/ Compute(r) \/ FirstBody(r) \/ Put(r) \/ Return(r) \/ Serve(r) \/ SetBody(r)

Next ==
    \/ \E r \in Request : Begin(r) \/ Step(r)
    \/ \E i \in Renamed : Rename(i)
    \/ \E k \in Key : Expire(k)

Spec == Init /\ [][Next]_vars

\* While a handler can run, one does: queries end and the timer of a queued
\* request fires.  Nobody has to ask, rename or wait for an entry to expire.
FairSpec == Spec /\ WF_pc(\E r \in Request : Step(r))
------------------------------------------------------------------------------
PC == {"new", "check", "join", "lead", "follow", "acquire", "enqueue", "wait", "dequeue",
       "compute", "marshal", "put", "release", "return", "serve", "setBody", "done"}

Report == [at : Nat, recorded : SUBSET Identity, marshalled : BOOLEAN, lists : SUBSET Other,
           omits : SUBSET Other, fresh : BOOLEAN]

\* Types.
TypeOK ==
    /\ hidden \subseteq Identity /\ everHidden \subseteq Identity /\ renames \in 0 .. MaxRenames
    /\ cache \in [Key -> Report] /\ made \in Nat
    /\ leader \in [Key -> Request \union {None}]
    /\ sem \subseteq Request /\ queued \subseteq Request
    /\ pc \in [Request -> PC] /\ key \in [Request -> Key]
    /\ outcome \in [Request -> {"none", "found", "failed"}]
    /\ report \in [Request -> Report]
    /\ exposed \subseteq Identity /\ since \in [Request -> SUBSET Identity]

\* An identity that was hidden when a request began, and stayed hidden, is not
\* in its answer: not as the node itself and not in a list, whoever computed,
\* cached or marshalled the report and under whatever names (#1181).
HiddenStaysHidden == exposed = {}

\* Cold scans: each holds a slot and at most Limit run at a time, although a
\* freed slot is handed to queued requests that may leave or time out at the
\* same instant (#341), and no node is scanned for two flights at once.
Scanning == {r \in Request : pc[r] \in {"compute", "marshal", "put"}}
ScansBounded ==
    /\ Scanning \subseteq sem /\ Cardinality(Scanning) <= Limit
    /\ \A r, q \in Scanning : key[r] = key[q] => r = q

\* However its flight ended, every request is answered and then holds neither
\* a slot nor a place in the queue: once nobody asks any more, all are at rest.
EveryRequestEnds ==
    []<>(\A r \in Request : pc[r] \in {"new", "done"} /\ r \notin sem \union queued)
==============================================================================
