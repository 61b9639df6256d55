------------------------------ MODULE ApiCache ------------------------------
(***************************************************************************)
(* api() of public/app.js: the client's TTL cache, the table of requests   *)
(* in flight that later callers join, the explicit refresh (bust) that     *)
(* takes a slot over, and the retry loop that rides out 503 answers behind *)
(* a banner.  The data of a path is the version the server had when it     *)
(* answered.  JavaScript runs one callback at a time, so an action is the  *)
(* code between two awaits.                                                *)
(***************************************************************************)
EXTENDS Integers

CONSTANTS MaxCalls,      \* bound: calls of api()
          Path,
          Use,           \* how the views call it: [path, retry503, bust]
          MaxAttempts,   \* retries after a 503
          MaxVersion     \* bound: how often the data of a path changes

ASSUME ApiAssumption ==
    /\ Use \subseteq [path : Path, retry503 : BOOLEAN, bust : BOOLEAN]
    /\ MaxCalls \in Nat /\ MaxAttempts \in Nat /\ MaxVersion \in Nat

Call == 1..MaxCalls   \* in the order they are made

VARIABLES
    version,    \* per path, the server's data now
    cached,     \* per path, the version in _apiCache, or Nothing
    slot,       \* _inflight: per path and retry mode, the call that holds it
    st,         \* per call, where it is
    use,        \* per call, its arguments
    answer,     \* per call, what the server's last answer was
    attempt, notified,
    banner,     \* _warmupInflight_1659
    refreshed,  \* history: per path, the version at its last forced refresh
    owed        \* history: per call, the version its result must reach

apiVars == <<version, cached, slot, st, use, answer, attempt, notified, banner, refreshed, owed>>

Nothing == -1
Nobody == 0
NoUse == [path |-> "none", retry503 |-> FALSE, bust |-> FALSE]
Slot == Path \X BOOLEAN
SlotOf(c) == <<use[c].path, use[c].retry503>>

ApiInit ==
    /\ version = [p \in Path |-> 0] /\ refreshed = [p \in Path |-> 0]
    /\ cached = [p \in Path |-> Nothing]
    /\ slot = [k \in Slot |-> Nobody]
    /\ st = [c \in Call |-> "unused"]
    /\ use = [c \in Call |-> NoUse]
    /\ answer = [c \in Call |-> Nothing]
    /\ attempt = [c \in Call |-> 0] /\ notified = [c \in Call |-> FALSE]
    /\ banner = 0
    /\ owed = [c \in Call |-> 0]

\* The server's data changes.
DataChanges ==
    \E p \in Path :
        /\ version[p] < MaxVersion
        /\ version' = [version EXCEPT ![p] = @ + 1]
        /\ UNCHANGED <<cached, slot, st, use, answer, attempt, notified, banner, refreshed, owed>>

\* An entry's TTL runs out.
Expire ==
    \E p \in Path :
        /\ cached[p] # Nothing
        /\ cached' = [cached EXCEPT ![p] = Nothing]
        /\ UNCHANGED <<version, slot, st, use, answer, attempt, notified, banner, refreshed, owed>>
------------------------------------------------------------------------------
\* A refresh never joins; it takes the slot over.
TakesSlot(u) == u.bust \/ slot[<<u.path, u.retry503>>] = Nobody

\* One call of api(): a fresh cache entry, a request in flight to join, or a
\* request of its own.  A view that must not see older data drops the path's
\* cache entries first (invalidateApiCache) and calls with bust.
CallApi(c) ==
    /\ st[c] = "unused" /\ \A d \in 1..(c - 1) : st[d] # "unused"
    /\ \E u \in Use : \E invalidate \in {FALSE, u.bust} :
         LET holder == slot[<<u.path, u.retry503>>]
             entry == IF invalidate THEN Nothing ELSE cached[u.path]
         IN /\ use' = [use EXCEPT ![c] = u]
            /\ cached' = [cached EXCEPT ![u.path] = entry]
            /\ refreshed' = [refreshed EXCEPT ![u.path] = IF invalidate THEN version[u.path] ELSE @]
            /\ owed' = [owed EXCEPT ![c] = refreshed'[u.path]]
            /\ \/ /\ ~u.bust /\ entry # Nothing
                  /\ st' = [st EXCEPT ![c] = "done"]
                  /\ answer' = [answer EXCEPT ![c] = entry]
                  /\ UNCHANGED slot
               \/ /\ u.bust \/ entry = Nothing
                  /\ IF TakesSlot(u)
                     THEN /\ slot' = [slot EXCEPT ![<<u.path, u.retry503>>] = c]
                          /\ st' = [st EXCEPT ![c] = "fetch"]
                          /\ UNCHANGED answer
                     ELSE /\ st' = [st EXCEPT ![c] = "joined"]
                          /\ answer' = [answer EXCEPT ![c] = holder]
                          /\ UNCHANGED slot
    /\ UNCHANGED <<version, attempt, notified, banner>>

\* The server (or the network) ends a fetch: with the data it has now, with
\* 202 Accepted, which is never kept, with 503, or with another error.
ServerAnswers(c) ==
    /\ st[c] = "fetch"
    /\ \E kind \in {"200", "202", "503", "error"} : st' = [st EXCEPT ![c] = kind]
    /\ answer' = [answer EXCEPT ![c] = version[use[c].path]]
    /\ UNCHANGED <<version, cached, slot, use, attempt, notified, banner, refreshed, owed>>

\* A 503 with attempts left: the banner is counted once per call, then the
\* loop sleeps and fetches again.
Retry(c) ==
    /\ st[c] = "503" /\ use[c].retry503 /\ attempt[c] < MaxAttempts
    /\ banner' = IF notified[c] THEN banner ELSE banner + 1
    /\ notified' = [notified EXCEPT ![c] = TRUE]
    /\ attempt' = [attempt EXCEPT ![c] = @ + 1]
    /\ st' = [st EXCEPT ![c] = "backoff"]
    /\ UNCHANGED <<version, cached, slot, use, answer, refreshed, owed>>

BackoffEnds(c) ==
    /\ st[c] = "backoff"
    /\ st' = [st EXCEPT ![c] = "fetch"]
    /\ UNCHANGED <<version, cached, slot, use, answer, attempt, notified, banner, refreshed, owed>>

\* The bug of caching every answer, superseded or not.
KeepsAny(c) == st[c] = "200"

\* Only the holder of the slot may put its answer into the cache.
Keeps(c) == st[c] = "200" /\ slot[SlotOf(c)] = c

Failed(c) == st[c] = "error" \/ (st[c] = "503" /\ ~(use[c].retry503 /\ attempt[c] < MaxAttempts))

\* The bug of giving the banner back on success only.
BannerAfterLeaky(c) == IF notified[c] /\ ~Failed(c) THEN banner - 1 ELSE banner

\* _warmupNotify_1659(false) in the finally block, for who counted itself.
BannerAfter(c) == IF notified[c] /\ banner > 0 THEN banner - 1 ELSE banner

\* The promise settles: the cache, the banner and the slot (if it is still
\* this call's), then everybody who joined sees the same outcome.
Settle(c) ==
    /\ st[c] \in {"200", "202"} \/ Failed(c)
    /\ LET outcome == IF Failed(c) THEN "failed" ELSE "done"
           joiners == {d \in Call : st[d] = "joined" /\ answer[d] = c}
       IN /\ st' = [d \in Call |-> IF d = c \/ d \in joiners THEN outcome ELSE st[d]]
          /\ answer' = [d \in Call |-> IF d \in joiners THEN answer[c] ELSE answer[d]]
    /\ cached' = IF Keeps(c) THEN [cached EXCEPT ![use[c].path] = answer[c]] ELSE cached
    /\ banner' = BannerAfter(c)
    /\ slot' = IF slot[SlotOf(c)] = c THEN [slot EXCEPT ![SlotOf(c)] = Nobody] ELSE slot
    /\ attempt' = [attempt EXCEPT ![c] = 0] /\ notified' = [notified EXCEPT ![c] = FALSE]
    /\ UNCHANGED <<version, use, refreshed, owed>>

\* invalidateApiCache(prefix) from the socket's debounce timer.
Invalidate(paths) == cached' = [p \in Path |-> IF p \in paths THEN Nothing ELSE cached[p]]

CallStep(c) == ServerAnswers(c) \/ Retry(c) \/ BackoffEnds(c) \/ Settle(c)

ApiNext ==
    \/ DataChanges \/ Expire
    \/ \E c \in Call : CallApi(c) \/ CallStep(c)
------------------------------------------------------------------------------
ApiTypeOK ==
    /\ version \in [Path -> 0..MaxVersion] /\ refreshed \in [Path -> 0..MaxVersion]
    /\ cached \in [Path -> {Nothing} \cup 0..MaxVersion]
    /\ slot \in [Slot -> Call \cup {Nobody}]
    /\ use \in [Call -> Use \cup {NoUse}]
    /\ attempt \in [Call -> 0..MaxAttempts] /\ notified \in [Call -> BOOLEAN]
    /\ banner \in Nat

\* After a forced refresh nobody gets data from before it: no answer of a
\* request the refresh superseded enters the cache, and every later call,
\* cached, joined or fetched, returns what the server had at the refresh or
\* newer.  Holds for the paths that are asked for in one retry mode.
OneMode(p) == ~({TRUE, FALSE} \subseteq {u.retry503 : u \in {v \in Use : v.path = p}})
FreshAfterRefresh ==
    /\ \A p \in Path : OneMode(p) /\ cached[p] # Nothing => cached[p] >= refreshed[p]
    /\ \A c \in Call : st[c] = "done" /\ OneMode(use[c].path) => answer[c] >= owed[c]

\* The warm-up banner goes away: every call settles within its attempts and
\* gives back exactly what it counted, however often it retried.  (Equivalent to
\* banner > 0 ~> banner = 0.)
BannerClears == []<>(banner = 0)
==============================================================================
