--------------------------- MODULE ChannelProposals ---------------------------
(***************************************************************************)
(* Shared channel proposals: the read-only server turns suggestions and    *)
(* admin decisions into command files (internal/channelregistry/queue.go); *)
(* the ingestor applies each in a transaction, updates the live channel    *)
(* keys, writes a result file and removes the command                      *)
(* (cmd/ingestor/channel_proposals.go).  Either process may be ahead of    *)
(* the other, and the ingestor may crash between any two of these steps.   *)
(*                                                                         *)
(* A request is its number in the order of CreatedAt, which is also the    *)
(* order Pending() sorts by.  Requests up to "expired" are older than the  *)
(* request TTL (24 h).                                                     *)
(***************************************************************************)
EXTENDS Integers, Sequences, FiniteSets

CONSTANTS Name,                               \* channel names
          AutoApprove,                        \* channelProposals.autoApprove
          MaxPending, MaxApproved, MaxQueued, \* the configured limits
          Faults,                             \* the I/O steps that may fail
          MaxRequests, MaxCrashes, MaxFaults, MaxExpired   \* bounds

ASSUME ProposalAssumption ==
    /\ AutoApprove \in BOOLEAN
    /\ {MaxPending, MaxApproved, MaxQueued} \subseteq Nat \ {0}
    /\ Faults \subseteq {"apply", "result", "remove"}
    /\ {MaxRequests, MaxCrashes, MaxFaults, MaxExpired} \subseteq Nat

Op == {"submit", "approve", "reject", "revoke"}
Status == {"pending", "approved", "rejected", "revoked"}
Req == 1 .. MaxRequests

VARIABLES
    request,    \* the requests so far: op, and the name or proposal id it is about
    asked,      \* requests whose HTTP handler has yet to write the command file
    commands,   \* requests with a command file
    results,    \* per request, the status in its result file, or "none"
    table,      \* channel_proposals: per name its row, or NoRow
    keys,       \* the approved layer of hotKeys
    runner,     \* where the ingestor's RunOnce is
    work,       \* what is left of the list Pending() returned
    current,    \* the command in hand, or 0
    answer,     \* and its result
    expired,
    crashes, faults,
    effects,    \* history: how often a request changed the table
    overtaken,  \* history: a command file appeared after a later one, or was left
                \*   behind by a failed Complete with later ones in hand
    spoiled     \* history: requests that had taken effect when a storage error
                \*   answered their replay

files == <<commands, results>>
history == <<effects, overtaken, spoiled>>
ingestor == <<keys, runner, work, current, answer>>
vars == <<request, asked, files, table, ingestor, expired, crashes, faults, history>>

NoRow == [id |-> 0, status |-> "none", by |-> 0]
WithStatus(s) == {n \in Name : table[n].status = s}
RowsWithId(i) == {n \in Name : table[n] # NoRow /\ table[n].id = i}

Init ==
    /\ request = << >> /\ asked = {} /\ commands = {}
    /\ results = [r \in Req |-> "none"]
    /\ table = [n \in Name |-> NoRow]
    /\ keys = {} /\ runner = "idle" /\ work = {} /\ current = 0 /\ answer = "none"
    /\ expired = 0 /\ crashes = 0 /\ faults = 0
    /\ effects = [r \in Req |-> 0] /\ overtaken = FALSE /\ spoiled = {}
------------------------------------------------------------------------------
\* The HTTP handlers.  A decision needs an existing proposal, and a revoke an
\* approved one, when the handler looks.
Ask(req) ==
    /\ Len(request) < MaxRequests
    /\ request' = Append(request, req)
    /\ asked' = asked \union {Len(request) + 1}
    /\ UNCHANGED <<files, table, ingestor, expired, crashes, faults, history>>

Suggest(n) == Ask([op |-> "submit", name |-> n, id |-> Len(request) + 1])

Decide(op, n) ==
    /\ table[n] # NoRow
    /\ op = "revoke" => table[n].status = "approved"
    /\ Ask([op |-> op, name |-> n, id |-> table[n].id])

\* Enqueue: the command file appears at once, by rename.
Enqueue(r) ==
    /\ r \in asked
    /\ Cardinality(commands) < MaxQueued
    /\ asked' = asked \ {r}
    /\ commands' = commands \union {r}
    /\ overtaken' = (overtaken \/ \E q \in r + 1 .. Len(request) : q \notin asked)
    /\ UNCHANGED <<request, results, table, ingestor, expired, crashes, faults, effects, spoiled>>

\* ErrQueueFull.
EnqueueRefused(r) ==
    /\ r \in asked
    /\ Cardinality(commands) >= MaxQueued
    /\ asked' = asked \ {r}
    /\ UNCHANGED <<request, files, table, ingestor, expired, crashes, faults, history>>
------------------------------------------------------------------------------
\* RunOnce lists the commands once.
Pending ==
    /\ runner = "idle" /\ commands # {}
    /\ work' = commands
    /\ runner' = "next"
    /\ UNCHANGED <<request, asked, files, table, keys, current, answer, expired, crashes, faults,
                   history>>

\* The bug of taking the newest command first.
FirstOfNewest(r) == r \in work /\ \A q \in work : q <= r

\* The listed commands are taken in submission order.
First(r) == r \in work /\ \A q \in work : r <= q

\* What a command makes of the table, and its answer.
Outcome(status, n, row) == [status |-> status, table |-> [table EXCEPT ![n] = row]]
Unchanged(status) == [status |-> status, table |-> table]

\* The bug of an automatic approval that is held against maxPending.
SubmitMiscounted(r, n) ==
    LET row == table[n]
        found == row # NoRow
        toPending == ~AutoApprove \/ found
        status == IF toPending THEN "pending" ELSE "approved"
    IN  CASE found /\ row.status # "revoked" -> Unchanged(row.status)
          [] (~found \/ row.status = "revoked")
                /\ Cardinality(WithStatus("pending")) >= MaxPending -> Unchanged("error")
          [] OTHER -> Outcome(status, n, [id |-> IF found THEN row.id ELSE r,
                                          status |-> status, by |-> r])

\* submitChannelProposal: an existing name is reported, a revoked one goes back
\* to pending under its old id, a new one is stored.
Submit(r, n) ==
    LET row == table[n]
        found == row # NoRow
        toPending == ~AutoApprove \/ found
    IN  CASE found /\ row.status # "revoked" -> Unchanged(row.status)
          [] (~found \/ row.status = "revoked") /\ toPending
                /\ Cardinality(WithStatus("pending")) >= MaxPending -> Unchanged("error")
          [] ~toPending /\ Cardinality(WithStatus("approved")) >= MaxApproved ->
                Unchanged("error")
          [] OTHER ->
                LET status == IF toPending THEN "pending" ELSE "approved"
                IN  Outcome(status, n, [id |-> IF found THEN row.id ELSE r,
                                        status |-> status, by |-> r])

\* The bug of a repeated decision that counts as a conflict.
ReviewOnce(r, i, source, target) ==
    IF RowsWithId(i) = {} THEN Unchanged("error")
    ELSE LET n == CHOOSE m \in RowsWithId(i) : TRUE
             row == table[n]
         IN  CASE row.status # source -> Unchanged("error")
               [] row.status = source /\ target = "approved"
                     /\ Cardinality(WithStatus("approved")) >= MaxApproved -> Unchanged("error")
               [] OTHER -> Outcome(target, n, [row EXCEPT !.status = target, !.by = r])

\* reviewChannelProposal: repeating a decision changes nothing; one that does
\* not start from "source" is a conflict.
Review(r, i, source, target) ==
    IF RowsWithId(i) = {} THEN Unchanged("error")
    ELSE LET n == CHOOSE m \in RowsWithId(i) : TRUE
             row == table[n]
         IN  CASE row.status = target -> Unchanged(target)
               [] row.status \notin {source, target} -> Unchanged("error")
               [] row.status = source /\ target = "approved"
                     /\ Cardinality(WithStatus("approved")) >= MaxApproved -> Unchanged("error")
               [] OTHER -> Outcome(target, n, [row EXCEPT !.status = target, !.by = r])

\* apply: a command older than its TTL is answered, not run.
Applied(r) ==
    LET req == request[r]
    IN  IF r <= expired THEN Unchanged("error")
        ELSE CASE req.op = "submit"  -> Submit(r, req.name)
               [] req.op = "approve" -> Review(r, req.id, "pending", "approved")
               [] req.op = "reject"  -> Review(r, req.id, "pending", "rejected")
               [] req.op = "revoke"  -> Review(r, req.id, "approved", "revoked")

Apply(r) ==
    /\ runner = "next" /\ First(r)
    /\ current' = r
    /\ LET out == Applied(r)
       IN  /\ table' = out.table
           /\ answer' = out.status
           /\ effects' = IF out.table = table THEN effects ELSE [effects EXCEPT ![r] = @ + 1]
    /\ runner' = "keys"
    /\ UNCHANGED <<request, asked, files, keys, work, expired, crashes, faults, overtaken, spoiled>>

Fault(step) == step \in Faults /\ faults < MaxFaults /\ faults' = faults + 1

\* A storage error is the answer: the command is not tried again.
ApplyFails(r) ==
    /\ runner = "next" /\ First(r)
    /\ Fault("apply")
    /\ current' = r /\ answer' = "error" /\ runner' = "keys"
    /\ spoiled' = IF effects[r] > 0 THEN spoiled \union {r} ELSE spoiled
    /\ UNCHANGED <<request, asked, files, table, keys, work, expired, crashes, effects, overtaken>>

\* The bug of a revoke that leaves the key in place.
UpdateKeysNoRemove ==
    /\ runner = "keys"
    /\ keys' = IF answer = "approved" THEN keys \union {request[current].name} ELSE keys
    /\ runner' = "result"
    /\ UNCHANGED <<request, asked, files, table, work, current, answer, expired, crashes, faults,
                   history>>

\* AddApproved on an approved answer, RemoveApproved on a revoke that is one.
UpdateKeys ==
    /\ runner = "keys"
    /\ LET req == request[current]
       IN  keys' = CASE answer = "approved" -> keys \union {req.name}
                     [] answer = "revoked" /\ req.op = "revoke" -> keys \ {req.name}
                     [] OTHER -> keys
    /\ runner' = "result"
    /\ UNCHANGED <<request, asked, files, table, work, current, answer, expired, crashes, faults,
                   history>>

\* Complete: the result file first ...
WriteResult ==
    /\ runner = "result"
    /\ results' = [results EXCEPT ![current] = answer]
    /\ runner' = "remove"
    /\ UNCHANGED <<request, asked, commands, table, keys, work, current, answer, expired,
                   crashes, faults, history>>

Advance ==
    /\ work' = work \ {current}
    /\ runner' = IF work' = {} THEN "idle" ELSE "next"
    /\ current' = 0 /\ answer' = "none"

\* ... then the command file goes.
RemoveCommand ==
    /\ runner = "remove"
    /\ commands' = commands \ {current}
    /\ Advance
    /\ UNCHANGED <<request, asked, results, table, keys, expired, crashes, faults, history>>

\* The bug of removing the command although its result could not be written.
CompleteFailsRemoving ==
    /\ \/ runner = "result" /\ Fault("result")
       \/ runner = "remove" /\ Fault("remove")
    /\ commands' = commands \ {current}
    /\ Advance
    /\ overtaken' = (overtaken \/ work' # {})
    /\ UNCHANGED <<request, asked, results, table, keys, expired, crashes, effects, spoiled>>

\* Either step of Complete may fail: logged, and the next command is taken.
CompleteFails ==
    /\ \/ runner = "result" /\ Fault("result")
       \/ runner = "remove" /\ Fault("remove")
    /\ Advance
    /\ overtaken' = (overtaken \/ work' # {})
    /\ UNCHANGED <<request, asked, files, table, keys, expired, crashes, effects, spoiled>>

\* Prune, between two runs of RunOnce: rows that are not approved go once
\* their last change has expired, result files once their request has.
Prune(gone, old) ==
    /\ runner = "idle"
    /\ gone # {} \/ old # {}
    /\ table' = [n \in Name |-> IF n \in gone THEN NoRow ELSE table[n]]
    /\ results' = [r \in Req |-> IF r \in old THEN "none" ELSE results[r]]
    /\ UNCHANGED <<request, asked, commands, ingestor, expired, crashes, faults, history>>

Prunable == {n \in Name : table[n].status \in {"pending", "rejected", "revoked"}
                            /\ table[n].by <= expired}
------------------------------------------------------------------------------
\* The ingestor dies; the files and the table survive.
Crash ==
    /\ runner # "down" /\ crashes < MaxCrashes
    /\ crashes' = crashes + 1
    /\ runner' = "down" /\ work' = {} /\ current' = 0 /\ answer' = "none" /\ keys' = {}
    /\ UNCHANGED <<request, asked, files, table, expired, faults, history>>

\* A start loads the approved channels before any command is looked at.
Restart ==
    /\ runner = "down"
    /\ runner' = "idle"
    /\ keys' = WithStatus("approved")
    /\ UNCHANGED <<request, asked, files, table, work, current, answer, expired, crashes, faults,
                   history>>

\* A day passes for the oldest request: it is done with, or nobody is there to
\* take it.
Expire ==
    /\ expired < MaxExpired /\ expired < Len(request)
    /\ expired + 1 \notin asked
    /\ expired + 1 \in commands => runner = "down"
    /\ expired' = expired + 1
    /\ UNCHANGED <<request, asked, files, table, ingestor, crashes, faults, history>>

Serve ==
    \/ \E n \in Name : Suggest(n)
    \/ \E op \in Op \ {"submit"}, n \in Name : Decide(op, n)
    \/ \E r \in Req : Enqueue(r) \/ EnqueueRefused(r)

Run == Pending \/ (\E r \in Req : Apply(r)) \/ UpdateKeys \/ WriteResult \/ RemoveCommand

Next ==
    \/ Serve \/ Run \/ CompleteFails \/ Crash \/ Restart \/ Expire
    \/ \E r \in Req : ApplyFails(r)
    \/ \E gone \in SUBSET Prunable, old \in SUBSET {r \in 1 .. expired : results[r] # "none"} :
          Prune(gone, old)

Spec == Init /\ [][Next]_vars

\* The runner ticks every two seconds, and a dead ingestor is started again.
FairSpec == Spec /\ WF_ingestor(Run) /\ WF_ingestor(Restart)
------------------------------------------------------------------------------
Answer == Status \union {"none", "error"}

\* Types; one row per name and per id; the queue within its limit.
TypeOK ==
    /\ request \in Seq([op : Op, name : Name, id : Req]) /\ Len(request) <= MaxRequests
    /\ asked \subseteq Req /\ commands \subseteq Req
    /\ Cardinality(commands) <= MaxQueued
    /\ results \in [Req -> Answer]
    /\ table \in [Name -> [id : Req, status : Status, by : Req] \union {NoRow}]
    /\ \A i \in Req : Cardinality(RowsWithId(i)) <= 1
    /\ keys \subseteq Name
    /\ runner \in {"idle", "next", "keys", "result", "remove", "down"}
    /\ work \subseteq Req /\ current \in 0 .. MaxRequests /\ answer \in Answer
    /\ expired \in 0 .. MaxExpired /\ crashes \in 0 .. MaxCrashes /\ faults \in 0 .. MaxFaults
    /\ effects \in [Req -> Nat] /\ overtaken \in BOOLEAN /\ spoiled \subseteq Req

\* What is decrypted is what the table approves, whenever the runner is between
\* two commands: replays, conflicts, crashes and failing files included.
KeysFollowTable == runner \in {"idle", "next"} => keys = WithStatus("approved")

\* The limits bound the table over every mix of submissions, resubmissions,
\* automatic approvals and decisions.
TableBounded ==
    /\ Cardinality(WithStatus("pending")) <= MaxPending
    /\ Cardinality(WithStatus("approved")) <= MaxApproved

\* A command replayed after a crash or a failed Complete changes nothing a
\* second time, while no later command was applied in between.
NeverAppliedTwice == ~overtaken => \A r \in Req : effects[r] <= 1

\* The statuses that say a request was carried out.
Yields(op) == CASE op = "submit"  -> {"pending", "approved"}
                [] op = "approve" -> {"approved"}
                [] op = "reject"  -> {"rejected"}
                [] OTHER          -> {"revoked"}

\* A request that took effect is answered with what it did by the time its
\* command is gone, unless a crash kept its answer back until it had expired or
\* a storage error met its replay.
EffectsReported ==
    ~overtaken => \A r \in 1 .. Len(request) :
        effects[r] > 0 /\ r \notin commands /\ r > expired /\ r \notin spoiled
            => results[r] \in Yields(request[r].op)

\* Every queued command gets its answer.
EveryRequestAnswered == \A r \in Req : r \in commands ~> results[r] # "none"

\* channel_proposals.go:12 says "Every command is idempotent": applied again,
\* it reports the outcome and leaves the table alone.
ReplaysAreIdempotent == \A r \in Req : effects[r] <= 1
===============================================================================
