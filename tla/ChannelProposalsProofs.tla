------------------------ MODULE ChannelProposalsProofs ------------------------
(***************************************************************************)
(* For any names, limits, requests, crashes and failures: the live keys    *)
(* follow the table, no command takes effect twice or goes unreported      *)
(* while none overtakes another, and the table stays within its limits.    *)
(* The first invariant says what holds in the middle of a command: the     *)
(* keys differ from the table by the answer in hand, and a request, the    *)
(* row it names and that row's name agree.                                 *)
(***************************************************************************)
EXTENDS ChannelProposals, SequenceTheorems, FiniteSetTheorems, TLAPS

Asked == 1 .. Len(request)
Row == [id : Nat, status : Status \union {"none"}, by : Nat]
InHand == {"keys", "result", "remove"}

KeyTypes ==
    /\ request \in Seq([op : Op, name : Name, id : Nat])
    /\ asked \subseteq Asked /\ commands \subseteq Asked /\ work \subseteq Asked
    /\ table \in [Name -> Row]
    /\ keys \subseteq Name
    /\ runner \in {"idle", "next", "down"} \union InHand
    /\ runner \in InHand => current \in Asked

\* A decision and the proposal it is about have the same name, and a row has
\* the name of the request that made it.
NamesAgree ==
    /\ \A r \in Asked : request[r].id \in Asked /\ request[request[r].id].name = request[r].name
    /\ \A n \in Name : table[n] # NoRow =>
          table[n].id \in Asked /\ request[table[n].id].name = n

\* What the keys still lack of the table, once the command in hand is applied.
KeysInStep ==
    /\ runner \in {"idle", "next", "result", "remove"} => keys = WithStatus("approved")
    /\ runner = "keys" =>
          WithStatus("approved") =
             CASE answer = "approved" -> keys \union {request[current].name}
               [] answer = "revoked" /\ request[current].op = "revoke" ->
                     keys \ {request[current].name}
               [] OTHER -> keys

KeyInv == KeyTypes /\ NamesAgree /\ KeysInStep
------------------------------------------------------------------------------
\* At the start there is no request, no row and no key.
LEMMA InitKeys == Init => KeyInv
<1> SUFFICES ASSUME Init PROVE KeyInv
  OBVIOUS
<1>1. request = << >> /\ Len(request) = 0 /\ request \in Seq([op : Op, name : Name, id : Nat])
  BY DEF Init
<1>2. NoRow \in Row /\ NoRow.status = "none"
  BY DEF NoRow, Row
<1>3. KeyTypes
  BY <1>1, <1>2 DEF Init, KeyTypes, InHand
<1>4. NamesAgree
  BY <1>1 DEF Init, NamesAgree, Asked
<1>5. KeysInStep
  BY <1>2 DEF Init, KeysInStep, WithStatus
<1> QED
  BY <1>3, <1>4, <1>5 DEF KeyInv

LEMMA RequestTypes ==
    ASSUME KeyTypes, NEW r \in Asked
    PROVE  r \in Nat /\ request[r].op \in Op /\ request[r].name \in Name
<1> DEFINE Request == [op : Op, name : Name, id : Nat]
<1>1. request \in Seq(Request)
  BY DEF KeyTypes
<1>2. r \in 1 .. Len(request)
  BY DEF Asked
<1> HIDE DEF Request
<1>3. request[r] \in Request /\ Len(request) \in Nat
  BY <1>1, <1>2, ElementOfSeq, LenProperties
<1> QED
  BY <1>2, <1>3 DEF Request

\* What applying r may do to the table: only the row of its name changes, and
\* the answer tells whether that row is approved now.
Does(r, out) ==
    LET n == request[r].name
    IN  /\ out.table \in [Name -> Row]
        /\ \A m \in Name \ {n} : out.table[m] = table[m]
        /\ out.table[n] # NoRow => out.table[n].id \in Asked /\ request[out.table[n].id].name = n
        /\ out.status = "approved" => out.table[n].status = "approved"
        /\ out.status = "revoked" /\ request[r].op = "revoke" =>
              out.table[n].status = "revoked"
        /\ ~(out.status = "approved" \/ (out.status = "revoked" /\ request[r].op = "revoke")) =>
              (out.table[n].status = "approved" <=> table[n].status = "approved")

LEMMA UnchangedDoes ==
    ASSUME KeyTypes, NamesAgree, NEW r \in Asked, NEW s,
           s = "approved" => table[request[r].name].status = "approved",
           s = "revoked" /\ request[r].op = "revoke" => table[request[r].name].status = "revoked"
    PROVE  Does(r, Unchanged(s))
<1>1. request[r].name \in Name
  BY RequestTypes
<1>2. Unchanged(s).table = table /\ Unchanged(s).status = s
  BY DEF Unchanged
<1> QED
  BY <1>1, <1>2 DEF Does, KeyTypes, NamesAgree

LEMMA OutcomeDoes ==
    ASSUME KeyTypes, NamesAgree, NEW r \in Asked, NEW row \in Row, NEW s, s = row.status,
           row.id \in Asked, request[row.id].name = request[r].name,
           s = "approved" \/ (s = "revoked" /\ request[r].op = "revoke")
              \/ table[request[r].name].status # "approved"
    PROVE  Does(r, Outcome(s, request[r].name, row))
<1> DEFINE n == request[r].name
           out == Outcome(s, n, row)
<1>1. n \in Name
  BY RequestTypes
<1>2. out.table = [table EXCEPT ![n] = row] /\ out.status = s
  BY DEF Outcome
<1>3. out.table \in [Name -> Row] /\ out.table[n] = row
      /\ \A m \in Name \ {n} : out.table[m] = table[m]
  BY <1>1, <1>2 DEF KeyTypes
<1> SUFFICES Does(r, out)
  OBVIOUS
<1> HIDE DEF out
<1>4. out.table[n].status = s /\ out.status = s
  BY <1>2, <1>3
<1>5. s = "approved" \/ (s = "revoked" /\ request[r].op = "revoke")
         \/ (s # "approved" /\ table[n].status # "approved")
  OBVIOUS
<1>6. out.table[n].id \in Asked /\ request[out.table[n].id].name = n
  BY <1>3
<1>7. ~(s = "approved" \/ (s = "revoked" /\ request[r].op = "revoke")) =>
         (out.table[n].status = "approved" <=> table[n].status = "approved")
  BY <1>4, <1>5
<1> HIDE DEF n
<1> QED
  BY <1>3, <1>4, <1>6, <1>7 DEF Does, n
------------------------------------------------------------------------------
LEMMA SubmitDoes ==
    ASSUME KeyTypes, NamesAgree, NEW r \in Asked, request[r].op = "submit"
    PROVE  Does(r, Submit(r, request[r].name))
<1> DEFINE n == request[r].name
           row == table[n]
           found == row # NoRow
           toPending == ~AutoApprove \/ found
           status == IF toPending THEN "pending" ELSE "approved"
           new == [id |-> IF found THEN row.id ELSE r, status |-> status, by |-> r]
<1>1. n \in Name /\ r \in Nat /\ row \in Row
  BY RequestTypes DEF KeyTypes
<1>2. CASE found /\ row.status # "revoked"
  <2>1. Submit(r, n) = Unchanged(row.status)
    BY <1>2 DEF Submit
  <2> QED
    BY <2>1, UnchangedDoes
<1>3. Does(r, Unchanged("error"))
  BY UnchangedDoes
<1>4. CASE ~found \/ row.status = "revoked"
  <2>1. Submit(r, n) = Unchanged("error") \/ Submit(r, n) = Outcome(status, n, new)
    BY <1>4 DEF Submit
  <2>2. new \in Row /\ new.status = status
    BY <1>1 DEF Row, Status
  <2>3. new.id \in Asked /\ request[new.id].name = n
    BY <1>1 DEF NamesAgree
  <2>4. row.status # "approved"
    BY <1>4 DEF NoRow
  <2>5. Does(r, Outcome(status, n, new))
    BY <2>2, <2>3, <2>4, OutcomeDoes
  <2> QED
    BY <1>3, <2>1, <2>5
<1> QED
  BY <1>2, <1>4

LEMMA ReviewDoes ==
    ASSUME KeyTypes, NamesAgree, NEW r \in Asked, NEW source \in Status, NEW target \in Status,
           \/ target = "approved" /\ source = "pending"
           \/ target = "rejected" /\ source = "pending"
           \/ target = "revoked" /\ request[r].op = "revoke"
    PROVE  Does(r, Review(r, request[r].id, source, target))
<1> DEFINE i == request[r].id
           n == CHOOSE m \in RowsWithId(i) : TRUE
           row == table[n]
           new == [row EXCEPT !.status = target, !.by = r]
<1>1. Does(r, Unchanged("error"))
  BY UnchangedDoes
<1>2. CASE RowsWithId(i) = {}
  BY <1>1, <1>2 DEF Review
<1>3. CASE RowsWithId(i) # {}
  <2>1. n \in Name /\ row # NoRow /\ row.id = i
    BY <1>3 DEF RowsWithId
  <2>2. n = request[r].name
    BY <2>1 DEF NamesAgree
  <2>3. \/ row.status = target /\ Review(r, i, source, target) = Unchanged(target)
        \/ Review(r, i, source, target) = Unchanged("error")
        \/ row.status = source /\ Review(r, i, source, target) = Outcome(target, n, new)
    BY <1>3 DEF Review
  <2>4. CASE row.status = target /\ Review(r, i, source, target) = Unchanged(target)
    BY <2>2, <2>4, UnchangedDoes
  <2>5. CASE row.status = source /\ Review(r, i, source, target) = Outcome(target, n, new)
    <3>1. row \in Row /\ r \in Nat
      BY <2>1, RequestTypes DEF KeyTypes
    <3>2. new \in Row /\ new.status = target /\ new.id = i
      BY <2>1, <3>1 DEF Row
    <3>3. i \in Asked /\ request[i].name = n
      BY <2>1, <2>2 DEF NamesAgree
    <3> HIDE DEF new
    <3>4. Does(r, Outcome(target, request[r].name, new))
      BY <2>2, <2>5, <3>2, <3>3, OutcomeDoes
    <3> QED
      BY <2>2, <2>5, <3>4
  <2> QED
    BY <1>1, <2>3, <2>4, <2>5
<1> QED
  BY <1>2, <1>3

LEMMA AppliedDoes ==
    ASSUME KeyTypes, NamesAgree, NEW r \in Asked
    PROVE  Does(r, Applied(r))
<1>1. request[r].op \in Op
  BY RequestTypes
<1>2. CASE r <= expired
  BY <1>2, UnchangedDoes DEF Applied
<1>3. CASE ~(r <= expired) /\ request[r].op = "submit"
  BY <1>3, SubmitDoes DEF Applied
<1>4. CASE ~(r <= expired) /\ request[r].op # "submit"
  BY <1>1, <1>4, ReviewDoes DEF Applied, Op, Status
<1> QED
  BY <1>2, <1>3, <1>4
------------------------------------------------------------------------------
\* A request is added at the end; the others and their names stay.
LEMMA AskKeys ==
    ASSUME KeyInv, NEW req \in [op : Op, name : Name, id : Nat], Ask(req),
           \/ req.id = Len(request) + 1
           \/ req.id \in Asked /\ request[req.id].name = req.name
    PROVE  KeyInv'
<1> DEFINE Request == [op : Op, name : Name, id : Nat]
           k == Len(request) + 1
<1>1. request \in Seq(Request) /\ request' = Append(request, req)
  BY DEF KeyInv, KeyTypes, Ask
<1> HIDE DEF Request
<1>2. /\ Len(request) \in Nat /\ request' \in Seq(Request) /\ Len(request') = k
      /\ request'[k] = req
      /\ \A r \in 1 .. Len(request) : request'[r] = request[r]
  BY <1>1, AppendProperties, LenProperties DEF Request
<1>3. Asked' = Asked \union {k} /\ k \notin Asked
      /\ \A r \in Asked : request'[r] = request[r]
  BY <1>2 DEF Asked
<1>4. asked' = asked \union {k}
      /\ UNCHANGED <<commands, table, keys, runner, work, current, answer>>
  BY DEF Ask, files, ingestor
<1> HIDE DEF k
<1>5. KeyTypes'
  BY <1>2, <1>3, <1>4 DEF KeyInv, KeyTypes, Request
<1>6. NamesAgree'
  <2>1. ASSUME NEW r \in Asked'
        PROVE  request'[r].id \in Asked' /\ request'[request'[r].id].name = request'[r].name
    <3>1. CASE r \in Asked
      BY <1>3, <3>1 DEF KeyInv, NamesAgree
    <3>2. CASE r = k
      BY <1>2, <1>3, <3>2 DEF k
    <3> QED
      BY <1>3, <2>1, <3>1, <3>2
  <2>2. ASSUME NEW n \in Name, table'[n] # NoRow
        PROVE  table'[n].id \in Asked' /\ request'[table'[n].id].name = n
    BY <1>3, <1>4, <2>2 DEF KeyInv, NamesAgree
  <2> QED
    BY <2>1, <2>2 DEF NamesAgree
<1>7. KeysInStep'
  <2>1. WithStatus("approved")' = WithStatus("approved")
    BY <1>4 DEF WithStatus
  <2>2. runner \in InHand => request'[current] = request[current]
    BY <1>3 DEF KeyInv, KeyTypes
  <2> QED
    BY <1>4, <2>1, <2>2 DEF KeyInv, KeysInStep, InHand
<1> QED
  BY <1>5, <1>6, <1>7 DEF KeyInv

\* Applying a command leaves the keys behind by just its answer.
LEMMA ApplyKeys ==
    ASSUME KeyInv, NEW r \in Req, Apply(r)
    PROVE  KeyInv'
<1> DEFINE n == request[r].name
           out == Applied(r)
<1>1. KeyTypes /\ NamesAgree /\ r \in Asked /\ n \in Name /\ keys = WithStatus("approved")
  BY RequestTypes DEF KeyInv, KeyTypes, KeysInStep, Apply, First
<1>2. Does(r, out)
  BY <1>1, AppliedDoes
<1>3. /\ table' = out.table /\ answer' = out.status /\ current' = r /\ runner' = "keys"
      /\ UNCHANGED <<request, asked, commands, keys, work>> /\ Asked' = Asked
  BY DEF Apply, files, Asked
<1> HIDE DEF out
<1>4. KeyTypes'
  BY <1>1, <1>2, <1>3 DEF KeyTypes, InHand, Does
<1>5. NamesAgree'
  <2>1. ASSUME NEW m \in Name, table'[m] # NoRow
        PROVE  table'[m].id \in Asked /\ request[table'[m].id].name = m
    <3>1. CASE m = n
      BY <1>2, <1>3, <2>1, <3>1 DEF Does
    <3>2. CASE m # n
      BY <1>1, <1>2, <1>3, <2>1, <3>2 DEF Does, NamesAgree
    <3> QED
      BY <3>1, <3>2
  <2> QED
    BY <1>1, <1>3, <2>1 DEF NamesAgree
<1>6. KeysInStep'
  <2>1. WithStatus("approved")' = {m \in Name : out.table[m].status = "approved"}
    BY <1>3 DEF WithStatus
  <2>2. \A m \in Name \ {n} : out.table[m] = table[m]
    BY <1>2 DEF Does
  <2>3. CASE out.status = "approved"
    <3>1. out.table[n].status = "approved"
      BY <1>2, <2>3 DEF Does
    <3>2. WithStatus("approved")' = keys \union {n}
      BY <1>1, <2>1, <2>2, <3>1 DEF WithStatus
    <3> QED
      BY <1>3, <2>3, <3>2 DEF KeysInStep
  <2>4. CASE out.status = "revoked" /\ request[r].op = "revoke"
    <3>1. out.table[n].status = "revoked"
      BY <1>2, <2>4 DEF Does
    <3>2. WithStatus("approved")' = keys \ {n}
      BY <1>1, <2>1, <2>2, <3>1 DEF WithStatus
    <3> QED
      BY <1>3, <2>4, <3>2 DEF KeysInStep
  <2>5. CASE ~(out.status = "approved" \/ (out.status = "revoked" /\ request[r].op = "revoke"))
    <3>1. out.table[n].status = "approved" <=> table[n].status = "approved"
      BY <1>2, <2>5 DEF Does
    <3>2. WithStatus("approved")' = keys
      BY <1>1, <2>1, <2>2, <3>1 DEF WithStatus
    <3> QED
      BY <1>3, <2>5, <3>2 DEF KeysInStep
  <2> QED
    BY <2>3, <2>4, <2>5
<1> QED
  BY <1>4, <1>5, <1>6 DEF KeyInv

\* Every step that leaves requests and table alone, and keeps or restores the
\* relation between them and the keys.
LEMMA SameTable ==
    ASSUME KeyInv, UNCHANGED <<request, table>>, KeyTypes', KeysInStep'
    PROVE  KeyInv'
BY DEF KeyInv, NamesAgree, Asked
------------------------------------------------------------------------------
\* KeyInv is inductive.
LEMMA KeyStep == KeyInv /\ [Next]_vars => KeyInv'
<1> SUFFICES ASSUME KeyInv, [Next]_vars PROVE KeyInv'
  OBVIOUS
<1> USE DEF KeyInv
<1>0. Len(request) \in Nat
  BY LenProperties DEF KeyTypes
<1>1. ASSUME NEW n \in Name, Suggest(n) PROVE KeyInv'
  <2> DEFINE req == [op |-> "submit", name |-> n, id |-> Len(request) + 1]
  <2>1. req \in [op : Op, name : Name, id : Nat] /\ req.id = Len(request) + 1
    BY <1>0 DEF Op
  <2>2. Ask(req)
    BY <1>1 DEF Suggest
  <2> HIDE DEF req
  <2> QED
    BY <2>1, <2>2, AskKeys
<1>2. ASSUME NEW op \in Op, NEW n \in Name, Decide(op, n) PROVE KeyInv'
  <2> DEFINE req == [op |-> op, name |-> n, id |-> table[n].id]
  <2>1. table[n].id \in Asked /\ request[table[n].id].name = n
    BY <1>2 DEF Decide, NamesAgree
  <2>2. req \in [op : Op, name : Name, id : Nat] /\ req.id = table[n].id /\ req.name = n
    BY <2>1, <1>0 DEF Asked
  <2>3. Ask(req)
    BY <1>2 DEF Decide
  <2> HIDE DEF req
  <2> QED
    BY <2>1, <2>2, <2>3, AskKeys
<1>3. ASSUME NEW r \in Req, Enqueue(r) \/ EnqueueRefused(r) PROVE KeyInv'
  <2>1. /\ UNCHANGED <<request, table, keys, runner, work, current, answer>>
        /\ asked' \subseteq asked /\ commands' \subseteq commands \union asked
    BY <1>3 DEF Enqueue, EnqueueRefused, ingestor, files
  <2> QED
    BY <2>1, SameTable DEF KeyTypes, KeysInStep, Asked, WithStatus
<1>4. ASSUME Pending PROVE KeyInv'
  BY <1>4, SameTable DEF Pending, files, KeyTypes, KeysInStep, Asked, WithStatus, InHand
<1>5. ASSUME NEW r \in Req, Apply(r) PROVE KeyInv'
  BY <1>5, ApplyKeys
<1>6. ASSUME NEW r \in Req, ApplyFails(r) PROVE KeyInv'
  BY <1>6, SameTable DEF ApplyFails, First, files, KeyTypes, KeysInStep, Asked, WithStatus, InHand
<1>7. ASSUME UpdateKeys PROVE KeyInv'
  <2>1. /\ runner = "keys" /\ runner' = "result" /\ current \in Asked
        /\ UNCHANGED <<request, asked, commands, table, work, current, answer>>
    BY <1>7 DEF UpdateKeys, files, KeyTypes, InHand
  <2>2. keys' = WithStatus("approved") /\ WithStatus("approved")' = WithStatus("approved")
    BY <1>7, <2>1 DEF UpdateKeys, KeysInStep, WithStatus
  <2>3. keys' \subseteq Name
    BY <2>2 DEF WithStatus
  <2> QED
    BY <2>1, <2>2, <2>3, SameTable DEF KeyTypes, KeysInStep, Asked, InHand
<1>8. ASSUME WriteResult PROVE KeyInv'
  BY <1>8, SameTable DEF WriteResult, KeyTypes, KeysInStep, Asked, WithStatus, InHand
<1>9. ASSUME RemoveCommand \/ CompleteFails PROVE KeyInv'
  <2>1. /\ UNCHANGED <<request, asked, table, keys>> /\ commands' \subseteq commands
        /\ runner \in {"result", "remove"} /\ runner' \in {"idle", "next"} /\ work' \subseteq work
    BY <1>9 DEF RemoveCommand, CompleteFails, Advance, files
  <2> QED
    BY <2>1, SameTable DEF KeyTypes, KeysInStep, Asked, WithStatus, InHand
<1>10. ASSUME NEW gone \in SUBSET Prunable, NEW old, Prune(gone, old) PROVE KeyInv'
  <2>1. /\ UNCHANGED <<request, asked, commands, keys, runner, work, current, answer>>
        /\ runner = "idle"
        /\ table' = [n \in Name |-> IF n \in gone THEN NoRow ELSE table[n]]
    BY <1>10 DEF Prune, ingestor
  <2>2. NoRow \in Row /\ NoRow.status = "none"
    BY DEF NoRow, Row
  <2>3. \A n \in gone : table[n].status # "approved"
    BY DEF Prunable
  <2>4. WithStatus("approved")' = WithStatus("approved")
    BY <2>1, <2>2, <2>3 DEF WithStatus
  <2>5. KeyTypes'
    BY <2>1, <2>2 DEF KeyTypes, Asked, InHand
  <2>6. NamesAgree'
    BY <2>1 DEF NamesAgree, Asked
  <2> QED
    BY <2>1, <2>4, <2>5, <2>6 DEF KeysInStep
<1>11. ASSUME Crash PROVE KeyInv'
  BY <1>11, SameTable DEF Crash, files, KeyTypes, KeysInStep, Asked, InHand
<1>12. ASSUME Restart PROVE KeyInv'
  BY <1>12, SameTable DEF Restart, files, KeyTypes, KeysInStep, Asked, InHand, WithStatus
<1>13. ASSUME Expire \/ UNCHANGED vars PROVE KeyInv'
  <2>1. UNCHANGED <<request, asked, commands, table, keys, runner, work, current, answer>>
    BY <1>13 DEF Expire, vars, files, ingestor
  <2> QED
    BY <2>1, SameTable DEF KeyTypes, KeysInStep, Asked, WithStatus
<1> QED
  BY <1>1, <1>2, <1>3, <1>4, <1>5, <1>6, <1>7, <1>8, <1>9, <1>10, <1>11, <1>12, <1>13
     DEF Next, Serve, Run

\* The inductive invariant holds in every reachable state.
THEOREM KeyInvariant == Spec => []KeyInv
BY InitKeys, KeyStep, PTL DEF Spec

\* Between two commands the ingestor decrypts exactly the approved channels,
\* whatever the order of requests, crashes, replays and failing files.
THEOREM KeysFollowTableHolds == Spec => []KeysFollowTable
<1>1. KeyInv => KeysFollowTable
  BY DEF KeyInv, KeysInStep, KeysFollowTable
<1> QED
  BY <1>1, KeyInvariant, PTL

------------------------------------------------------------------------------
(* Replays.  A command that has taken effect and is still queued is the      *)
(* first in line, and the row it changed is still as it left it.             *)

\* What the order argument reads: a listed command is queued, one in hand is
\* the first of those listed, and one that was not queued yet did nothing.
OrderTypes ==
    /\ Len(request) <= MaxRequests /\ expired \in Nat
    /\ effects \in [Req -> Nat] /\ DOMAIN results = Req
    /\ work \subseteq commands /\ commands \cap asked = {}
    /\ runner \in {"idle", "down"} => work = {}
    /\ runner \in InHand => First(current)
    /\ \A r \in Req : r \in asked \/ r > Len(request) => effects[r] = 0

\* Row t[name] is what request r made of it.
Stands(r, t) ==
    LET row == t[request[r].name]
    IN  /\ row.by = r /\ row.status \in Yields(request[r].op)
        /\ request[r].op # "submit" => row.id = request[r].id

\* Commands that joined the queue after it was listed come after those listed.
ListedFirst == \A w \in work, q \in commands \ work : w < q

\* A queued command that took effect is the oldest one queued.
EffectFirst == \A r \in commands : effects[r] > 0 => \A q \in commands : r <= q

\* Nothing has touched its row since.
EffectStands == \A r \in commands : effects[r] > 0 /\ r > expired => Stands(r, table)

\* The answer in hand, and the one written, tell of the effect.
AnswerTells ==
    /\ runner = "remove" => results[current] = answer
    /\ /\ runner \in InHand /\ ~overtaken /\ effects[current] > 0
       /\ current > expired /\ current \notin spoiled
       => answer \in Yields(request[current].op)

ReplayInv ==
    /\ OrderTypes /\ AnswerTells /\ EffectsReported /\ NeverAppliedTwice
    /\ ~overtaken => ListedFirst /\ EffectFirst /\ EffectStands

LEMMA InitReplay == Init => ReplayInv
<1> SUFFICES ASSUME Init PROVE ReplayInv
  OBVIOUS
<1>1. Len(request) = 0 /\ MaxRequests \in Nat
  BY ProposalAssumption DEF Init
<1>2. OrderTypes
  BY <1>1 DEF Init, OrderTypes, InHand, Req
<1>3. AnswerTells
  BY DEF Init, AnswerTells, InHand
<1>4. EffectsReported /\ NeverAppliedTwice
  BY <1>1 DEF Init, EffectsReported, NeverAppliedTwice
<1>5. ListedFirst /\ EffectFirst /\ EffectStands
  BY DEF Init, ListedFirst, EffectFirst, EffectStands
<1> QED
  BY <1>2, <1>3, <1>4, <1>5 DEF ReplayInv

\* Carrying out r: what an effect leaves behind, and that r finds nothing to do
\* where its effect still stands.
Carries(r, out) ==
    /\ out.table # table => /\ r > expired /\ out.status \in Yields(request[r].op)
                            /\ Stands(r, out.table)
    /\ r > expired /\ Stands(r, table) =>
          out.table = table /\ out.status \in Yields(request[r].op)

LEMMA SubmitCarries ==
    ASSUME KeyTypes, NamesAgree, NEW r \in Asked, request[r].op = "submit", r > expired
    PROVE  Carries(r, Submit(r, request[r].name))
<1> DEFINE n == request[r].name
           row == table[n]
           found == row # NoRow
           toPending == ~AutoApprove \/ found
           status == IF toPending THEN "pending" ELSE "approved"
           new == [id |-> IF found THEN row.id ELSE r, status |-> status, by |-> r]
           out == Submit(r, n)
<1> SUFFICES Carries(r, out)
  OBVIOUS
<1>1. n \in Name /\ row \in Row /\ NoRow.status = "none"
  BY RequestTypes DEF KeyTypes, NoRow
<1>2. Yields(request[r].op) = {"pending", "approved"}
  BY DEF Yields
<1>3. Stands(r, table) => found /\ row.status # "revoked" /\ row.status \in {"pending", "approved"}
  BY <1>1, <1>2 DEF Stands
<1>4. CASE found /\ row.status # "revoked"
  <2>1. out = Unchanged(row.status)
    BY <1>4 DEF Submit
  <2>2. out.table = table /\ out.status = row.status
    BY <2>1 DEF Unchanged
  <2> HIDE DEF out
  <2> QED
    BY <1>2, <1>3, <2>2 DEF Carries
<1>5. CASE ~(found /\ row.status # "revoked")
  <2>1. out = Unchanged("error") \/ out = Outcome(status, n, new)
    BY <1>5 DEF Submit
  <2>2. CASE out = Unchanged("error")
    <3>1. out.table = table
      BY <2>2 DEF Unchanged
    <3> HIDE DEF out
    <3> QED
      BY <1>3, <1>5, <3>1 DEF Carries
  <2>3. CASE out = Outcome(status, n, new)
    <3>1. out.table = [table EXCEPT ![n] = new] /\ out.status = status
      BY <2>3 DEF Outcome
    <3>2. out.table[n] = new /\ new.by = r /\ new.status = status
      BY <1>1, <3>1 DEF KeyTypes
    <3>3. status \in {"pending", "approved"}
      OBVIOUS
    <3> HIDE DEF out, new, status
    <3>4. Stands(r, out.table)
      BY <1>2, <3>2, <3>3 DEF Stands
    <3> QED
      BY <1>2, <1>3, <1>5, <3>1, <3>3, <3>4 DEF Carries
  <2> QED
    BY <2>1, <2>2, <2>3
<1> QED
  BY <1>4, <1>5

LEMMA ReviewCarries ==
    ASSUME KeyTypes, NamesAgree, NEW r \in Asked, NEW source \in Status, NEW target \in Status,
           source # target, request[r].op # "submit", Yields(request[r].op) = {target},
           r > expired
    PROVE  Carries(r, Review(r, request[r].id, source, target))
<1> DEFINE i == request[r].id
           n == CHOOSE m \in RowsWithId(i) : TRUE
           row == table[n]
           new == [row EXCEPT !.status = target, !.by = r]
           out == Review(r, i, source, target)
<1> SUFFICES Carries(r, out)
  OBVIOUS
<1>1. request[r].name \in Name /\ NoRow.status = "none" /\ target # "none" /\ r \in Nat
  BY RequestTypes DEF NoRow, Status
<1>2. Stands(r, table) => request[r].name \in RowsWithId(i)
  BY <1>1 DEF Stands, RowsWithId
<1>3. CASE RowsWithId(i) = {}
  <2>1. out = Unchanged("error")
    BY <1>3 DEF Review
  <2>2. out.table = table
    BY <2>1 DEF Unchanged
  <2> HIDE DEF out
  <2> QED
    BY <1>2, <1>3, <2>2 DEF Carries
<1>4. CASE RowsWithId(i) # {}
  <2>1. n \in Name /\ row # NoRow /\ row.id = i
    BY <1>4 DEF RowsWithId
  <2>2. n = request[r].name
    BY <2>1 DEF NamesAgree
  <2>3. Stands(r, table) => row.status = target
    BY <2>2 DEF Stands
  <2>4. \/ row.status = target /\ out = Unchanged(target)
        \/ row.status # target /\ out = Unchanged("error")
        \/ row.status # target /\ out = Outcome(target, n, new)
    <3>1. row.status = target => out = Unchanged(target)
      BY <1>4 DEF Review
    <3>2. row.status # target => out = Unchanged("error") \/ out = Outcome(target, n, new)
      BY <1>4 DEF Review
    <3> QED
      BY <3>1, <3>2
  <2>5. CASE row.status = target /\ out = Unchanged(target)
    <3>1. out.table = table /\ out.status = target
      BY <2>5 DEF Unchanged
    <3> HIDE DEF out
    <3> QED
      BY <3>1 DEF Carries
  <2>6. CASE row.status # target /\ out = Unchanged("error")
    <3>1. out.table = table
      BY <2>6 DEF Unchanged
    <3> HIDE DEF out
    <3> QED
      BY <2>3, <2>6, <3>1 DEF Carries
  <2>7. CASE row.status # target /\ out = Outcome(target, n, new)
    <3>1. out.table = [table EXCEPT ![n] = new] /\ out.status = target
      BY <2>7 DEF Outcome
    <3>2. row \in Row
      BY <2>1 DEF KeyTypes
    <3>3. new.by = r /\ new.status = target /\ new.id = i
      BY <2>1, <3>2 DEF Row
    <3>4. out.table[n] = new
      BY <2>1, <3>1 DEF KeyTypes
    <3> HIDE DEF out, new
    <3>5. Stands(r, out.table)
      BY <2>2, <3>3, <3>4 DEF Stands
    <3> QED
      BY <2>3, <2>7, <3>1, <3>5 DEF Carries
  <2> QED
    BY <2>4, <2>5, <2>6, <2>7
<1> QED
  BY <1>3, <1>4

LEMMA AppliedCarries ==
    ASSUME KeyTypes, NamesAgree, NEW r \in Asked, expired \in Nat
    PROVE  Carries(r, Applied(r))
<1>1. request[r].op \in Op /\ r \in Nat
  BY RequestTypes
<1>2. CASE r <= expired
  <2>1. Applied(r).table = table /\ ~(r > expired)
    BY <1>1, <1>2 DEF Applied, Unchanged
  <2> QED
    BY <2>1 DEF Carries
<1>3. CASE r > expired /\ request[r].op = "submit"
  <2>1. Applied(r) = Submit(r, request[r].name)
    BY <1>1, <1>3 DEF Applied
  <2> QED
    BY <1>3, <2>1, SubmitCarries
<1>4. CASE r > expired /\ request[r].op # "submit"
  <2>1. PICK source \in Status, target \in Status :
          /\ Applied(r) = Review(r, request[r].id, source, target)
          /\ Yields(request[r].op) = {target} /\ source # target
    BY <1>1, <1>4 DEF Applied, Op, Status, Yields
  <2> QED
    BY <1>4, <2>1, ReviewCarries
<1> QED
  BY <1>1, <1>2, <1>3, <1>4

------------------------------------------------------------------------------
\* The parts of ReplayInv that the order of the queue decides.
QueueInv == ~overtaken => ListedFirst /\ EffectFirst /\ EffectStands

LEMMA ReplayParts ==
    ASSUME OrderTypes', AnswerTells', EffectsReported', NeverAppliedTwice', QueueInv'
    PROVE  ReplayInv'
BY DEF ReplayInv, QueueInv

\* Numbers: requests, commands and the effects they had.
LEMMA Numbers ==
    ASSUME KeyInv, ReplayInv
    PROVE  /\ Len(request) \in Nat /\ MaxRequests \in Nat /\ expired \in Nat
           /\ Asked \subseteq Req /\ Req \subseteq Nat
           /\ commands \subseteq Asked /\ work \subseteq commands /\ asked \subseteq Asked
           /\ effects \in [Req -> Nat] /\ DOMAIN results = Req
           /\ runner \in InHand => current \in Asked /\ current \in work
<1>1. Len(request) \in Nat /\ MaxRequests \in Nat
  BY ProposalAssumption, LenProperties DEF KeyInv, KeyTypes
<1>2. Asked \subseteq Req /\ Req \subseteq Nat
  BY <1>1 DEF Asked, Req, ReplayInv, OrderTypes
<1> QED
  BY <1>1, <1>2 DEF KeyInv, KeyTypes, ReplayInv, OrderTypes, First

LEMMA AskReplay ==
    ASSUME KeyInv, ReplayInv, NEW req \in [op : Op, name : Name, id : Nat], Ask(req)
    PROVE  ReplayInv'
<1> DEFINE Request == [op : Op, name : Name, id : Nat]
           k == Len(request) + 1
<1>1. request \in Seq(Request) /\ request' = Append(request, req) /\ Len(request) < MaxRequests
  BY DEF KeyInv, KeyTypes, Ask
<1> HIDE DEF Request
<1>2. /\ Len(request) \in Nat /\ Len(request') = k /\ request'[k] = req
      /\ \A r \in 1 .. Len(request) : request'[r] = request[r]
  BY <1>1, AppendProperties, LenProperties DEF Request
<1>3. /\ asked' = asked \union {k}
      /\ UNCHANGED <<commands, results, table, keys, runner, work, current, answer, expired,
                     effects, overtaken, spoiled>>
  BY DEF Ask, files, ingestor, history
<1>4. /\ MaxRequests \in Nat /\ commands \subseteq 1 .. Len(request) /\ Req \subseteq Nat
      /\ k \in Req /\ effects[k] = 0 /\ (runner \in InHand => current \in 1 .. Len(request))
      /\ 1 .. Len(request') = (1 .. Len(request)) \union {k}
  BY <1>1, <1>2, Numbers DEF ReplayInv, OrderTypes, Asked, Req
<1> HIDE DEF k
<1>5. OrderTypes'
  BY <1>1, <1>2, <1>3, <1>4 DEF ReplayInv, OrderTypes, First, Req, InHand, k
<1>6. AnswerTells'
  BY <1>2, <1>3, <1>4 DEF ReplayInv, AnswerTells
<1>7. EffectsReported'
  BY <1>2, <1>3, <1>4 DEF ReplayInv, EffectsReported
<1>8. NeverAppliedTwice'
  BY <1>3 DEF ReplayInv, NeverAppliedTwice
<1>9. QueueInv'
  BY <1>2, <1>3, <1>4 DEF ReplayInv, QueueInv, ListedFirst, EffectFirst, EffectStands, Stands
<1> QED
  BY <1>5, <1>6, <1>7, <1>8, <1>9, ReplayParts

\* A command that appears before one that was there is recorded as such.
LEMMA EnqueueReplay ==
    ASSUME KeyInv, ReplayInv, NEW r \in Req, Enqueue(r)
    PROVE  ReplayInv'
<1>1. /\ r \in asked /\ asked' = asked \ {r} /\ commands' = commands \union {r}
      /\ overtaken' = (overtaken \/ \E q \in r + 1 .. Len(request) : q \notin asked)
      /\ UNCHANGED <<request, results, table, keys, runner, work, current, answer, expired,
                     effects, spoiled>>
  BY DEF Enqueue, ingestor
<1>2. /\ Len(request) \in Nat /\ Req \subseteq Nat /\ commands \subseteq 1 .. Len(request)
      /\ work \subseteq commands /\ commands \cap asked = {} /\ effects[r] = 0
  BY <1>1, Numbers DEF ReplayInv, OrderTypes, Asked
<1>3. ~overtaken' => ~overtaken /\ \A q \in commands : q < r
  <2> SUFFICES ASSUME ~overtaken', NEW q \in commands PROVE ~overtaken /\ q < r
    BY <1>1
  <2>1. q \notin asked /\ q \in 1 .. Len(request) /\ q # r /\ r \in Nat
    BY <1>1, <1>2
  <2>2. q \notin r + 1 .. Len(request)
    BY <1>1, <2>1
  <2>3. q < r
    BY <1>2, <2>1, <2>2
  <2> QED
    BY <1>1, <2>3
<1>4. OrderTypes'
  BY <1>1, <1>2 DEF ReplayInv, OrderTypes, First
<1>5. AnswerTells'
  BY <1>1, <1>3 DEF ReplayInv, AnswerTells
<1>6. EffectsReported'
  BY <1>1, <1>3 DEF ReplayInv, EffectsReported
<1>7. NeverAppliedTwice'
  BY <1>1, <1>3 DEF ReplayInv, NeverAppliedTwice
<1>8. QueueInv'
  <2> SUFFICES ASSUME ~overtaken' PROVE (ListedFirst /\ EffectFirst /\ EffectStands)'
    BY DEF QueueInv
  <2>1. ~overtaken /\ \A q \in commands : q < r /\ q \in Nat
    BY <1>2, <1>3
  <2>2. ListedFirst'
    BY <1>1, <1>2, <2>1 DEF ReplayInv, ListedFirst
  <2>3. EffectFirst'
    BY <1>1, <1>2, <2>1 DEF ReplayInv, EffectFirst
  <2>4. EffectStands'
    BY <1>1, <1>2, <2>1 DEF ReplayInv, EffectStands, Stands
  <2> QED
    BY <2>2, <2>3, <2>4
<1> QED
  BY <1>4, <1>5, <1>6, <1>7, <1>8, ReplayParts

LEMMA RefusedReplay ==
    ASSUME KeyInv, ReplayInv, NEW r \in Req, EnqueueRefused(r)
    PROVE  ReplayInv'
<1>1. /\ asked' \subseteq asked
      /\ UNCHANGED <<request, commands, results, table, keys, runner, work, current, answer,
                     expired, effects, overtaken, spoiled>>
  BY DEF EnqueueRefused, ingestor, files, history
<1>2. OrderTypes'
  BY <1>1 DEF ReplayInv, OrderTypes, First
<1>3. (AnswerTells /\ EffectsReported /\ NeverAppliedTwice)'
  BY <1>1 DEF ReplayInv, AnswerTells, EffectsReported, NeverAppliedTwice
<1>4. QueueInv'
  BY <1>1 DEF ReplayInv, QueueInv, ListedFirst, EffectFirst, EffectStands, Stands
<1> QED
  BY <1>2, <1>3, <1>4, ReplayParts

LEMMA PendingReplay ==
    ASSUME KeyInv, ReplayInv, Pending
    PROVE  ReplayInv'
<1>1. /\ work' = commands /\ runner' = "next"
      /\ UNCHANGED <<request, asked, commands, results, table, keys, current, answer, expired,
                     effects, overtaken, spoiled>>
  BY DEF Pending, files, history
<1>2. OrderTypes'
  BY <1>1 DEF ReplayInv, OrderTypes, InHand
<1>3. (AnswerTells /\ EffectsReported /\ NeverAppliedTwice)'
  BY <1>1 DEF ReplayInv, AnswerTells, EffectsReported, NeverAppliedTwice, InHand
<1>4. QueueInv'
  BY <1>1 DEF ReplayInv, QueueInv, ListedFirst, EffectFirst, EffectStands, Stands
<1> QED
  BY <1>2, <1>3, <1>4, ReplayParts

\* The first listed command is the oldest queued: it takes effect for the first
\* time, or finds its effect standing, and no other effect is still queued.
LEMMA ApplyReplay ==
    ASSUME KeyInv, ReplayInv, NEW r \in Req, Apply(r)
    PROVE  ReplayInv'
<1> DEFINE out == Applied(r)
<1>1. /\ runner = "next" /\ First(r) /\ current' = r /\ runner' = "keys"
      /\ table' = out.table /\ answer' = out.status
      /\ effects' = IF out.table = table THEN effects ELSE [effects EXCEPT ![r] = @ + 1]
      /\ UNCHANGED <<request, asked, commands, results, keys, work, expired, overtaken, spoiled>>
  BY DEF Apply, files
<1>2. /\ Req \subseteq Nat /\ commands \subseteq Asked /\ Asked \subseteq Req
      /\ work \subseteq commands /\ commands \cap asked = {} /\ Len(request) \in Nat
      /\ expired \in Nat /\ effects \in [Req -> Nat]
  BY Numbers DEF ReplayInv, OrderTypes
<1>3. r \in work /\ r \in commands /\ r \in Asked /\ r \notin asked /\ r \in Nat
      /\ \A q \in work : r <= q
  BY <1>1, <1>2 DEF First
<1>4. Carries(r, out)
  BY <1>2, <1>3, AppliedCarries DEF KeyInv
<1>5. /\ out.table = table => effects' = effects
      /\ out.table # table => effects'[r] = effects[r] + 1
      /\ effects' \in [Req -> Nat] /\ \A q \in Req \ {r} : effects'[q] = effects[q]
  BY <1>1, <1>2
<1> HIDE DEF out
<1>6. ~overtaken => \A q \in commands : r <= q
  BY <1>2, <1>3 DEF ReplayInv, ListedFirst
<1>7. ~overtaken => \A q \in commands \ {r} : effects[q] = 0
  <2> SUFFICES ASSUME ~overtaken, NEW q \in commands, q # r, effects[q] # 0 PROVE FALSE
    OBVIOUS
  <2>1. effects[q] > 0 /\ q \in Nat
    BY <1>2
  <2>2. q <= r
    BY <1>3, <2>1 DEF ReplayInv, EffectFirst
  <2> QED
    BY <1>3, <1>6, <2>1, <2>2
<1>8. ~overtaken /\ effects[r] > 0 => out.table = table
  BY <1>3, <1>4 DEF Carries, ReplayInv, EffectStands
<1>9. OrderTypes'
  <2>1. \A q \in Req : q \in asked \/ q > Len(request) => q # r
    BY <1>2, <1>3 DEF Asked
  <2>2. \A q \in Req : q \in asked \/ q > Len(request) => effects'[q] = 0
    BY <1>5, <2>1 DEF ReplayInv, OrderTypes
  <2>3. First(r)'
    BY <1>1 DEF First
  <2> QED
    BY <1>1, <1>5, <2>2, <2>3 DEF ReplayInv, OrderTypes
<1>10. NeverAppliedTwice'
  BY <1>1, <1>2, <1>5, <1>8 DEF ReplayInv, NeverAppliedTwice
<1>11. ~overtaken /\ effects'[r] > 0 /\ r > expired => out.status \in Yields(request[r].op)
                                                     /\ Stands(r, out.table)
  <2> SUFFICES ASSUME ~overtaken, effects'[r] > 0, r > expired
               PROVE  out.status \in Yields(request[r].op) /\ Stands(r, out.table)
    OBVIOUS
  <2>1. CASE out.table # table
    BY <1>4, <2>1 DEF Carries
  <2>2. CASE out.table = table
    <3>1. effects[r] > 0
      BY <1>5, <2>2
    <3>2. Stands(r, table)
      BY <1>3, <3>1 DEF ReplayInv, EffectStands
    <3> QED
      BY <1>4, <2>2, <3>2 DEF Carries
  <2> QED
    BY <2>1, <2>2
<1>12. AnswerTells'
  BY <1>1, <1>11 DEF AnswerTells
<1>13. EffectsReported'
  BY <1>1, <1>2, <1>3, <1>5 DEF ReplayInv, EffectsReported, Asked
<1>14. QueueInv'
  <2> SUFFICES ASSUME ~overtaken PROVE (ListedFirst /\ EffectFirst /\ EffectStands)'
    BY <1>1 DEF QueueInv
  <2>1. ListedFirst'
    BY <1>1 DEF ReplayInv, ListedFirst
  <2>2. \A q \in commands : effects'[q] > 0 => q = r
    BY <1>2, <1>5, <1>7
  <2>3. EffectFirst'
    BY <1>1, <1>6, <2>2 DEF EffectFirst
  <2>4. EffectStands'
    BY <1>1, <1>11, <2>2 DEF EffectStands, Stands
  <2> QED
    BY <2>1, <2>3, <2>4
<1> QED
  BY <1>9, <1>10, <1>12, <1>13, <1>14, ReplayParts

LEMMA ApplyFailsReplay ==
    ASSUME KeyInv, ReplayInv, NEW r \in Req, ApplyFails(r)
    PROVE  ReplayInv'
<1>1. /\ First(r) /\ current' = r /\ runner' = "keys" /\ answer' = "error"
      /\ spoiled' = IF effects[r] > 0 THEN spoiled \union {r} ELSE spoiled
      /\ UNCHANGED <<request, asked, commands, results, table, keys, work, expired, effects,
                     overtaken>>
  BY DEF ApplyFails, files
<1>2. OrderTypes'
  BY <1>1 DEF ReplayInv, OrderTypes, First
<1>3. AnswerTells'
  BY <1>1 DEF AnswerTells
<1>4. (EffectsReported /\ NeverAppliedTwice)'
  BY <1>1 DEF ReplayInv, EffectsReported, NeverAppliedTwice
<1>5. QueueInv'
  BY <1>1 DEF ReplayInv, QueueInv, ListedFirst, EffectFirst, EffectStands, Stands
<1> QED
  BY <1>2, <1>3, <1>4, <1>5, ReplayParts

LEMMA UpdateKeysReplay ==
    ASSUME KeyInv, ReplayInv, UpdateKeys
    PROVE  ReplayInv'
<1>1. /\ runner = "keys" /\ runner' = "result"
      /\ UNCHANGED <<request, asked, commands, results, table, work, current, answer, expired,
                     effects, overtaken, spoiled>>
  BY DEF UpdateKeys, files, history
<1>2. OrderTypes'
  BY <1>1 DEF ReplayInv, OrderTypes, First, InHand
<1>3. (AnswerTells /\ EffectsReported /\ NeverAppliedTwice)'
  BY <1>1 DEF ReplayInv, AnswerTells, EffectsReported, NeverAppliedTwice, InHand
<1>4. QueueInv'
  BY <1>1 DEF ReplayInv, QueueInv, ListedFirst, EffectFirst, EffectStands, Stands
<1> QED
  BY <1>2, <1>3, <1>4, ReplayParts

LEMMA WriteResultReplay ==
    ASSUME KeyInv, ReplayInv, WriteResult
    PROVE  ReplayInv'
<1>1. /\ runner = "result" /\ runner' = "remove" /\ results' = [results EXCEPT ![current] = answer]
      /\ UNCHANGED <<request, asked, commands, table, keys, work, current, answer, expired,
                     effects, overtaken, spoiled>>
  BY DEF WriteResult, history
<1>2. current \in Req /\ current \in commands /\ DOMAIN results = Req /\ Asked \subseteq Req
  BY <1>1, Numbers DEF InHand
<1>3. OrderTypes'
  BY <1>1, <1>2 DEF ReplayInv, OrderTypes, First, InHand
<1>4. AnswerTells'
  BY <1>1, <1>2 DEF ReplayInv, AnswerTells, InHand
<1>5. EffectsReported'
  BY <1>1, <1>2 DEF ReplayInv, EffectsReported, Asked
<1>6. NeverAppliedTwice'
  BY <1>1 DEF ReplayInv, NeverAppliedTwice
<1>7. QueueInv'
  BY <1>1 DEF ReplayInv, QueueInv, ListedFirst, EffectFirst, EffectStands, Stands
<1> QED
  BY <1>3, <1>4, <1>5, <1>6, <1>7, ReplayParts

\* The command leaves the queue with the answer that was written.
LEMMA RemoveReplay ==
    ASSUME KeyInv, ReplayInv, RemoveCommand
    PROVE  ReplayInv'
<1>1. /\ runner = "remove" /\ commands' = commands \ {current} /\ work' = work \ {current}
      /\ runner' = IF work' = {} THEN "idle" ELSE "next"
      /\ UNCHANGED <<request, asked, results, table, keys, expired, effects, overtaken, spoiled>>
  BY DEF RemoveCommand, Advance, history
<1>2. current \in Asked /\ current \in work
  BY <1>1, Numbers DEF InHand
<1>3. OrderTypes'
  BY <1>1 DEF ReplayInv, OrderTypes, InHand
<1>4. AnswerTells'
  BY <1>1 DEF AnswerTells, InHand
<1>5. EffectsReported'
  <2> SUFFICES ASSUME ~overtaken, NEW r \in Asked, effects[r] > 0, r \notin commands',
                      r > expired, r \notin spoiled
               PROVE  results[r] \in Yields(request[r].op)
    BY <1>1 DEF EffectsReported, Asked
  <2>1. CASE r = current
    BY <1>1, <2>1 DEF ReplayInv, AnswerTells, InHand
  <2>2. CASE r # current
    BY <1>1, <2>2 DEF ReplayInv, EffectsReported, Asked
  <2> QED
    BY <2>1, <2>2
<1>6. NeverAppliedTwice'
  BY <1>1 DEF ReplayInv, NeverAppliedTwice
<1>7. QueueInv'
  BY <1>1 DEF ReplayInv, QueueInv, ListedFirst, EffectFirst, EffectStands, Stands
<1> QED
  BY <1>3, <1>4, <1>5, <1>6, <1>7, ReplayParts

\* A command left in the queue is the next to be taken, or was overtaken.
LEMMA CompleteFailsReplay ==
    ASSUME KeyInv, ReplayInv, CompleteFails
    PROVE  ReplayInv'
<1>1. /\ work' = work \ {current} /\ runner' = IF work' = {} THEN "idle" ELSE "next"
      /\ overtaken' = (overtaken \/ work' # {})
      /\ UNCHANGED <<request, asked, commands, results, table, keys, expired, effects, spoiled>>
  BY DEF CompleteFails, Advance, files
<1>2. OrderTypes'
  BY <1>1 DEF ReplayInv, OrderTypes, InHand
<1>3. AnswerTells'
  BY <1>1 DEF AnswerTells, InHand
<1>4. (EffectsReported /\ NeverAppliedTwice)'
  BY <1>1 DEF ReplayInv, EffectsReported, NeverAppliedTwice
<1>5. QueueInv'
  <2> SUFFICES ASSUME ~overtaken' PROVE (ListedFirst /\ EffectFirst /\ EffectStands)'
    BY DEF QueueInv
  <2>1. ~overtaken /\ work' = {}
    BY <1>1
  <2> QED
    BY <1>1, <2>1 DEF ReplayInv, ListedFirst, EffectFirst, EffectStands, Stands
<1> QED
  BY <1>2, <1>3, <1>4, <1>5, ReplayParts

\* What has not expired is not pruned: neither the row nor the result.
LEMMA PruneReplay ==
    ASSUME KeyInv, ReplayInv, NEW gone \in SUBSET Prunable,
           NEW old \in SUBSET {r \in 1 .. expired : results[r] # "none"}, Prune(gone, old)
    PROVE  ReplayInv'
<1>1. /\ runner = "idle"
      /\ table' = [n \in Name |-> IF n \in gone THEN NoRow ELSE table[n]]
      /\ results' = [r \in Req |-> IF r \in old THEN "none" ELSE results[r]]
      /\ UNCHANGED <<request, asked, commands, keys, runner, work, current, answer, expired,
                     effects, overtaken, spoiled>>
  BY DEF Prune, ingestor, history
<1>2. /\ Asked \subseteq Req /\ Req \subseteq Nat /\ expired \in Nat /\ commands \subseteq Asked
      /\ KeyTypes
  BY Numbers DEF KeyInv
<1>3. OrderTypes'
  BY <1>1 DEF ReplayInv, OrderTypes, InHand
<1>4. AnswerTells'
  BY <1>1 DEF AnswerTells, InHand
<1>5. \A r \in Asked : r > expired => results'[r] = results[r]
  BY <1>1, <1>2
<1>6. EffectsReported'
  BY <1>1, <1>5 DEF ReplayInv, EffectsReported, Asked
<1>7. NeverAppliedTwice'
  BY <1>1 DEF ReplayInv, NeverAppliedTwice
<1>8. ASSUME NEW r \in Asked, r > expired, Stands(r, table)
      PROVE  Stands(r, table')
  <2>1. request[r].name \in Name /\ r \in Nat
    BY <1>2, RequestTypes
  <2>2. table[request[r].name].by = r
    BY <1>8 DEF Stands
  <2>3. request[r].name \notin gone
    BY <1>2, <1>8, <2>1, <2>2 DEF Prunable
  <2>4. table'[request[r].name] = table[request[r].name]
    BY <1>1, <2>1, <2>3
  <2> QED
    BY <1>8, <2>4 DEF Stands
<1>9. QueueInv'
  <2> SUFFICES ASSUME ~overtaken PROVE (ListedFirst /\ EffectFirst /\ EffectStands)'
    BY <1>1 DEF QueueInv
  <2>1. (ListedFirst /\ EffectFirst)'
    BY <1>1 DEF ReplayInv, ListedFirst, EffectFirst
  <2>2. \A r \in commands : effects[r] > 0 /\ r > expired => Stands(r, table')
    BY <1>2, <1>8 DEF ReplayInv, EffectStands
  <2>3. EffectStands'
    BY <1>1, <2>2 DEF EffectStands, Stands
  <2> QED
    BY <2>1, <2>3
<1> QED
  BY <1>3, <1>4, <1>6, <1>7, <1>9, ReplayParts

LEMMA CrashReplay ==
    ASSUME KeyInv, ReplayInv, Crash \/ Restart
    PROVE  ReplayInv'
<1>1. /\ runner' \in {"down", "idle"} /\ work' = {}
      /\ UNCHANGED <<request, asked, commands, results, table, expired, effects, overtaken,
                     spoiled>>
  BY DEF Crash, Restart, files, history, ReplayInv, OrderTypes
<1>2. OrderTypes'
  BY <1>1 DEF ReplayInv, OrderTypes, InHand
<1>3. AnswerTells'
  BY <1>1 DEF AnswerTells, InHand
<1>4. (EffectsReported /\ NeverAppliedTwice)'
  BY <1>1 DEF ReplayInv, EffectsReported, NeverAppliedTwice
<1>5. QueueInv'
  BY <1>1 DEF ReplayInv, QueueInv, ListedFirst, EffectFirst, EffectStands, Stands
<1> QED
  BY <1>2, <1>3, <1>4, <1>5, ReplayParts

LEMMA ExpireReplay ==
    ASSUME KeyInv, ReplayInv, Expire \/ UNCHANGED vars
    PROVE  ReplayInv'
<1>1. /\ expired' \in {expired, expired + 1}
      /\ UNCHANGED <<request, asked, commands, results, table, keys, runner, work, current,
                     answer, effects, overtaken, spoiled>>
  BY DEF Expire, vars, files, ingestor, history
<1>2. /\ expired \in Nat /\ commands \subseteq Asked /\ Asked \subseteq Nat
      /\ (runner \in InHand => current \in Asked)
  BY Numbers
<1>3. OrderTypes'
  BY <1>1 DEF ReplayInv, OrderTypes, First
<1>4. AnswerTells'
  <2>1. runner \in InHand /\ current > expired' => current > expired
    <3> SUFFICES ASSUME current \in Nat, current > expired' PROVE current > expired
      BY <1>2
    <3> QED
      BY <1>1, <1>2
  <2> QED
    BY <1>1, <2>1, Zenon DEF ReplayInv, AnswerTells
<1>5. EffectsReported'
  BY <1>1, <1>2 DEF ReplayInv, EffectsReported, Asked
<1>6. NeverAppliedTwice'
  BY <1>1 DEF ReplayInv, NeverAppliedTwice
<1>7. QueueInv'
  BY <1>1, <1>2 DEF ReplayInv, QueueInv, ListedFirst, EffectFirst, EffectStands, Stands
<1> QED
  BY <1>3, <1>4, <1>5, <1>6, <1>7, ReplayParts

LEMMA ReplayStep == KeyInv /\ ReplayInv /\ [Next]_vars => ReplayInv'
<1> SUFFICES ASSUME KeyInv, ReplayInv, [Next]_vars PROVE ReplayInv'
  OBVIOUS
<1>1. ASSUME NEW n \in Name, Suggest(n) PROVE ReplayInv'
  <2>1. [op |-> "submit", name |-> n, id |-> Len(request) + 1] \in [op : Op, name : Name, id : Nat]
    BY Numbers DEF Op
  <2> QED
    BY <1>1, <2>1, AskReplay DEF Suggest
<1>2. ASSUME NEW op \in Op, NEW n \in Name, Decide(op, n) PROVE ReplayInv'
  <2>1. [op |-> op, name |-> n, id |-> table[n].id] \in [op : Op, name : Name, id : Nat]
    BY DEF KeyInv, KeyTypes, Row
  <2> QED
    BY <1>2, <2>1, AskReplay DEF Decide
<1>3. ASSUME NEW r \in Req, Enqueue(r) \/ EnqueueRefused(r) PROVE ReplayInv'
  BY <1>3, EnqueueReplay, RefusedReplay
<1>4. ASSUME NEW r \in Req, Apply(r) \/ ApplyFails(r) PROVE ReplayInv'
  BY <1>4, ApplyReplay, ApplyFailsReplay
<1>5. ASSUME Pending \/ UpdateKeys \/ WriteResult \/ RemoveCommand PROVE ReplayInv'
  BY <1>5, PendingReplay, UpdateKeysReplay, WriteResultReplay, RemoveReplay
<1>6. ASSUME CompleteFails \/ Crash \/ Restart \/ Expire \/ UNCHANGED vars PROVE ReplayInv'
  BY <1>6, CompleteFailsReplay, CrashReplay, ExpireReplay
<1>7. ASSUME NEW gone \in SUBSET Prunable,
             NEW old \in SUBSET {r \in 1 .. expired : results[r] # "none"}, Prune(gone, old)
      PROVE  ReplayInv'
  BY <1>7, PruneReplay
<1> QED
  BY <1>1, <1>2, <1>3, <1>4, <1>5, <1>6, <1>7 DEF Next, Serve, Run

\* The inductive invariant of the replays.
THEOREM ReplayInvariant == Spec => []ReplayInv
<1>1. KeyInv /\ KeyInv' /\ ReplayInv /\ [Next]_vars => ReplayInv'
  BY ReplayStep
<1> QED
  BY <1>1, InitReplay, KeyInvariant, PTL DEF Spec

\* No command takes effect twice, whatever crashes and failing files make the
\* ingestor replay, while no later command was applied in between.
THEOREM NeverAppliedTwiceHolds == Spec => []NeverAppliedTwice
<1>1. ReplayInv => NeverAppliedTwice
  BY DEF ReplayInv
<1> QED
  BY <1>1, ReplayInvariant, PTL

\* A request that took effect is answered with what it did.
THEOREM EffectsReportedHolds == Spec => []EffectsReported
<1>1. ReplayInv => EffectsReported
  BY DEF ReplayInv
<1> QED
  BY <1>1, ReplayInvariant, PTL

------------------------------------------------------------------------------
(* The limits. *)

Fits(s, limit, t) ==
    LET W == {m \in Name : t[m].status = s}
    IN  IsFiniteSet(W) /\ Cardinality(W) <= limit

InBounds(t) == Fits("pending", MaxPending, t) /\ Fits("approved", MaxApproved, t)

\* A table with no more rows of a status fits; one more fits below the limit.
LEMMA FewerFits ==
    ASSUME NEW s, NEW limit \in Nat, NEW t, NEW u, Fits(s, limit, t),
           \A m \in Name : u[m].status = s => t[m].status = s
    PROVE  Fits(s, limit, u)
<1> DEFINE V == {m \in Name : t[m].status = s}
           W == {m \in Name : u[m].status = s}
<1>1. IsFiniteSet(V) /\ Cardinality(V) <= limit /\ W \subseteq V
  BY DEF Fits
<1>2. IsFiniteSet(W) /\ Cardinality(W) <= Cardinality(V) /\ Cardinality(W) \in Nat
      /\ Cardinality(V) \in Nat
  BY <1>1, FS_Subset, FS_CardinalityType
<1> QED
  BY <1>1, <1>2 DEF Fits

LEMMA OneMoreFits ==
    ASSUME NEW s, NEW limit \in Nat, NEW t, NEW u, NEW n \in Name, Fits(s, limit, t),
           Cardinality({m \in Name : t[m].status = s}) < limit,
           \A m \in Name \ {n} : u[m] = t[m]
    PROVE  Fits(s, limit, u)
<1> DEFINE V == {m \in Name : t[m].status = s}
           W == {m \in Name : u[m].status = s}
<1>1. IsFiniteSet(V) /\ Cardinality(V) < limit /\ Cardinality(V) \in Nat
  BY FS_CardinalityType DEF Fits
<1>2. W \subseteq V \union {n}
  OBVIOUS
<1> HIDE DEF V, W
<1>3. IsFiniteSet(V \union {n}) /\ Cardinality(V \union {n}) <= Cardinality(V) + 1
      /\ Cardinality(V \union {n}) \in Nat
  <2>1. IsFiniteSet(V \union {n})
        /\ Cardinality(V \union {n}) = IF n \in V THEN Cardinality(V) ELSE Cardinality(V) + 1
    BY <1>1, FS_AddElement
  <2> QED
    BY <1>1, <2>1
<1>4. IsFiniteSet(W) /\ Cardinality(W) <= Cardinality(V \union {n}) /\ Cardinality(W) \in Nat
  BY <1>2, <1>3, FS_Subset, FS_CardinalityType
<1> QED
  BY <1>1, <1>3, <1>4 DEF Fits, W

\* Changing one row to a status that has room keeps the table in bounds.
LEMMA OutcomeFits ==
    ASSUME KeyTypes, InBounds(table), NEW n \in Name, NEW row, NEW s,
           row.status = "pending" => Cardinality(WithStatus("pending")) < MaxPending,
           row.status = "approved" => Cardinality(WithStatus("approved")) < MaxApproved
    PROVE  InBounds(Outcome(s, n, row).table)
<1> DEFINE u == Outcome(s, n, row).table
<1>1. MaxPending \in Nat /\ MaxApproved \in Nat
  BY ProposalAssumption
<1>2. u[n] = row /\ \A m \in Name \ {n} : u[m] = table[m]
  BY DEF Outcome, KeyTypes
<1> HIDE DEF u
<1>3. Fits("pending", MaxPending, u)
  <2>1. CASE row.status = "pending"
    BY <1>1, <1>2, <2>1, OneMoreFits DEF InBounds, WithStatus
  <2>2. CASE row.status # "pending"
    BY <1>1, <1>2, <2>2, FewerFits DEF InBounds
  <2> QED
    BY <2>1, <2>2
<1>4. Fits("approved", MaxApproved, u)
  <2>1. CASE row.status = "approved"
    BY <1>1, <1>2, <2>1, OneMoreFits DEF InBounds, WithStatus
  <2>2. CASE row.status # "approved"
    BY <1>1, <1>2, <2>2, FewerFits DEF InBounds
  <2> QED
    BY <2>1, <2>2
<1> QED
  BY <1>3, <1>4 DEF InBounds, u

LEMMA Counts ==
    ASSUME InBounds(table)
    PROVE  Cardinality(WithStatus("pending")) \in Nat /\ Cardinality(WithStatus("approved")) \in Nat
BY FS_CardinalityType DEF InBounds, Fits, WithStatus

LEMMA SubmitFits ==
    ASSUME KeyTypes, InBounds(table), NEW r, NEW n \in Name
    PROVE  InBounds(Submit(r, n).table)
<1> DEFINE row == table[n]
           found == row # NoRow
           toPending == ~AutoApprove \/ found
           status == IF toPending THEN "pending" ELSE "approved"
           new == [id |-> IF found THEN row.id ELSE r, status |-> status, by |-> r]
           pending == Cardinality(WithStatus("pending"))
           approved == Cardinality(WithStatus("approved"))
           out == Submit(r, n)
<1>1. pending \in Nat /\ approved \in Nat /\ MaxPending \in Nat /\ MaxApproved \in Nat
  BY Counts, ProposalAssumption
<1>2. \A s : InBounds(Unchanged(s).table)
  BY DEF Unchanged
<1>3. CASE found /\ row.status # "revoked"
  <2>1. out = Unchanged(row.status)
    BY <1>3 DEF Submit
  <2> QED
    BY <1>2, <2>1
<1>4. CASE ~(found /\ row.status # "revoked") /\ toPending
  <2>1. out = Unchanged("error") \/ (~(pending >= MaxPending) /\ out = Outcome("pending", n, new))
    BY <1>4 DEF Submit
  <2>2. new.status = "pending"
    BY <1>4
  <2> HIDE DEF new
  <2>3. ~(pending >= MaxPending) => InBounds(Outcome("pending", n, new).table)
    BY <1>1, <2>2, OutcomeFits
  <2> QED
    BY <1>2, <2>1, <2>3
<1>5. CASE ~(found /\ row.status # "revoked") /\ ~toPending
  <2>1. out = Unchanged("error") \/ (~(approved >= MaxApproved) /\ out = Outcome("approved", n, new))
    BY <1>5 DEF Submit
  <2>2. new.status = "approved"
    BY <1>5
  <2> HIDE DEF new
  <2>3. ~(approved >= MaxApproved) => InBounds(Outcome("approved", n, new).table)
    BY <1>1, <2>2, OutcomeFits
  <2> QED
    BY <1>2, <2>1, <2>3
<1> QED
  BY <1>3, <1>4, <1>5

LEMMA ReviewFits ==
    ASSUME KeyTypes, InBounds(table), NEW r, NEW i, NEW source, NEW target \in Status,
           source # target, target # "pending"
    PROVE  InBounds(Review(r, i, source, target).table)
<1> DEFINE n == CHOOSE m \in RowsWithId(i) : TRUE
           row == table[n]
           new == [row EXCEPT !.status = target, !.by = r]
           approved == Cardinality(WithStatus("approved"))
           out == Review(r, i, source, target)
<1>1. approved \in Nat /\ MaxApproved \in Nat
  BY Counts, ProposalAssumption
<1>2. \A s : InBounds(Unchanged(s).table)
  BY DEF Unchanged
<1>3. CASE RowsWithId(i) = {}
  BY <1>2, <1>3 DEF Review
<1>4. CASE RowsWithId(i) # {}
  <2>1. n \in Name /\ row \in Row
    BY <1>4 DEF RowsWithId, KeyTypes
  <2>2. \/ out = Unchanged(target) \/ out = Unchanged("error")
        \/ (target = "approved" => ~(approved >= MaxApproved)) /\ out = Outcome(target, n, new)
    BY <1>4 DEF Review
  <2>3. new.status = target
    BY <2>1 DEF Row
  <2> HIDE DEF new, n
  <2>4. (target = "approved" => ~(approved >= MaxApproved)) => InBounds(Outcome(target, n, new).table)
    BY <1>1, <2>1, <2>3, OutcomeFits
  <2> QED
    BY <1>2, <2>2, <2>4
<1> QED
  BY <1>3, <1>4

LEMMA AppliedFits ==
    ASSUME KeyTypes, InBounds(table), NEW r \in Asked
    PROVE  InBounds(Applied(r).table)
<1>1. request[r].op \in Op /\ request[r].name \in Name
  BY RequestTypes
<1>2. Applied(r) = Unchanged("error") => InBounds(Applied(r).table)
  BY DEF Unchanged
<1>3. CASE r <= expired
  BY <1>2, <1>3 DEF Applied
<1>4. CASE ~(r <= expired) /\ request[r].op = "submit"
  BY <1>1, <1>4, SubmitFits DEF Applied
<1>5. CASE ~(r <= expired) /\ request[r].op # "submit"
  BY <1>1, <1>5, ReviewFits DEF Applied, Op, Status
<1> QED
  BY <1>3, <1>4, <1>5

LEMMA BoundsStep == KeyInv /\ InBounds(table) /\ [Next]_vars => InBounds(table')
<1> SUFFICES ASSUME KeyInv, InBounds(table), [Next]_vars PROVE InBounds(table')
  OBVIOUS
<1>1. ASSUME NEW r \in Req, Apply(r) PROVE InBounds(table')
  <2>1. r \in Asked /\ table' = Applied(r).table
    BY <1>1 DEF Apply, First, KeyInv, KeyTypes
  <2> QED
    BY <2>1, AppliedFits DEF KeyInv
<1>2. ASSUME NEW gone, NEW old, Prune(gone, old) PROVE InBounds(table')
  <2>1. \A n \in Name : table'[n] = table[n] \/ table'[n].status = "none"
    BY <1>2 DEF Prune, NoRow
  <2>2. MaxPending \in Nat /\ MaxApproved \in Nat
    BY ProposalAssumption
  <2> QED
    BY <2>1, <2>2, FewerFits DEF InBounds
<1>3. CASE UNCHANGED table
  BY <1>3
<1> QED
  BY <1>1, <1>2, <1>3
     DEF Next, Serve, Run, Suggest, Decide, Ask, Enqueue, EnqueueRefused, Pending, ApplyFails,
         UpdateKeys, WriteResult, RemoveCommand, CompleteFails, Crash, Restart, Expire, vars

\* The limits hold over every mix of submissions, approvals, replays and faults,
\* for any number of names.
THEOREM TableBoundedHolds == Spec => []TableBounded
<1>1. Init => InBounds(table)
  <2> SUFFICES ASSUME Init PROVE InBounds(table)
    OBVIOUS
  <2>1. \A s \in {"pending", "approved"} : {m \in Name : table[m].status = s} = {}
    BY DEF Init, NoRow
  <2>2. MaxPending \in Nat /\ MaxApproved \in Nat
    BY ProposalAssumption
  <2> QED
    BY <2>1, <2>2, FS_EmptySet DEF InBounds, Fits
<1>2. KeyInv /\ InBounds(table) /\ [Next]_vars => InBounds(table)'
  BY BoundsStep DEF InBounds, Fits
<1>3. InBounds(table) => TableBounded
  BY DEF InBounds, Fits, TableBounded, WithStatus
<1> QED
  BY <1>1, <1>2, <1>3, KeyInvariant, PTL DEF Spec
=============================================================================
