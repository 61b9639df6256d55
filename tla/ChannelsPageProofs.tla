--------------------------- MODULE ChannelsPageProofs ---------------------------
(***************************************************************************)
(* For any channels, keys, regions, messages and user events: the pane     *)
(* holds the open conversation only, keeps what came live, is not left     *)
(* loading with nothing on its way, and the list is the newest answer.     *)
(***************************************************************************)
EXTENDS ChannelsPage, TLAPS

Filter == Region \cup {All}
Message == [name : Name, region : Region, enc : BOOLEAN]
Stage == {"hash", "lookup", "fetch", "decrypt", "refresh"}
Request == [id : Nat \ {0}, hash : Row, region : Filter, stage : Stage, from : Nat]
Load == [id : Nat, region : Filter, had : SUBSET Psk, then : {"none", "region", "link"},
         route : Row \cup {NoRow}]
Callback == [do : {"region"}, row : Row \cup {NoRow}] \cup [do : {"link"}, row : Row]

\* The types of what the pane's argument reads.
PaneTyped ==
    /\ log \in Seq(Message) /\ region \in Filter
    /\ selected \in Row \cup {NoRow}
    /\ messages \subseteq [id : DOMAIN log, ws : BOOLEAN]
    /\ reqId \in Nat /\ reqs \subseteq Request /\ pending \in Nat
    /\ batches \subseteq [id : DOMAIN log, filter : Filter]
    /\ seen \subseteq DOMAIN log

\* The types of what the list's argument reads; a deep link names a row.
ListTyped ==
    /\ approved \subseteq Psk /\ rows \subseteq Row
    /\ listId \in Nat /\ loads \subseteq Load
    /\ waiting \in Seq(Callback) /\ micro \in Seq(Callback)
    /\ \A l \in loads : l.then = "link" => l.route \in Row

\* Requests are numbered in order, and only the last can be current.
Numbered ==
    /\ \A q \in reqs : q.id <= reqId /\ q.from <= Len(log)
    /\ \A p, q \in reqs : p.id = q.id => p = q

\* What the newest list request and the callbacks behind it stand for.
ListOwned ==
    /\ \A l \in loads : l.id <= listId /\ (l.id = listId => l.region = region)
    /\ waiting # <<>> => \E l \in loads : Newest(l)

\* A conversation that is loading is the pending one, unless a refresh took over.
LoadOwned ==
    /\ selected = NoRow => pane # "loading"
    /\ \A q \in reqs : q.id = reqId =>
         IF q.stage = "refresh" THEN pane = "loading" => overtaken ELSE pending = reqId

\* A live message the server can read was shown in the server's row.
SeenInRow == \A i \in seen : ~log[i].enc => selected = Srv(log[i].name)

\* A live message is in the pane as such, or as part of an answer that no
\* request on its way can take back.
LiveSafe ==
    \A i \in seen : InRegion(region, log[i].region) =>
        \/ emptied \/ (log[i].enc /\ refreshed)
        \/ [id |-> i, ws |-> TRUE] \in messages
        \/ /\ [id |-> i, ws |-> FALSE] \in messages
           /\ \A q \in reqs : q.id = reqId => q.stage \in {"decrypt", "refresh"} /\ i <= q.from

PageInv == /\ PaneTyped /\ ListTyped /\ Numbered /\ ListOwned /\ LoadOwned /\ SeenInRow /\ LiveSafe
           /\ OnlySelected /\ ListIsNewest /\ PaneSettlesUnlessOvertaken

------------------------------------------------------------------------------
LEMMA InitPage == PageInit => PageInv
  <1> SUFFICES ASSUME PageInit PROVE PageInv
    OBVIOUS
  <1> USE DEF PageInit
  <1>1. PaneTyped BY DEF PaneTyped, Filter
  <1>2. ListTyped BY DEF ListTyped, Row, Name
  <1>3. Numbered BY DEF Numbered
  <1>4. ListOwned BY DEF ListOwned
  <1>5. LoadOwned BY DEF LoadOwned
  <1>6. SeenInRow /\ LiveSafe BY DEF SeenInRow, LiveSafe
  <1>7. OnlySelected BY DEF OnlySelected
  <1>8. ListIsNewest BY DEF ListIsNewest
  <1>9. PaneSettlesUnlessOvertaken BY DEF PaneSettlesUnlessOvertaken, PaneSettles
  <1>10. QED BY <1>1, <1>2, <1>3, <1>4, <1>5, <1>6, <1>7, <1>8, <1>9 DEF PageInv

\* What leaves the list and its requests alone keeps what is said of them.
LEMMA ListQuiet ==
    ASSUME PageInv, UNCHANGED <<listVars, region, micro, approved>>
    PROVE  (ListTyped /\ ListOwned /\ ListIsNewest)'
  <1> USE DEF PageInv, listVars
  <1>1. ListTyped' BY DEF ListTyped
  <1>2. ListOwned' BY DEF ListOwned, Newest
  <1>3. ListIsNewest' BY DEF ListIsNewest
  <1>4. QED BY <1>1, <1>2, <1>3

\* The same for the pane.
LEMMA PaneQuiet ==
    ASSUME PageInv, UNCHANGED <<paneVars, log, batches, region>>
    PROVE  (PaneTyped /\ Numbered /\ LoadOwned /\ SeenInRow /\ LiveSafe /\ OnlySelected)'
  <1> USE DEF PageInv, paneVars
  <1>1. PaneTyped' BY DEF PaneTyped
  <1>2. Numbered' BY DEF Numbered
  <1>3. LoadOwned' BY DEF LoadOwned
  <1>4. SeenInRow' BY DEF SeenInRow
  <1>5. LiveSafe' BY DEF LiveSafe
  <1>6. OnlySelected' BY DEF OnlySelected
  <1>7. QED BY <1>1, <1>2, <1>3, <1>4, <1>5, <1>6

\* A pane that was settled stays so while nothing behind it goes away.
LEMMA SettlesQuiet ==
    ASSUME PageInv, UNCHANGED <<selected, pane, reqId, region, listVars, micro, overtaken>>,
           \A q \in reqs : ~IsStale(q) => q \in reqs'
    PROVE  PaneSettlesUnlessOvertaken'
  BY DEF PageInv, PaneSettlesUnlessOvertaken, PaneSettles, IsStale, Newest, listVars

LEMMA CurrentSettles ==
    ASSUME \E q \in reqs' : q.id = reqId' /\ q.hash = selected' /\ q.region = region'
    PROVE  PaneSettlesUnlessOvertaken'
  BY DEF PaneSettlesUnlessOvertaken, PaneSettles, IsStale
------------------------------------------------------------------------------
(* The log only grows. *)

LEMMA SendPage == ASSUME NEW n \in Name, NEW r \in Region, PageInv, Send(n, r) PROVE PageInv'
  <1> DEFINE e == [name |-> n, region |-> r, enc |-> n \in Psk \ approved]
  <1>0. /\ log' = Append(log, e) /\ log \in Seq(Message) /\ e \in Message
        /\ UNCHANGED <<approved, batches, heard, paneVars, listVars, region, micro, events>>
    BY DEF Send, PageInv, PaneTyped, Message
  <1> HIDE DEF e
  <1>1. /\ log' \in Seq(Message) /\ Len(log') = Len(log) + 1 /\ Len(log) \in Nat
        /\ DOMAIN log = 1..Len(log) /\ DOMAIN log' = 1..Len(log')
        /\ \A i \in DOMAIN log : i \in DOMAIN log' /\ log'[i] = log[i]
    BY <1>0
  <1>2. PaneTyped' BY <1>0, <1>1 DEF PageInv, PaneTyped, paneVars
  <1>3. (ListTyped /\ ListOwned /\ ListIsNewest)' BY <1>0, ListQuiet
  <1>4. Numbered' BY <1>0, <1>1 DEF PageInv, PaneTyped, Numbered, paneVars, Request
  <1>5. LoadOwned' BY <1>0 DEF PageInv, LoadOwned, paneVars
  <1>6. SeenInRow' BY <1>0, <1>1 DEF PageInv, PaneTyped, SeenInRow, paneVars
  <1>7. LiveSafe' BY <1>0, <1>1 DEF PageInv, PaneTyped, LiveSafe, paneVars
  <1>8. OnlySelected' BY <1>0, <1>1 DEF PageInv, PaneTyped, OnlySelected, paneVars
  <1>9. PaneSettlesUnlessOvertaken' BY <1>0, SettlesQuiet DEF paneVars
  <1>10. QED BY <1>2, <1>3, <1>4, <1>5, <1>6, <1>7, <1>8, <1>9 DEF PageInv

LEMMA ApprovePage == ASSUME NEW n \in Psk, PageInv, Approve(n) PROVE PageInv'
  <1>0. /\ approved' = approved \cup {n}
        /\ UNCHANGED <<log, batches, paneVars, listVars, region, micro>>
    BY DEF Approve
  <1>1. (PaneTyped /\ Numbered /\ LoadOwned /\ SeenInRow /\ LiveSafe /\ OnlySelected)'
    BY <1>0, PaneQuiet
  <1>2. ListTyped' BY <1>0 DEF PageInv, ListTyped, listVars
  <1>3. ListOwned' BY <1>0 DEF PageInv, ListOwned, Newest, listVars
  <1>4. ListIsNewest' BY <1>0 DEF PageInv, ListIsNewest, listVars
  <1>5. PaneSettlesUnlessOvertaken' BY <1>0, SettlesQuiet DEF paneVars
  <1>6. QED BY <1>1, <1>2, <1>3, <1>4, <1>5 DEF PageInv

------------------------------------------------------------------------------
(* Opening and refreshing a conversation. *)

\* A new conversation starts from nothing, and its request is the current one.
LEMMA SelectPane ==
    ASSUME PageInv, NEW h \in Row, Select(h), UNCHANGED <<log, batches, region>>
    PROVE  /\ (PaneTyped /\ Numbered /\ LoadOwned /\ SeenInRow /\ LiveSafe /\ OnlySelected)'
           /\ PaneSettlesUnlessOvertaken'
  <1> DEFINE stage == IF HasKey(h) THEN "hash" ELSE IF h.name \in Tagged THEN "lookup" ELSE "fetch"
             new == [id |-> reqId + 1, hash |-> h, region |-> region, stage |-> stage, from |-> 0]
  <1>0. /\ reqId' = reqId + 1 /\ pending' = reqId + 1 /\ messages' = {} /\ selected' = h
        /\ reqs' = reqs \cup {new} /\ seen' = {}
    BY DEF Select, OpenedWith
  <1>1. /\ reqId \in Nat /\ reqs \subseteq Request /\ region \in Filter /\ Len(log) \in Nat
        /\ \A q \in reqs : q.id <= reqId /\ q.from <= Len(log)
    BY DEF PageInv, PaneTyped, Numbered
  <1>2. new \in Request /\ new.id = reqId + 1 /\ new.stage # "refresh" /\ new.from = 0
    BY <1>1 DEF Request, Stage
  <1> HIDE DEF new
  <1>3. PaneTyped' BY <1>0, <1>1, <1>2 DEF PageInv, PaneTyped
  <1>4. \A q \in reqs : q.id # reqId + 1 BY <1>1 DEF Request
  <1>5. Numbered' BY <1>0, <1>1, <1>2, <1>4 DEF PageInv, Numbered, Request
  <1>6. LoadOwned' BY <1>0, <1>1, <1>2, <1>4 DEF LoadOwned, Row, NoRow, Srv, User
  <1>7. SeenInRow' /\ LiveSafe' /\ OnlySelected'
    BY <1>0 DEF SeenInRow, LiveSafe, OnlySelected
  <1>8. PaneSettlesUnlessOvertaken'
    <2>1. new \in reqs' /\ new.id = reqId' /\ new.hash = selected' /\ new.region = region'
      BY <1>0 DEF new
    <2>2. QED BY <2>1, CurrentSettles
  <1>9. QED BY <1>3, <1>5, <1>6, <1>7, <1>8

\* A refresh's answer will hold all that was sent before it was asked.
LEMMA RefreshPane ==
    ASSUME PageInv, selected \in Row, Refresh, UNCHANGED <<log, batches, region>>
    PROVE  /\ (PaneTyped /\ Numbered /\ LoadOwned /\ SeenInRow /\ LiveSafe /\ OnlySelected)'
           /\ PaneSettlesUnlessOvertaken'
  <1> DEFINE new == [id |-> reqId + 1, hash |-> selected, region |-> region,
                     stage |-> "refresh", from |-> Len(log)]
  <1>0. /\ reqId' = reqId + 1 /\ reqs' = reqs \cup {new}
        /\ overtaken' = (overtaken \/ pane = "loading")
        /\ UNCHANGED <<selected, messages, pane, pending, seen, emptied, refreshed>>
    BY DEF Refresh
  <1>1. /\ reqId \in Nat /\ reqs \subseteq Request /\ region \in Filter /\ Len(log) \in Nat
        /\ DOMAIN log = 1..Len(log)
        /\ \A q \in reqs : q.id <= reqId /\ q.from <= Len(log)
    BY DEF PageInv, PaneTyped, Numbered
  <1>2. new \in Request /\ new.id = reqId + 1 /\ new.stage = "refresh" /\ new.from = Len(log)
    BY <1>1 DEF Request, Stage
  <1>3. PaneSettlesUnlessOvertaken'
    <2>1. new \in reqs' /\ new.id = reqId' /\ new.hash = selected' /\ new.region = region'
      BY <1>0
    <2>2. QED BY <2>1, CurrentSettles
  <1> HIDE DEF new
  <1>4. PaneTyped' BY <1>0, <1>1, <1>2 DEF PageInv, PaneTyped
  <1>5. \A q \in reqs : q.id # reqId + 1 BY <1>1 DEF Request
  <1>6. Numbered' BY <1>0, <1>1, <1>2, <1>5 DEF PageInv, Numbered, Request
  <1>7. LoadOwned' BY <1>0, <1>1, <1>2, <1>5 DEF PageInv, LoadOwned
  <1>8. SeenInRow' /\ OnlySelected' BY <1>0 DEF PageInv, SeenInRow, OnlySelected
  <1>9. LiveSafe'
    BY <1>0, <1>1, <1>2, <1>5 DEF PageInv, PaneTyped, LiveSafe
  <1>10. QED BY <1>3, <1>4, <1>6, <1>7, <1>8, <1>9

LEMMA ClickPage == ASSUME NEW h \in Row, PageInv, Click(h) PROVE PageInv'
  <1>0. Select(h) /\ UNCHANGED <<netVars, listVars, region, micro>> BY DEF Click
  <1>1. UNCHANGED <<log, batches, region>> BY <1>0 DEF netVars
  <1>2. UNCHANGED <<listVars, region, micro, approved>> BY <1>0 DEF netVars
  <1>3. QED BY <1>0, <1>1, <1>2, SelectPane, ListQuiet DEF PageInv
------------------------------------------------------------------------------
(* The end of a request. *)

\* A request that ends takes only itself away.
LEMMA FinishedPane ==
    ASSUME PageInv, NEW q \in reqs, Finished(q), UNCHANGED <<reqId, log>>
    PROVE  /\ Numbered' /\ reqs' \subseteq Request /\ pending' \in Nat
           /\ \A p \in reqs' : p \in reqs /\ p.id # q.id
           /\ \A p \in reqs' : p.id = reqId /\ p.stage # "refresh" => pending' = reqId
  <1> USE DEF Finished, PageInv, PaneTyped
  <1>1. /\ reqs' = reqs \ {q} /\ reqs \subseteq Request /\ q \in Request
        /\ \A p \in reqs' : p \in reqs /\ p.id # q.id
    BY DEF Numbered
  <1>2. Numbered' BY <1>1 DEF Numbered
  <1>3. pending' \in Nat OBVIOUS
  <1>4. \A p \in reqs' : p.id = reqId /\ p.stage # "refresh" => pending' = reqId
    BY <1>1 DEF LoadOwned
  <1>5. QED BY <1>1, <1>2, <1>3, <1>4

\* One that ends without touching the pane's messages.
LEMMA QuietEnd ==
    ASSUME PageInv, NEW q \in reqs, Finished(q),
           UNCHANGED <<log, batches, region, selected, messages, reqId, seen, emptied,
                       refreshed, overtaken>>,
           pane' = pane \/ (pane' # "loading" /\ selected # NoRow)
    PROVE  (PaneTyped /\ Numbered /\ LoadOwned /\ SeenInRow /\ LiveSafe /\ OnlySelected)'
  <1>1. /\ Numbered' /\ reqs' \subseteq Request /\ pending' \in Nat
        /\ \A p \in reqs' : p \in reqs
        /\ \A p \in reqs' : p.id = reqId /\ p.stage # "refresh" => pending' = reqId
    BY FinishedPane
  <1>2. PaneTyped' BY <1>1 DEF PageInv, PaneTyped
  <1>3. LoadOwned' BY <1>1 DEF PageInv, LoadOwned
  <1>4. SeenInRow' /\ OnlySelected' BY DEF PageInv, SeenInRow, OnlySelected
  <1>5. LiveSafe' BY <1>1 DEF PageInv, LiveSafe
  <1>6. QED BY <1>1, <1>2, <1>3, <1>4, <1>5

LEMMA SupersededPage == ASSUME NEW q \in reqs, PageInv, Superseded(q) PROVE PageInv'
  <1>0. /\ IsStale(q) /\ Finished(q)
        /\ UNCHANGED <<selected, messages, pane, reqId, seen, emptied, refreshed, overtaken,
                       netVars, listVars, region, micro, events>>
    BY DEF Superseded
  <1>1. UNCHANGED <<log, batches, approved>> BY <1>0 DEF netVars
  <1>2. (PaneTyped /\ Numbered /\ LoadOwned /\ SeenInRow /\ LiveSafe /\ OnlySelected)'
    BY <1>0, <1>1, QuietEnd
  <1>3. PaneSettlesUnlessOvertaken' BY <1>0, SettlesQuiet DEF Finished
  <1>4. QED BY <1>0, <1>1, <1>2, <1>3, ListQuiet DEF PageInv

\* The current request is for the open conversation.
LEMMA CurrentRow ==
    ASSUME PageInv, NEW q \in reqs, ~IsStale(q)
    PROVE  /\ q.id = reqId /\ q.hash = selected /\ q.region = region /\ selected \in Row
           /\ selected # NoRow
           /\ \A p \in reqs : p.id = reqId => p = q
  <1>1. q \in Request BY DEF PageInv, PaneTyped
  <1>2. NoRow \notin Row BY DEF NoRow, Row, Srv, User
  <1>3. QED BY <1>1, <1>2 DEF IsStale, Request, PageInv, Numbered

LEMMA MessagesFailPage == ASSUME NEW q \in reqs, PageInv, MessagesFail(q) PROVE PageInv'
  <1>0. /\ ~IsStale(q) /\ Finished(q) /\ pane' = "note"
        /\ UNCHANGED <<selected, messages, reqId, seen, emptied, refreshed, overtaken,
                       netVars, listVars, region, micro, events>>
    BY DEF MessagesFail
  <1>1. UNCHANGED <<log, batches, approved>> BY <1>0 DEF netVars
  <1>2. (PaneTyped /\ Numbered /\ LoadOwned /\ SeenInRow /\ LiveSafe /\ OnlySelected)'
    BY <1>0, <1>1, QuietEnd, CurrentRow
  <1>3. PaneSettlesUnlessOvertaken'
    BY <1>0 DEF PaneSettlesUnlessOvertaken, PaneSettles
  <1>4. QED BY <1>0, <1>1, <1>2, <1>3, ListQuiet DEF PageInv

\* A refresh may end on a pane that still says "Loading" only if it took over.
LEMMA RefreshEnds ==
    ASSUME PageInv, NEW q \in reqs, ~IsStale(q), q.stage = "refresh",
           pane' = pane \/ pane' # "loading", UNCHANGED overtaken
    PROVE  PaneSettlesUnlessOvertaken'
  BY CurrentRow DEF PageInv, LoadOwned, PaneSettlesUnlessOvertaken, PaneSettles

LEMMA RefreshFailsPage == ASSUME NEW q \in reqs, PageInv, RefreshFails(q) PROVE PageInv'
  <1>0. /\ q.stage = "refresh" /\ ~IsStale(q) /\ Finished(q)
        /\ UNCHANGED <<selected, messages, pane, reqId, seen, emptied, refreshed, overtaken,
                       netVars, listVars, region, micro, events>>
    BY DEF RefreshFails
  <1>1. UNCHANGED <<log, batches, approved>> BY <1>0 DEF netVars
  <1>2. (PaneTyped /\ Numbered /\ LoadOwned /\ SeenInRow /\ LiveSafe /\ OnlySelected)'
    BY <1>0, <1>1, QuietEnd
  <1>3. PaneSettlesUnlessOvertaken' BY <1>0, RefreshEnds
  <1>4. QED BY <1>0, <1>1, <1>2, <1>3, ListQuiet DEF PageInv
------------------------------------------------------------------------------
(* The stages of a request that goes on. *)

\* What EXCEPT leaves of a request.
LEMMA StageRecord ==
    ASSUME NEW q \in Request, NEW s \in Stage
    PROVE  /\ [q EXCEPT !.stage = s] \in Request
           /\ [q EXCEPT !.stage = s].id = q.id /\ [q EXCEPT !.stage = s].hash = q.hash
           /\ [q EXCEPT !.stage = s].region = q.region /\ [q EXCEPT !.stage = s].stage = s
           /\ [q EXCEPT !.stage = s].from = q.from
  BY DEF Request

\* A request that enters its next stage keeps its number, row and region.
LEMMA StagePane ==
    ASSUME PageInv, NEW q \in reqs, ~IsStale(q), q.stage # "refresh",
           NEW new \in Request, new.id = q.id, new.hash = q.hash, new.region = q.region,
           new.stage # "refresh", new.from <= Len(log),
           reqs' = (reqs \ {q}) \cup {new},
           UNCHANGED <<log, batches, region, selected, reqId, pending>>
    PROVE  /\ Numbered' /\ reqs' \subseteq Request /\ PaneSettlesUnlessOvertaken'
           /\ \A p \in reqs' : p.id = reqId => p = new
           /\ pending = reqId
  <1>1. /\ reqs \subseteq Request /\ Len(log) \in Nat
        /\ \A p \in reqs : p.id <= reqId /\ p.from <= Len(log)
        /\ \A p, r \in reqs : p.id = r.id => p = r
    BY DEF PageInv, PaneTyped, Numbered
  <1>2. q.id = reqId /\ q.hash = selected /\ q.region = region BY DEF IsStale
  <1>3. Numbered'
    <2>1. \A p \in reqs' : p.id <= reqId /\ p.from <= Len(log) BY <1>1
    <2>2. \A p, r \in reqs' : p.id = r.id => p = r BY <1>1
    <2>3. QED BY <2>1, <2>2 DEF Numbered
  <1>4. \A p \in reqs' : p.id = reqId => p = new BY <1>1, <1>2
  <1>5. new \in reqs' /\ new.id = reqId' /\ new.hash = selected' /\ new.region = region'
    BY <1>2
  <1>6. PaneSettlesUnlessOvertaken' BY <1>5, CurrentSettles
  <1>7. pending = reqId BY <1>2 DEF PageInv, LoadOwned
  <1>8. QED BY <1>1, <1>3, <1>4, <1>6, <1>7

LEMMA LookupPage == ASSUME NEW q \in reqs, PageInv, LookupDone(q) PROVE PageInv'
  <1> DEFINE new == [q EXCEPT !.stage = "fetch"]
  <1>0. /\ q.stage = "lookup" /\ ~IsStale(q)
        /\ reqs' = (reqs \ {q}) \cup {new}
        /\ UNCHANGED <<selected, messages, reqId, pending, seen, emptied, refreshed, overtaken,
                       netVars, listVars, region, micro, events>>
    BY DEF LookupDone
  <1>1. UNCHANGED <<log, batches, approved>> BY <1>0 DEF netVars
  <1>2. q \in Request /\ q.from <= Len(log) BY DEF PageInv, PaneTyped, Numbered
  <1>3. /\ new \in Request /\ new.id = q.id /\ new.hash = q.hash /\ new.region = q.region
        /\ new.stage = "fetch" /\ new.from <= Len(log)
    BY <1>2, StageRecord DEF Stage
  <1> HIDE DEF new
  <1>4. /\ Numbered' /\ reqs' \subseteq Request /\ PaneSettlesUnlessOvertaken' /\ pending = reqId
        /\ \A p \in reqs' : p.id = reqId => p = new
    BY <1>0, <1>1, <1>3, StagePane
  <1>5. PaneTyped' BY <1>0, <1>1, <1>4 DEF PageInv, PaneTyped
  <1>6. LoadOwned' BY <1>0, <1>3, <1>4, CurrentRow DEF LoadOwned
  <1>7. SeenInRow' /\ OnlySelected' BY <1>0, <1>1 DEF PageInv, SeenInRow, OnlySelected
  <1>8. LiveSafe' BY <1>0, <1>1, CurrentRow DEF PageInv, LiveSafe
  <1>9. QED BY <1>0, <1>1, <1>4, <1>5, <1>6, <1>7, <1>8, ListQuiet DEF PageInv

------------------------------------------------------------------------------
(* The answers. *)

\* What mergeWsAppendedIntoRest holds: the answer, and what it lacks that came live.
LEMMA MergeHolds ==
    ASSUME NEW D, NEW ms \in SUBSET [id : D, ws : BOOLEAN], NEW rest \in SUBSET D
    PROVE  /\ Merge(ms, rest) \subseteq [id : D, ws : BOOLEAN]
           /\ \A m \in Merge(ms, rest) : m.id \in rest \/ m \in ms
           /\ \A i \in rest : [id |-> i, ws |-> FALSE] \in Merge(ms, rest)
           /\ \A i \in D \ rest : [id |-> i, ws |-> TRUE] \in ms
                                    => [id |-> i, ws |-> TRUE] \in Merge(ms, rest)
  BY DEF Merge

\* An answer for the open conversation holds its messages and no others.
LEMMA AnswerHolds ==
    ASSUME PageInv, NEW h, NEW r, NEW k \in 0..Len(log)
    PROVE  /\ Rest(h, r, k) \subseteq DOMAIN log /\ Decrypted(h, r, k) \subseteq DOMAIN log
           /\ \A i \in Rest(h, r, k) : log[i].name = h.name
           /\ \A i \in Decrypted(h, r, k) : log[i].name = h.name
           /\ \A i \in DOMAIN log : i <= k /\ InRegion(r, log[i].region) =>
                /\ h = Srv(log[i].name) /\ ~log[i].enc => i \in Rest(h, r, k)
                /\ h.name = log[i].name => i \in Decrypted(h, r, k)
  <1>1. Len(log) \in Nat /\ DOMAIN log = 1..Len(log) BY DEF PageInv, PaneTyped
  <1>2. Rest(h, r, k) \subseteq DOMAIN log /\ Decrypted(h, r, k) \subseteq DOMAIN log
    BY <1>1 DEF Rest, Decrypted
  <1>3. \A i \in Rest(h, r, k) : log[i].name = h.name
    BY DEF Rest, Srv
  <1>4. \A i \in Decrypted(h, r, k) : log[i].name = h.name
    BY DEF Decrypted
  <1>5. \A i \in DOMAIN log : i <= k => i \in 1..k
    BY <1>1
  <1>6. QED BY <1>2, <1>3, <1>4, <1>5 DEF Rest, Decrypted

\* Merging an answer into the pane, for the current request q: what came live
\* is kept, or is in the answer, and the request is gone or cannot be older.
LEMMA MergeSafe ==
    ASSUME PageInv, NEW q \in reqs, ~IsStale(q), NEW got \in SUBSET DOMAIN log,
           \A i \in got : log[i].name = q.hash.name,
           messages' = Merge(messages, got),
           UNCHANGED <<log, region, selected, reqId, seen, emptied>>, refreshed => refreshed',
           \A p \in reqs' : p.id = reqId =>
               p.stage \in {"decrypt", "refresh"} /\ \A i \in got : i <= p.from,
           \A i \in seen : /\ InRegion(region, log[i].region)
                           /\ [id |-> i, ws |-> FALSE] \in messages
                           /\ ~emptied /\ ~(log[i].enc /\ refreshed')
                           /\ q.stage \in {"decrypt", "refresh"} /\ i <= q.from
                           => i \in got
    PROVE  messages' \subseteq [id : DOMAIN log, ws : BOOLEAN] /\ (OnlySelected /\ SeenInRow /\ LiveSafe)'
  <1>1. /\ messages \in SUBSET [id : DOMAIN log, ws : BOOLEAN] /\ seen \subseteq DOMAIN log
        /\ q.id = reqId /\ q.hash = selected
    BY CurrentRow DEF PageInv, PaneTyped
  <1>2. /\ messages' \subseteq [id : DOMAIN log, ws : BOOLEAN]
        /\ \A m \in messages' : m.id \in got \/ m \in messages
        /\ \A i \in got : [id |-> i, ws |-> FALSE] \in messages'
        /\ \A i \in DOMAIN log \ got : [id |-> i, ws |-> TRUE] \in messages
                                         => [id |-> i, ws |-> TRUE] \in messages'
    BY <1>1, MergeHolds
  <1>3. OnlySelected' BY <1>1, <1>2 DEF PageInv, OnlySelected
  <1>4. SeenInRow' BY DEF PageInv, SeenInRow
  <1>5. LiveSafe'
    <2> SUFFICES ASSUME NEW i \in seen, InRegion(region, log[i].region),
                        ~emptied, ~(log[i].enc /\ refreshed')
                 PROVE  \/ [id |-> i, ws |-> TRUE] \in messages'
                        \/ /\ [id |-> i, ws |-> FALSE] \in messages'
                           /\ \A p \in reqs' : p.id = reqId =>
                                 p.stage \in {"decrypt", "refresh"} /\ i <= p.from
      BY DEF LiveSafe, InRegion
    <2>1. CASE i \in got BY <2>1, <1>2
    <2>2. CASE i \notin got
      <3>1. \/ [id |-> i, ws |-> TRUE] \in messages
            \/ /\ [id |-> i, ws |-> FALSE] \in messages
               /\ q.stage \in {"decrypt", "refresh"} /\ i <= q.from
        BY <1>1 DEF PageInv, LiveSafe
      <3>2. [id |-> i, ws |-> TRUE] \in messages BY <3>1, <2>2
      <3>3. QED BY <3>2, <2>2, <1>1, <1>2
    <2>3. QED BY <2>1, <2>2
  <1>6. QED BY <1>2, <1>3, <1>4, <1>5

LEMMA StartDecryptPage == ASSUME NEW q \in reqs, PageInv, StartDecrypt(q) PROVE PageInv'
  <1>0. /\ q.stage = "hash" /\ ~IsStale(q)
        /\ UNCHANGED <<selected, reqId, pending, seen, emptied, refreshed, overtaken,
                       netVars, listVars, region, micro, events>>
    BY DEF StartDecrypt
  <1>1. UNCHANGED <<log, batches, approved>> BY <1>0 DEF netVars
  <1>2. PICK k \in 0..Len(log) :
          /\ reqs' = (reqs \ {q}) \cup {[q EXCEPT !.stage = "decrypt", !.from = k]}
          /\ messages' = IF Decrypted(q.hash, q.region, k) = {} THEN messages
                         ELSE Merge(messages, Decrypted(q.hash, q.region, k))
    BY DEF StartDecrypt
  <1> DEFINE cached == Decrypted(q.hash, q.region, k)
             new == [q EXCEPT !.stage = "decrypt", !.from = k]
  <1>3. q \in Request /\ Len(log) \in Nat /\ k \in Nat /\ k <= Len(log)
    BY DEF PageInv, PaneTyped
  <1>4. /\ new \in Request /\ new.id = q.id /\ new.hash = q.hash /\ new.region = q.region
        /\ new.stage = "decrypt" /\ new.from = k
    BY <1>3 DEF Request, Stage
  <1>5. /\ reqs' = (reqs \ {q}) \cup {new}
        /\ messages' = IF cached = {} THEN messages ELSE Merge(messages, cached)
    BY <1>2
  <1> HIDE DEF new
  <1>6. /\ Numbered' /\ reqs' \subseteq Request /\ PaneSettlesUnlessOvertaken' /\ pending = reqId
        /\ \A p \in reqs' : p.id = reqId => p = new
    BY <1>0, <1>1, <1>3, <1>4, <1>5, StagePane
  <1>7. cached \in SUBSET DOMAIN log /\ \A i \in cached : log[i].name = q.hash.name /\ i <= k
    <2>1. cached \in SUBSET DOMAIN log /\ \A i \in cached : log[i].name = q.hash.name
      BY <1>3, AnswerHolds
    <2>2. QED BY <2>1, <1>3 DEF Decrypted
  <1> HIDE DEF cached
  <1>8. messages' \subseteq [id : DOMAIN log, ws : BOOLEAN] /\ (OnlySelected /\ SeenInRow /\ LiveSafe)'
    <2>1. CASE cached = {}
      BY <2>1, <1>0, <1>1, <1>5, <1>6, CurrentRow
         DEF PageInv, PaneTyped, OnlySelected, SeenInRow, LiveSafe
    <2>2. CASE cached # {}
      BY <2>2, <1>0, <1>1, <1>4, <1>5, <1>6, <1>7, MergeSafe
    <2>3. QED BY <2>1, <2>2
  <1>9. PaneTyped' BY <1>0, <1>1, <1>6, <1>8 DEF PageInv, PaneTyped
  <1>10. LoadOwned' BY <1>0, <1>4, <1>6, CurrentRow DEF LoadOwned
  <1>11. QED BY <1>0, <1>1, <1>6, <1>8, <1>9, <1>10, ListQuiet DEF PageInv

LEMMA MessagesArrivePage == ASSUME NEW q \in reqs, PageInv, MessagesArrive(q) PROVE PageInv'
  <1>0. /\ q.stage \in {"fetch", "decrypt"} /\ ~IsStale(q) /\ Finished(q)
        /\ UNCHANGED <<selected, reqId, seen, emptied, refreshed, overtaken, netVars, listVars,
                       region, micro, events>>
    BY DEF MessagesArrive
  <1>1. UNCHANGED <<log, batches, approved>> BY <1>0 DEF netVars
  <1>2. PICK k \in q.from..Len(log) :
          /\ messages' = Merge(messages, IF q.stage = "fetch" THEN Rest(q.hash, q.region, k)
                                         ELSE Decrypted(q.hash, q.region, k))
          /\ pane' \in {"note", "messages"}
    BY DEF MessagesArrive
  <1> DEFINE got == IF q.stage = "fetch" THEN Rest(q.hash, q.region, k)
                    ELSE Decrypted(q.hash, q.region, k)
  <1>3. q \in Request /\ Len(log) \in Nat /\ k \in 0..Len(log) /\ DOMAIN log = 1..Len(log)
    BY DEF PageInv, PaneTyped, Request
  <1>4. got \in SUBSET DOMAIN log /\ \A i \in got : log[i].name = q.hash.name
    BY <1>3, AnswerHolds
  <1>5. \A i \in seen : InRegion(region, log[i].region) /\ [id |-> i, ws |-> FALSE] \in messages
                         /\ q.stage = "decrypt" /\ i <= q.from => i \in got
    <2> SUFFICES ASSUME NEW i \in seen, InRegion(region, log[i].region),
                        [id |-> i, ws |-> FALSE] \in messages, q.stage = "decrypt", i <= q.from
                 PROVE  i \in Decrypted(q.hash, q.region, k)
      OBVIOUS
    <2>1. i \in DOMAIN log /\ i <= k BY <1>3 DEF PageInv, PaneTyped, Request
    <2>2. log[i].name = q.hash.name /\ q.region = region
      BY <1>0, CurrentRow DEF PageInv, OnlySelected
    <2>3. QED BY <2>1, <2>2, <1>3, AnswerHolds
  <1>6. messages' = Merge(messages, got) BY <1>2
  <1> HIDE DEF got
  <1>7. /\ Numbered' /\ reqs' \subseteq Request /\ pending' \in Nat
        /\ \A p \in reqs' : p \in reqs /\ p.id # q.id
        /\ \A p \in reqs' : p.id = reqId /\ p.stage # "refresh" => pending' = reqId
    BY <1>0, <1>1, FinishedPane
  <1>8. messages' \subseteq [id : DOMAIN log, ws : BOOLEAN] /\ (OnlySelected /\ SeenInRow /\ LiveSafe)'
    <2>1. \A p \in reqs' : p.id # reqId BY <1>0, <1>7, CurrentRow
    <2>2. q.stage # "refresh" BY <1>0
    <2>3. QED BY <2>1, <2>2, <1>0, <1>1, <1>4, <1>5, <1>6, MergeSafe
  <1>9. PaneTyped' BY <1>0, <1>1, <1>7, <1>8 DEF PageInv, PaneTyped
  <1>10. LoadOwned' BY <1>0, <1>2, <1>7 DEF PageInv, LoadOwned
  <1>11. PaneSettlesUnlessOvertaken' BY <1>2 DEF PaneSettlesUnlessOvertaken, PaneSettles
  <1>12. QED BY <1>0, <1>1, <1>7, <1>8, <1>9, <1>10, <1>11, ListQuiet DEF PageInv

LEMMA RefreshArrivesPage == ASSUME NEW q \in reqs, PageInv, RefreshArrives(q) PROVE PageInv'
  <1>0. /\ q.stage = "refresh" /\ ~IsStale(q) /\ Finished(q) /\ refreshed' = TRUE
        /\ UNCHANGED <<selected, reqId, seen, overtaken, netVars, listVars, region, micro, events>>
    BY DEF RefreshArrives
  <1>1. UNCHANGED <<log, batches, approved>> BY <1>0 DEF netVars
  <1>2. PICK k \in q.from..Len(log) :
          \/ messages' = {} /\ pane' = "note" /\ emptied' = TRUE
          \/ UNCHANGED <<messages, pane, emptied>>
          \/ /\ messages' = Merge(messages, Rest(q.hash, q.region, k)) /\ pane' = "messages"
             /\ UNCHANGED emptied
    BY DEF RefreshArrives
  <1> DEFINE got == Rest(q.hash, q.region, k)
  <1>3. q \in Request /\ Len(log) \in Nat /\ k \in 0..Len(log) /\ DOMAIN log = 1..Len(log)
    BY DEF PageInv, PaneTyped, Request
  <1>4. got \in SUBSET DOMAIN log /\ \A i \in got : log[i].name = q.hash.name
    BY <1>3, AnswerHolds
  <1>5. \A i \in seen : InRegion(region, log[i].region) /\ ~log[i].enc /\ i <= q.from => i \in got
    <2> SUFFICES ASSUME NEW i \in seen, InRegion(region, log[i].region), ~log[i].enc, i <= q.from
                 PROVE  i \in Rest(q.hash, q.region, k)
      OBVIOUS
    <2>1. i \in DOMAIN log /\ i <= k BY <1>3 DEF PageInv, PaneTyped, Request
    <2>2. q.hash = Srv(log[i].name) /\ q.region = region
      BY <1>0, CurrentRow DEF PageInv, SeenInRow
    <2>3. QED BY <2>1, <2>2, <1>3, AnswerHolds
  <1> HIDE DEF got
  <1>6. /\ Numbered' /\ reqs' \subseteq Request /\ pending' \in Nat
        /\ \A p \in reqs' : p \in reqs /\ p.id # q.id
        /\ \A p \in reqs' : p.id = reqId /\ p.stage # "refresh" => pending' = reqId
    BY <1>0, <1>1, FinishedPane
  <1>7. \A p \in reqs' : p.id # reqId BY <1>0, <1>6, CurrentRow
  <1>8. messages' \subseteq [id : DOMAIN log, ws : BOOLEAN] /\ (OnlySelected /\ SeenInRow /\ LiveSafe)'
    <2>1. CASE messages' = {} /\ emptied' = TRUE
      BY <2>1, <1>0, <1>1 DEF PageInv, OnlySelected, SeenInRow, LiveSafe
    <2>2. CASE UNCHANGED <<messages, emptied>>
      BY <2>2, <1>0, <1>1, <1>7 DEF PageInv, PaneTyped, OnlySelected, SeenInRow, LiveSafe
    <2>3. CASE messages' = Merge(messages, got) /\ UNCHANGED emptied
      BY <2>3, <1>0, <1>1, <1>4, <1>5, <1>7, MergeSafe
    <2>4. QED BY <2>1, <2>2, <2>3, <1>2 DEF got
  <1>9. PaneTyped' BY <1>0, <1>1, <1>6, <1>8 DEF PageInv, PaneTyped
  <1>10. LoadOwned' BY <1>0, <1>2, <1>6, <1>7, CurrentRow DEF LoadOwned
  <1>11. PaneSettlesUnlessOvertaken' BY <1>0, <1>2, RefreshEnds
  <1>12. QED BY <1>0, <1>1, <1>6, <1>8, <1>9, <1>10, <1>11, ListQuiet DEF PageInv
------------------------------------------------------------------------------
(* Live messages. *)

LEMMA HearPage == ASSUME NEW i \in DOMAIN log, PageInv, Hear(i) PROVE PageInv'
  <1>0. /\ batches' = batches \cup {[id |-> i, filter |-> region]}
        /\ UNCHANGED <<log, approved, paneVars, listVars, region, micro>>
    BY DEF Hear
  <1>1. PaneTyped' BY <1>0 DEF PageInv, PaneTyped, paneVars
  <1>2. (Numbered /\ LoadOwned)' BY <1>0 DEF PageInv, Numbered, LoadOwned, paneVars
  <1>3. (SeenInRow /\ LiveSafe /\ OnlySelected)'
    BY <1>0 DEF PageInv, SeenInRow, LiveSafe, OnlySelected, paneVars
  <1>4. PaneSettlesUnlessOvertaken' BY <1>0, SettlesQuiet DEF paneVars
  <1>5. QED BY <1>0, <1>1, <1>2, <1>3, <1>4, ListQuiet DEF PageInv

LEMMA ShowLivePage == ASSUME NEW b \in batches, PageInv, ShowLive(b) PROVE PageInv'
  <1> DEFINE h == RowOf(b.id)
             live == [id |-> b.id, ws |-> TRUE]
  <1>0. /\ batches' = batches \ {b}
        /\ UNCHANGED <<log, approved, selected, reqId, reqs, pending, emptied, refreshed, overtaken,
                       listId, loads, waiting, listOf, listFailed, region, micro, events>>
        /\ rows' = rows \/ rows' = rows \cup {h}
        /\ \/ UNCHANGED <<messages, pane, seen>>
           \/ /\ selected = h /\ messages' = {m \in messages : m.id # b.id} \cup {live}
              /\ pane' = "messages" /\ seen' = seen \cup {b.id}
    BY DEF ShowLive
  <1>1. /\ b.id \in DOMAIN log /\ log[b.id] \in Message
        /\ messages \subseteq [id : DOMAIN log, ws : BOOLEAN] /\ seen \subseteq DOMAIN log
    BY DEF PageInv, PaneTyped
  <1>2. h \in Row /\ h.name = log[b.id].name /\ (~log[b.id].enc => h = Srv(log[b.id].name))
    BY <1>1 DEF RowOf, Row, Message, Srv, User, PageInv, ListTyped
  <1> HIDE DEF h
  <1>3. PaneTyped'
    <2>1. live \in [id : DOMAIN log, ws : BOOLEAN] BY <1>1
    <2> HIDE DEF live
    <2>2. messages' \subseteq [id : DOMAIN log, ws : BOOLEAN] /\ seen' \subseteq DOMAIN log
      BY <2>1, <1>0, <1>1
    <2>3. QED BY <2>2, <1>0 DEF PageInv, PaneTyped
  <1>4. ListTyped' BY <1>0, <1>2 DEF PageInv, ListTyped
  <1>5. Numbered' BY <1>0 DEF PageInv, Numbered
  <1>6. (ListOwned /\ ListIsNewest)' BY <1>0 DEF PageInv, ListOwned, ListIsNewest, Newest
  <1>7. LoadOwned' BY <1>0 DEF PageInv, LoadOwned
  <1>8. SeenInRow' BY <1>0, <1>1, <1>2 DEF PageInv, SeenInRow
  <1>9. LiveSafe'
    <2>1. CASE UNCHANGED <<messages, seen>> BY <2>1, <1>0 DEF PageInv, LiveSafe
    <2>2. CASE messages' = {m \in messages : m.id # b.id} \cup {live} /\ seen' = seen \cup {b.id}
      BY <2>2, <1>0, <1>1 DEF PageInv, LiveSafe
    <2>3. QED BY <2>1, <2>2, <1>0
  <1>10. OnlySelected' BY <1>0, <1>1, <1>2 DEF PageInv, OnlySelected
  <1>11. PaneSettlesUnlessOvertaken'
    BY <1>0 DEF PageInv, PaneSettlesUnlessOvertaken, PaneSettles, IsStale, Newest
  <1>12. QED BY <1>3, <1>4, <1>5, <1>6, <1>7, <1>8, <1>9, <1>10, <1>11 DEF PageInv

------------------------------------------------------------------------------
(* The list. *)

\* A new list request is the newest, for the filter then in force.
LEMMA StartLoadList ==
    ASSUME PageInv, NEW had \in SUBSET Psk, NEW then \in {"none", "region", "link"},
           NEW route \in Row \cup {NoRow}, then = "link" => route \in Row,
           StartLoad(had, then, route), region' \in Filter,
           UNCHANGED <<approved, micro>>, rows' \subseteq Row
    PROVE  /\ (ListTyped /\ ListOwned /\ ListIsNewest)'
           /\ loads \subseteq loads' /\ \E l \in loads' : l.id = listId' /\ l.then = then
  <1> DEFINE new == [id |-> listId + 1, region |-> region', had |-> had, then |-> then,
                     route |-> route]
  <1>0. listId' = listId + 1 /\ loads' = loads \cup {new} /\ UNCHANGED <<waiting, listOf, listFailed>>
    BY DEF StartLoad
  <1>1. listId \in Nat /\ loads \subseteq Load /\ \A l \in loads : l.id <= listId
    BY DEF PageInv, ListTyped, ListOwned
  <1>2. /\ new \in Load /\ new.id = listId + 1 /\ new.region = region' /\ new.then = then
        /\ new.route = route
    BY <1>1 DEF Load
  <1> HIDE DEF new
  <1>3. ListTyped' BY <1>0, <1>1, <1>2 DEF PageInv, ListTyped
  <1>4. \A l \in loads : l.id # listId + 1 /\ l.id <= listId + 1 BY <1>1 DEF Load
  <1>5. ListOwned' BY <1>0, <1>1, <1>2, <1>4 DEF ListOwned, Newest
  <1>6. ListIsNewest' BY <1>0, <1>2 DEF ListIsNewest
  <1>7. new \in loads' /\ new.id = listId' /\ new.then = then BY <1>0, <1>2
  <1>8. QED BY <1>0, <1>3, <1>5, <1>6, <1>7

LEMMA ChangeRegionPage ==
    ASSUME NEW r \in Region \cup {All}, PageInv, ChangeRegion(r) PROVE PageInv'
  <1>0. /\ region' = r /\ StartLoad({}, "region", NoRow) /\ seen' = {}
        /\ UNCHANGED <<rows, selected, messages, pane, reqId, reqs, pending, emptied, refreshed,
                       overtaken, netVars, micro>>
    BY DEF ChangeRegion
  <1>1. UNCHANGED <<log, batches, approved>> BY <1>0 DEF netVars
  <1>2. /\ (ListTyped /\ ListOwned /\ ListIsNewest)'
        /\ \E l \in loads' : l.then = "region"
    BY <1>0, <1>1, StartLoadList DEF PageInv, ListTyped, Filter
  <1>3. PaneTyped' BY <1>0, <1>1 DEF PageInv, PaneTyped, Filter
  <1>4. (Numbered /\ LoadOwned)' BY <1>0, <1>1 DEF PageInv, Numbered, LoadOwned
  <1>5. (SeenInRow /\ LiveSafe /\ OnlySelected)'
    BY <1>0, <1>1 DEF PageInv, SeenInRow, LiveSafe, OnlySelected
  <1>6. PaneSettlesUnlessOvertaken' BY <1>2 DEF PaneSettlesUnlessOvertaken, PaneSettles
  <1>7. QED BY <1>2, <1>3, <1>4, <1>5, <1>6 DEF PageInv

LEMMA RefreshListPage == ASSUME PageInv, RefreshChannelList PROVE PageInv'
  <1>0. /\ UNCHANGED region /\ StartLoad(approved, "none", NoRow)
        /\ UNCHANGED <<rows, paneVars, netVars, micro>>
    BY DEF RefreshChannelList
  <1>1. UNCHANGED <<log, batches, approved>> BY <1>0 DEF netVars
  <1>2. /\ (ListTyped /\ ListOwned /\ ListIsNewest)' /\ loads \subseteq loads'
        /\ \E l \in loads' : l.id = listId'
    BY <1>0, <1>1, StartLoadList DEF PageInv, ListTyped, PaneTyped
  <1>3. (PaneTyped /\ Numbered /\ LoadOwned /\ SeenInRow /\ LiveSafe /\ OnlySelected)'
    BY <1>0, <1>1, PaneQuiet
  <1>4. PaneSettlesUnlessOvertaken'
    <2>1. waiting' = waiting BY <1>0 DEF StartLoad
    <2>2. QED BY <2>1, <1>0, <1>2
              DEF PageInv, PaneSettlesUnlessOvertaken, PaneSettles, IsStale, Newest, paneVars
  <1>5. QED BY <1>2, <1>3, <1>4 DEF PageInv

LEMMA NavigatePage == ASSUME NEW h \in Row, PageInv, Navigate(h) PROVE PageInv'
  <1>0. /\ UNCHANGED region /\ rows' = {} /\ messages' = {} /\ selected' = NoRow
        /\ pane' = "choose" /\ seen' = {} /\ StartLoad({}, "link", h)
        /\ UNCHANGED <<reqId, reqs, pending, emptied, refreshed, overtaken, netVars, micro>>
    BY DEF Navigate
  <1>1. UNCHANGED <<log, batches, approved>> BY <1>0 DEF netVars
  <1>2. (ListTyped /\ ListOwned /\ ListIsNewest)'
    BY <1>0, <1>1, StartLoadList DEF PageInv, PaneTyped
  <1>3. PaneTyped' BY <1>0, <1>1 DEF PageInv, PaneTyped
  <1>4. Numbered' BY <1>0, <1>1 DEF PageInv, Numbered
  <1>5. LoadOwned' BY <1>0 DEF PageInv, LoadOwned
  <1>6. (SeenInRow /\ LiveSafe /\ OnlySelected)' BY <1>0 DEF SeenInRow, LiveSafe, OnlySelected
  <1>7. PaneSettlesUnlessOvertaken' BY <1>0 DEF PaneSettlesUnlessOvertaken, PaneSettles
  <1>8. QED BY <1>2, <1>3, <1>4, <1>5, <1>6, <1>7 DEF PageInv

LEMMA FollowUpTyped ==
    ASSUME PageInv, NEW l \in loads
    PROVE  /\ FollowUp(l) \in Seq(Callback) /\ (l.then # "none" => FollowUp(l) # <<>>)
           /\ Settled(l) \in Seq(Callback)
           /\ (l.then # "none" \/ waiting # <<>> => Settled(l) # <<>>)
  <1>1. /\ l \in Load /\ waiting \in Seq(Callback) /\ (l.then = "link" => l.route \in Row)
    BY DEF PageInv, ListTyped
  <1>2. l.then # "none" => [do |-> l.then, row |-> l.route] \in Callback
    BY <1>1 DEF Load, Callback
  <1>3. FollowUp(l) \in Seq(Callback) /\ (l.then # "none" => Len(FollowUp(l)) = 1)
    BY <1>2 DEF FollowUp
  <1>4. /\ Settled(l) \in Seq(Callback)
        /\ Len(Settled(l)) = Len(FollowUp(l)) + Len(waiting)
    BY <1>1, <1>3 DEF Settled
  <1>5. waiting # <<>> => Len(waiting) > 0 BY <1>1
  <1>6. QED BY <1>3, <1>4, <1>5

LEMMA ListedRows ==
    ASSUME PageInv, NEW l, NEW known \in SUBSET approved, NEW k
    PROVE  Listed(l, known, k) \subseteq Row
  BY DEF PageInv, ListTyped, Listed, Row, Name

\* The newest request is answered or fails: nobody waits for it any longer.
LEMMA LoadEnds ==
    ASSUME PageInv, NEW l \in loads, loads' = loads \ {l}, waiting' = <<>>, rows' \subseteq Row,
           micro' \in Seq(Callback), UNCHANGED <<listId, region, approved>>
    PROVE  (ListTyped /\ ListOwned)'
  <1>1. ListTyped' BY DEF PageInv, ListTyped
  <1>2. ListOwned' BY DEF PageInv, ListOwned
  <1>3. QED BY <1>1, <1>2

\* The callbacks that were owed to the pane now run.
LEMMA LoadSettles ==
    ASSUME PageInv, NEW l \in loads, loads' = loads \ {l},
           l.then # "none" \/ waiting # <<>> => micro' # <<>>,
           UNCHANGED <<selected, pane, reqId, reqs, region, overtaken>>, micro = <<>>
    PROVE  PaneSettlesUnlessOvertaken'
  <1> SUFFICES ASSUME pane = "loading", ~overtaken PROVE PaneSettles'
    BY DEF PaneSettlesUnlessOvertaken, PaneSettles
  <1>1. PaneSettles BY DEF PageInv, PaneSettlesUnlessOvertaken
  <1>2. QED BY <1>1 DEF PaneSettles, IsStale

LEMMA ListFailsPage == ASSUME NEW l \in loads, PageInv, ListFails(l) PROVE PageInv'
  <1>0. /\ micro = <<>> /\ l.id = listId /\ loads' = loads \ {l} /\ micro' = Settled(l)
        /\ waiting' = <<>> /\ listFailed' = l.id
        /\ UNCHANGED <<rows, listId, listOf, paneVars, netVars, region, events>>
    BY DEF ListFails, Idle, Newest
  <1>1. UNCHANGED <<log, batches, approved>> BY <1>0 DEF netVars
  <1>2. (PaneTyped /\ Numbered /\ LoadOwned /\ SeenInRow /\ LiveSafe /\ OnlySelected)'
    BY <1>0, <1>1, PaneQuiet
  <1>3. rows' \subseteq Row BY <1>0 DEF PageInv, ListTyped
  <1>4. (ListTyped /\ ListOwned)' BY <1>0, <1>1, <1>3, LoadEnds, FollowUpTyped
  <1>5. ListIsNewest' BY <1>0 DEF ListIsNewest
  <1>6. PaneSettlesUnlessOvertaken' BY <1>0, LoadSettles, FollowUpTyped DEF paneVars
  <1>7. QED BY <1>2, <1>4, <1>5, <1>6 DEF PageInv

LEMMA ListOvertakenPage == ASSUME NEW l \in loads, PageInv, ListOvertaken(l) PROVE PageInv'
  <1>0. /\ micro = <<>> /\ l.id # listId /\ loads' = loads \ {l}
        /\ UNCHANGED <<rows, listId, listOf, listFailed, paneVars, netVars, region, events>>
        /\ \/ /\ \E m \in loads : m.id = listId
              /\ waiting' = waiting \o FollowUp(l) /\ UNCHANGED micro
           \/ /\ ~\E m \in loads : m.id = listId
              /\ micro' = FollowUp(l) /\ UNCHANGED waiting
    BY DEF ListOvertaken, Idle, Newest
  <1>1. UNCHANGED <<log, batches, approved>> BY <1>0 DEF netVars
  <1>2. (PaneTyped /\ Numbered /\ LoadOwned /\ SeenInRow /\ LiveSafe /\ OnlySelected)'
    BY <1>0, <1>1, PaneQuiet
  <1>3. /\ waiting \in Seq(Callback) /\ micro \in Seq(Callback) /\ FollowUp(l) \in Seq(Callback)
        /\ (l.then # "none" => FollowUp(l) # <<>>)
    BY FollowUpTyped DEF PageInv, ListTyped
  <1>4. ListTyped'
    <2>1. waiting \o FollowUp(l) \in Seq(Callback) BY <1>3
    <2>2. waiting' \in Seq(Callback) /\ micro' \in Seq(Callback) BY <2>1, <1>0, <1>3, Zenon
    <2>3. QED BY <2>2, <1>0, <1>1 DEF PageInv, ListTyped
  <1>5. ListOwned'
    <2>1. \A m \in loads : m.id = listId => m \in loads' BY <1>0
    <2>2. waiting # <<>> => \E m \in loads : m.id = listId BY DEF PageInv, ListOwned, Newest
    <2>3. waiting' # <<>> => \E m \in loads : m.id = listId BY <2>2, <1>0
    <2>4. QED BY <2>1, <2>3, <1>0 DEF PageInv, ListOwned, Newest
  <1>6. ListIsNewest' BY <1>0 DEF PageInv, ListIsNewest
  <1>7. PaneSettlesUnlessOvertaken'
    <2>1. waiting # <<>> \/ l.then # "none" =>
            micro' # <<>> \/ (waiting' # <<>> /\ \E m \in loads' : m.id = listId')
      <3>1. CASE \E m \in loads : m.id = listId
        <4>1. waiting # <<>> \/ l.then # "none" => waiting \o FollowUp(l) # <<>>
          BY <1>3
        <4>2. QED BY <4>1, <3>1, <1>0
      <3>2. CASE ~\E m \in loads : m.id = listId
        BY <3>2, <1>0, <1>3 DEF PageInv, ListOwned, Newest
      <3>3. QED BY <3>1, <3>2
    <2> SUFFICES ASSUME pane = "loading", ~overtaken PROVE PaneSettles'
      BY <1>0 DEF PaneSettlesUnlessOvertaken, PaneSettles, paneVars
    <2>2. PaneSettles BY DEF PageInv, PaneSettlesUnlessOvertaken
    <2>3. QED BY <2>1, <2>2, <1>0 DEF PaneSettles, IsStale, Newest, paneVars
  <1>8. QED BY <1>2, <1>4, <1>5, <1>6, <1>7 DEF PageInv

\* The selection follows the new list: kept, moved to the row that now stands
\* for the same key, whose unfinished load starts again, or closed.
LEMMA ListArrivesPage == ASSUME NEW l \in loads, PageInv, ListArrives(l) PROVE PageInv'
  <1>0. /\ micro = <<>> /\ l.id = listId /\ loads' = loads \ {l}
        /\ waiting' = <<>> /\ listOf' = [id |-> l.id, region |-> l.region]
        /\ UNCHANGED <<listId, listFailed, reqId, reqs, pending, emptied, refreshed, overtaken,
                       netVars, region, events>>
    BY DEF ListArrives, Idle, Newest
  <1>1. UNCHANGED <<log, batches, approved>> BY <1>0 DEF netVars
  <1>2. PICK known \in SUBSET approved, k \in 0..Len(log) :
          LET moved == Srv(selected.name)
              fresh == Listed(l, known, k)
          IN /\ rows' = fresh
             /\ \/ /\ micro' = Settled(l)
                   /\ UNCHANGED <<selected, messages, pane, seen>>
                \/ /\ selected.kind = "user" /\ moved \in fresh /\ selected' = moved
                   /\ micro' = (IF Restarts THEN <<[do |-> "link", row |-> moved]>> ELSE <<>>)
                               \o Settled(l)
                   /\ UNCHANGED <<messages, pane, seen>>
                \/ /\ selected' = NoRow /\ messages' = {} /\ pane' = "choose" /\ seen' = {}
                   /\ micro' = Settled(l)
    BY DEF ListArrives
  <1> DEFINE moved == Srv(selected.name)
             first == IF Restarts THEN <<[do |-> "link", row |-> moved]>> ELSE <<>>
  <1>3. rows' \subseteq Row BY <1>2, ListedRows
  <1>4. Settled(l) \in Seq(Callback) BY FollowUpTyped
  <1>5. moved \in rows' => [do |-> "link", row |-> moved] \in Callback
    BY <1>3 DEF Callback
  <1>6. moved \in rows' => first \in Seq(Callback) BY <1>5
  <1>7. moved \in rows' => /\ first \o Settled(l) \in Seq(Callback)
                           /\ (Restarts \/ Settled(l) # <<>> => first \o Settled(l) # <<>>)
    <2>1. Restarts => Len(first) = 1 OBVIOUS
    <2> HIDE DEF first
    <2>2. QED BY <2>1, <1>4, <1>6
  <1>8. CASE micro' = Settled(l) /\ UNCHANGED <<selected, messages, pane, seen>>
    <2>1. UNCHANGED paneVars BY <1>8, <1>0 DEF paneVars
    <2>2. (PaneTyped /\ Numbered /\ LoadOwned /\ SeenInRow /\ LiveSafe /\ OnlySelected)'
      BY <2>1, <1>0, <1>1, PaneQuiet
    <2>3. (ListTyped /\ ListOwned)' BY <1>8, <1>0, <1>1, <1>3, <1>4, LoadEnds
    <2>4. ListIsNewest' BY <1>0 DEF PageInv, ListOwned, ListIsNewest
    <2>5. PaneSettlesUnlessOvertaken' BY <1>8, <1>0, LoadSettles, FollowUpTyped
    <2>6. QED BY <2>2, <2>3, <2>4, <2>5 DEF PageInv
  <1>9. CASE /\ selected.kind = "user" /\ moved \in rows' /\ selected' = moved
             /\ micro' = first \o Settled(l) /\ UNCHANGED <<messages, pane, seen>>
    <2>1. selected \in Row /\ moved \in Row /\ moved # NoRow /\ moved.name = selected.name
      BY <1>3, <1>9 DEF PageInv, PaneTyped, Row, NoRow, Srv, User
    <2>2. PaneTyped' BY <2>1, <1>0, <1>1, <1>9 DEF PageInv, PaneTyped
    <2>3. Numbered' BY <1>0, <1>1 DEF PageInv, Numbered
    <2>4. LoadOwned' BY <2>1, <1>0, <1>9 DEF PageInv, LoadOwned
    <2>5. \A i \in seen : log[i].enc BY <1>9 DEF PageInv, SeenInRow, Srv
    <2>6. SeenInRow' BY <2>5, <1>1, <1>9 DEF SeenInRow
    <2>7. LiveSafe' BY <1>0, <1>1, <1>9 DEF PageInv, LiveSafe
    <2>8. OnlySelected' BY <2>1, <1>1, <1>9 DEF PageInv, OnlySelected
    <2>9. (ListTyped /\ ListOwned)' BY <1>9, <1>0, <1>1, <1>3, <1>7, LoadEnds
    <2>10. ListIsNewest' BY <1>0 DEF PageInv, ListOwned, ListIsNewest
    <2>11. PaneSettlesUnlessOvertaken'
      <3> SUFFICES ASSUME pane = "loading", ~overtaken PROVE PaneSettles'
        BY <1>0, <1>9 DEF PaneSettlesUnlessOvertaken, PaneSettles
      <3>1. PaneSettles BY DEF PageInv, PaneSettlesUnlessOvertaken
      <3>2. CASE \E q \in reqs : ~IsStale(q)
        <4>1. PICK q \in reqs : ~IsStale(q) BY <3>2
        <4>2. q.id = reqId /\ q \in Request BY <4>1 DEF IsStale, PageInv, PaneTyped
        <4>3. pending = reqId /\ reqId # 0 BY <4>2 DEF PageInv, LoadOwned, Request
        <4>4. Restarts BY <4>3 DEF Restarts
        <4>5. QED BY <4>4, <1>7, <1>9 DEF PaneSettles
      <3>3. CASE l.then # "none" \/ waiting # <<>>
        BY <3>3, <1>7, <1>9, FollowUpTyped DEF PaneSettles
      <3>4. CASE \E m \in loads : m # l /\ m.then # "none"
        BY <3>4, <1>0 DEF PaneSettles
      <3>5. QED BY <3>1, <3>2, <3>3, <3>4, <1>0 DEF PaneSettles
    <2>12. QED BY <2>2, <2>3, <2>4, <2>6, <2>7, <2>8, <2>9, <2>10, <2>11 DEF PageInv
  <1>10. CASE /\ selected' = NoRow /\ messages' = {} /\ pane' = "choose" /\ seen' = {}
              /\ micro' = Settled(l)
    <2>1. PaneTyped' BY <1>0, <1>1, <1>10 DEF PageInv, PaneTyped
    <2>2. Numbered' BY <1>0, <1>1 DEF PageInv, Numbered
    <2>3. LoadOwned' BY <1>0, <1>10 DEF PageInv, LoadOwned
    <2>4. (SeenInRow /\ LiveSafe /\ OnlySelected)' BY <1>10 DEF SeenInRow, LiveSafe, OnlySelected
    <2>5. (ListTyped /\ ListOwned)' BY <1>10, <1>0, <1>1, <1>3, <1>4, LoadEnds
    <2>6. ListIsNewest' BY <1>0 DEF PageInv, ListOwned, ListIsNewest
    <2>7. PaneSettlesUnlessOvertaken' BY <1>10 DEF PaneSettlesUnlessOvertaken, PaneSettles
    <2>8. QED BY <2>1, <2>2, <2>3, <2>4, <2>5, <2>6, <2>7 DEF PageInv
  <1>11. QED BY <1>2, <1>8, <1>9, <1>10

LEMMA RunMicroPage == ASSUME PageInv, RunMicro PROVE PageInv'
  <1>0. /\ micro # <<>> /\ micro' = Tail(micro)
        /\ UNCHANGED <<listId, loads, waiting, listOf, listFailed, netVars, region, events>>
    BY DEF RunMicro, Idle
  <1>1. UNCHANGED <<log, batches, approved>> BY <1>0 DEF netVars
  <1>2. micro \in Seq(Callback) BY DEF PageInv, ListTyped
  <1>3. Head(micro) \in Callback /\ micro' \in Seq(Callback) BY <1>0, <1>2
  <1>4. ASSUME rows' \subseteq Row PROVE (ListTyped /\ ListOwned /\ ListIsNewest)'
    <2>1. ListTyped' BY <1>0, <1>1, <1>3, <1>4 DEF PageInv, ListTyped
    <2>2. (ListOwned /\ ListIsNewest)' BY <1>0 DEF PageInv, ListOwned, ListIsNewest, Newest
    <2>3. QED BY <2>1, <2>2
  <1>5. CASE /\ Head(micro).do = "link" /\ Select(Head(micro).row)
             /\ rows' = rows \cup {User(n) : n \in {p \in Psk : Srv(p) \notin rows}}
    <2>1. Head(micro).row \in Row BY <1>3, <1>5 DEF Callback
    <2>2. rows' \subseteq Row BY <1>5 DEF PageInv, ListTyped, Row
    <2>3. QED BY <2>1, <2>2, <1>0, <1>1, <1>4, <1>5, SelectPane DEF PageInv
  <1>6. CASE selected = NoRow /\ UNCHANGED <<paneVars, rows>>
    <2>1. (PaneTyped /\ Numbered /\ LoadOwned /\ SeenInRow /\ LiveSafe /\ OnlySelected)'
      BY <1>6, <1>0, <1>1, PaneQuiet
    <2>2. pane' # "loading" BY <1>6 DEF PageInv, LoadOwned, paneVars
    <2>3. PaneSettlesUnlessOvertaken' BY <2>2 DEF PaneSettlesUnlessOvertaken, PaneSettles
    <2>4. rows' \subseteq Row BY <1>6 DEF PageInv, ListTyped
    <2>5. QED BY <2>1, <2>3, <2>4, <1>4 DEF PageInv
  <1>7. CASE selected # NoRow /\ AfterSwitch /\ UNCHANGED rows
    <2>1. selected \in Row BY <1>7 DEF PageInv, PaneTyped
    <2>2. rows' \subseteq Row BY <1>7 DEF PageInv, ListTyped
    <2>3. Select(selected) \/ Refresh BY <1>7 DEF AfterSwitch
    <2>4. QED BY <2>1, <2>2, <2>3, <1>0, <1>1, <1>4, SelectPane, RefreshPane DEF PageInv
  <1>8. QED BY <1>5, <1>6, <1>7 DEF RunMicro
------------------------------------------------------------------------------
LEMMA StepPage == PageInv /\ [PageNext]_pageVars => PageInv'
  <1> SUFFICES ASSUME PageInv, [PageNext]_pageVars PROVE PageInv'
    OBVIOUS
  <1>1. CASE \E n \in Name, r \in Region : Send(n, r) BY <1>1, SendPage
  <1>2. CASE \E n \in Psk : Approve(n) BY <1>2, ApprovePage
  <1>3. CASE \E h \in Row : Click(h) \/ Navigate(h) BY <1>3, ClickPage, NavigatePage
  <1>4. CASE \E q \in reqs : \/ Superseded(q) \/ StartDecrypt(q) \/ LookupDone(q)
                             \/ MessagesArrive(q) \/ MessagesFail(q) \/ RefreshArrives(q)
                             \/ RefreshFails(q)
    BY <1>4, SupersededPage, StartDecryptPage, LookupPage, MessagesArrivePage, MessagesFailPage,
       RefreshArrivesPage, RefreshFailsPage
  <1>5. CASE \E r \in Region \cup {All} : ChangeRegion(r) BY <1>5, ChangeRegionPage
  <1>6. CASE RefreshChannelList BY <1>6, RefreshListPage
  <1>7. CASE \E l \in loads : ListArrives(l) \/ ListFails(l) \/ ListOvertaken(l)
    BY <1>7, ListArrivesPage, ListFailsPage, ListOvertakenPage
  <1>8. CASE RunMicro BY <1>8, RunMicroPage
  <1>9. CASE \E i \in DOMAIN log : Hear(i) BY <1>9, HearPage
  <1>10. CASE \E b \in batches : ShowLive(b) BY <1>10, ShowLivePage
  <1>11. CASE UNCHANGED pageVars
    <2>1. UNCHANGED <<paneVars, listVars, log, batches, region, micro, approved>>
      BY <1>11 DEF pageVars, paneVars, listVars
    <2>2. PaneSettlesUnlessOvertaken' BY <2>1, SettlesQuiet DEF paneVars
    <2>3. QED BY <2>1, <2>2, PaneQuiet, ListQuiet DEF PageInv
  <1>12. QED BY <1>1, <1>2, <1>3, <1>4, <1>5, <1>6, <1>7, <1>8, <1>9, <1>10, <1>11 DEF PageNext

\* The inductive invariant of the channels page.
THEOREM PageInvariant == PageSpec => []PageInv
  <1>1. PageInit => PageInv BY InitPage
  <1>2. PageInv /\ [PageNext]_pageVars => PageInv' BY StepPage
  <1>3. QED BY <1>1, <1>2, PTL DEF PageSpec

\* The pane never shows a message of a channel other than the open one.
THEOREM OnlySelectedHolds == PageSpec => []OnlySelected
  <1>1. PageInv => OnlySelected BY DEF PageInv
  <1>2. QED BY <1>1, PageInvariant, PTL

\* A live message stays in the pane, up to the two cases that are named.
THEOREM LiveKeptHolds == PageSpec => []LiveKeptUnlessEmptied
  <1>1. PageInv => LiveKeptUnlessEmptied
    <2> SUFFICES ASSUME PageInv, NEW i \in seen, InRegion(region, log[i].region),
                        ~emptied, ~(log[i].enc /\ refreshed)
                 PROVE  i \in Ids(messages)
      BY DEF LiveKeptUnlessEmptied
    <2>1. [id |-> i, ws |-> TRUE] \in messages \/ [id |-> i, ws |-> FALSE] \in messages
      BY DEF PageInv, LiveSafe
    <2>2. PICK m \in messages : m.id = i BY <2>1
    <2>3. QED BY <2>2 DEF Ids
  <1>2. QED BY <1>1, PageInvariant, PTL

\* Something on its way stands behind a pane that is loading.
THEOREM PaneSettlesHolds == PageSpec => []PaneSettlesUnlessOvertaken
  <1>1. PageInv => PaneSettlesUnlessOvertaken BY DEF PageInv
  <1>2. QED BY <1>1, PageInvariant, PTL

\* The list is the newest answer, for the filter now selected.
THEOREM ListIsNewestHolds == PageSpec => []ListIsNewest
  <1>1. PageInv => ListIsNewest BY DEF PageInv
  <1>2. QED BY <1>1, PageInvariant, PTL
=============================================================================
