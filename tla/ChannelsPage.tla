---------------------------- MODULE ChannelsPage ----------------------------
(***************************************************************************)
(* The Channels page of public/channels.js: the sidebar list, the open     *)
(* conversation and its message pane, against answers that arrive late,    *)
(* fail or describe another channel or region, and live messages that      *)
(* arrive while they are on their way.  A message is its position in the   *)
(* server's log; a row is a channel of the server's list or the row of a   *)
(* key stored in this browser (user:<name>).  JavaScript runs one callback *)
(* at a time: an action is the code between two awaits, and the callbacks  *)
(* chained on a settled promise (micro) run before anything else.          *)
(***************************************************************************)
EXTENDS Integers, Sequences

CONSTANTS Public,      \* channels the server knows
          Psk,         \* channels whose key is stored in this browser
          Tagged,      \* names that begin with #
          Region,      \* where observers are; the filter may also be All
          MaxMsgs,     \* bound: messages on the air
          MaxEvents    \* bound: what the user and the administrator do

ASSUME PageAssumption == /\ Public \cap Psk = {} /\ Tagged \subseteq Public \cup Psk
                         /\ MaxMsgs \in Nat /\ MaxEvents \in Nat

VARIABLES
    log,        \* what was sent: [name, region, enc]; enc: the server has no key
    approved,   \* keys of Psk that the server was given since
    region,     \* RegionFilter.getRegionParam()
    rows,       \* channels
    selected,   \* selectedHash
    messages,   \* messages: [id, ws], ws being _fromWS
    pane,       \* what #chMessages shows
    reqId, reqs,        \* messageRequestId, message requests on their way
    pending,            \* messageLoadPending
    listId, loads,      \* channelsRequestId, list requests on their way
    waiting,            \* answered list requests that resolve with a newer one
    batches,    \* live messages in decryptLivePSKBatch, with the filter they met
    heard,      \* messages the socket has brought
    micro,      \* callbacks to run before any other event
    events,     \* history: how many user events happened
    seen,       \* history: live messages put in the pane since it was opened or the
                \*   filter changed
    emptied,    \* history: a region switch emptied the pane since it was opened
    refreshed,  \* history: a refresh was answered since it was opened
    overtaken,  \* history: a refresh superseded a load since it was opened
    listOf, listFailed   \* history: the load the list shows; the last to fail

pageVars == <<log, approved, region, rows, selected, messages, pane, reqId, reqs, pending, listId,
              loads, waiting, batches, heard, micro, events, seen, emptied, refreshed, overtaken,
              listOf, listFailed>>
paneVars == <<selected, messages, pane, reqId, reqs, pending, seen, emptied, refreshed, overtaken>>
listVars == <<rows, listId, loads, waiting, listOf, listFailed>>
netVars == <<log, approved, batches, heard>>

All == "all"
Name == Public \cup Psk
Srv(n) == [kind |-> "srv", name |-> n]
User(n) == [kind |-> "user", name |-> n]
Row == {Srv(n) : n \in Name} \cup {User(n) : n \in Psk}
NoRow == [kind |-> "none", name |-> "none"]
Encrypted(h) == h.kind = "user"
InRegion(filter, r) == filter = All \/ filter = r
Ids(ms) == {m.id : m \in ms}

PageInit ==
    /\ log = <<>> /\ approved = {} /\ region = All
    /\ rows = {Srv(n) : n \in Public} \cup {User(n) : n \in Psk}
    /\ selected = NoRow /\ messages = {} /\ pane = "choose"
    /\ reqId = 0 /\ reqs = {} /\ pending = 0
    /\ listId = 1 /\ loads = {} /\ waiting = <<>> /\ listOf = [id |-> 1, region |-> All] /\ listFailed = 0
    /\ batches = {} /\ heard = {} /\ micro = <<>>
    /\ events = 0 /\ seen = {} /\ emptied = FALSE /\ refreshed = FALSE /\ overtaken = FALSE

Idle == micro = <<>>
Event == Idle /\ events < MaxEvents /\ events' = events + 1
------------------------------------------------------------------------------
(* The server, the air and the administrator. *)

Send(n, r) ==
    /\ Idle /\ Len(log) < MaxMsgs
    /\ log' = Append(log, [name |-> n, region |-> r, enc |-> n \in Psk \ approved])
    /\ UNCHANGED <<approved, batches, heard, paneVars, listVars, region, micro, events>>

Approve(n) ==
    /\ Event /\ n \in Psk \ approved
    /\ approved' = approved \cup {n}
    /\ UNCHANGED <<log, batches, heard, paneVars, listVars, region, micro>>

\* What a request for h under filter r can be answered with, of the first k.
Rest(h, r, k) == {i \in 1..k : /\ h = Srv(log[i].name) /\ InRegion(r, log[i].region)
                               /\ ~log[i].enc}
Decrypted(h, r, k) == {i \in 1..k : log[i].name = h.name /\ InRegion(r, log[i].region)}
------------------------------------------------------------------------------
(* Message requests. *)

\* isStaleMessageRequest
IsStale(q) == q.id # reqId \/ selected # q.hash \/ region # q.region

\* The bug of letting the answer replace what came over the socket.
MergeStomps(ms, rest) == [id : rest, ws : {FALSE}]

\* mergeWsAppendedIntoRest
Merge(ms, rest) == [id : rest, ws : {FALSE}] \cup {m \in ms : m.ws /\ m.id \notin rest}

HasKey(h) == h.name \in Psk /\ (h.kind = "user" \/ h.name \in Tagged)

\* The bug of opening a conversation on top of the previous one's messages.
OpenedWithKept(ms) == ms

\* What loadSelectedChannel starts from.
OpenedWith(ms) == {}

\* selectChannel up to its first await: the key's hash, the look-up that tells
\* an encrypted channel from one that is only not listed, or the messages.
Select(h) ==
    LET stage == IF HasKey(h) THEN "hash" ELSE IF h.name \in Tagged THEN "lookup" ELSE "fetch"
    IN /\ reqId' = reqId + 1 /\ pending' = reqId + 1
       /\ messages' = OpenedWith(messages) /\ selected' = h
       /\ reqs' = reqs \cup {[id |-> reqId + 1, hash |-> h, region |-> region, stage |-> stage,
                              from |-> 0]}
       /\ pane' = IF stage = "hash" THEN pane ELSE "loading"
       /\ seen' = {} /\ emptied' = FALSE /\ refreshed' = FALSE /\ overtaken' = FALSE

\* refreshMessages up to its await; the request goes to the server itself.
Refresh ==
    /\ reqId' = reqId + 1
    /\ reqs' = reqs \cup {[id |-> reqId + 1, hash |-> selected, region |-> region,
                           stage |-> "refresh", from |-> Len(log)]}
    /\ overtaken' = (overtaken \/ pane = "loading")
    /\ UNCHANGED <<selected, messages, pane, pending, seen, emptied, refreshed>>

Click(h) == Event /\ h \in rows /\ Select(h) /\ UNCHANGED <<netVars, listVars, region, micro>>

Finished(q) == /\ reqs' = reqs \ {q}
               /\ pending' = IF pending = q.id THEN 0 ELSE pending

\* A request that lost the pane ends without touching it, whatever its answer.
Superseded(q) ==
    /\ Idle /\ IsStale(q) /\ Finished(q)
    /\ UNCHANGED <<selected, messages, pane, reqId, seen, emptied, refreshed, overtaken,
                   netVars, listVars, region, micro, events>>

\* decryptAndRender: the cached messages are shown at once.
StartDecrypt(q) ==
    /\ Idle /\ q.stage = "hash" /\ ~IsStale(q)
    /\ \E k \in 0..Len(log) :
         LET cached == Decrypted(q.hash, q.region, k)
             shown == IF cached = {} THEN messages ELSE Merge(messages, cached)
         IN /\ reqs' = (reqs \ {q}) \cup {[q EXCEPT !.stage = "decrypt", !.from = k]}
            /\ messages' = shown
            /\ pane' = IF cached = {} THEN "loading" ELSE "messages"
    /\ UNCHANGED <<selected, reqId, pending, seen, emptied, refreshed, overtaken,
                   netVars, listVars, region, micro, events>>

\* The look-up says the channel is not encrypted, or fails.
LookupDone(q) ==
    /\ Idle /\ q.stage = "lookup" /\ ~IsStale(q)
    /\ reqs' = (reqs \ {q}) \cup {[q EXCEPT !.stage = "fetch"]}
    /\ pane' = "loading"
    /\ UNCHANGED <<selected, messages, reqId, pending, seen, emptied, refreshed, overtaken,
                   netVars, listVars, region, micro, events>>

\* The messages arrive, from the server or from api()'s cache, which is not
\* older than what an earlier answer to the same request left in the browser.
MessagesArrive(q) ==
    /\ Idle /\ q.stage \in {"fetch", "decrypt"} /\ ~IsStale(q) /\ Finished(q)
    /\ \E k \in q.from..Len(log) :
         LET got == IF q.stage = "fetch" THEN Rest(q.hash, q.region, k)
                                         ELSE Decrypted(q.hash, q.region, k)
         IN /\ messages' = Merge(messages, got)
            /\ pane' = IF messages' = {} /\ (q.stage = "decrypt" \/ q.region # All)
                       THEN "note" ELSE "messages"
    /\ UNCHANGED <<selected, reqId, seen, emptied, refreshed, overtaken, netVars, listVars, region, micro, events>>

MessagesFail(q) ==
    /\ Idle /\ q.stage \in {"fetch", "decrypt"} /\ ~IsStale(q) /\ Finished(q)
    /\ pane' = "note"
    /\ UNCHANGED <<selected, messages, reqId, seen, emptied, refreshed, overtaken,
                   netVars, listVars, region, micro, events>>

\* The refresh after a region switch: an empty answer empties the pane, one
\* that changes nothing is not rendered.
RefreshArrives(q) ==
    /\ Idle /\ q.stage = "refresh" /\ ~IsStale(q) /\ Finished(q)
    /\ \E k \in q.from..Len(log) :
         LET got == Rest(q.hash, q.region, k)
             merged == Merge(messages, got)
         IN \/ /\ q.region # All /\ got = {}
               /\ messages' = {} /\ pane' = "note" /\ emptied' = TRUE
            \/ /\ ~(q.region # All /\ got = {})
               /\ IF Ids(merged) = Ids(messages) THEN UNCHANGED <<messages, pane>>
                  ELSE messages' = merged /\ pane' = "messages"
               /\ UNCHANGED emptied
    /\ refreshed' = TRUE
    /\ UNCHANGED <<selected, reqId, seen, overtaken, netVars, listVars, region, micro, events>>

RefreshFails(q) ==
    /\ Idle /\ q.stage = "refresh" /\ ~IsStale(q) /\ Finished(q)
    /\ UNCHANGED <<selected, messages, pane, reqId, seen, emptied, refreshed, overtaken,
                   netVars, listVars, region, micro, events>>
------------------------------------------------------------------------------
(* The list. *)

\* loadChannels; had is what a request that goes past the caches must reflect.
StartLoad(had, then, route) ==
    /\ listId' = listId + 1
    /\ loads' = loads \cup {[id |-> listId + 1, region |-> region', had |-> had, then |-> then,
                             route |-> route]}
    /\ UNCHANGED <<waiting, listOf, listFailed>>

ChangeRegion(r) ==
    /\ Event /\ r # region /\ region' = r
    /\ StartLoad({}, "region", NoRow) /\ seen' = {}
    /\ UNCHANGED <<rows, selected, messages, pane, reqId, reqs, pending, emptied, refreshed, overtaken, netVars, micro>>

\* refreshChannelList, after an approval.
RefreshChannelList ==
    /\ Event /\ approved # {} /\ UNCHANGED region
    /\ StartLoad(approved, "none", NoRow)
    /\ UNCHANGED <<rows, paneVars, netVars, micro>>

\* navigate(): destroy() and init() with the channel of the address.
Navigate(h) ==
    /\ Event /\ UNCHANGED region
    /\ rows' = {} /\ messages' = {} /\ selected' = NoRow /\ pane' = "choose" /\ seen' = {}
    /\ StartLoad({}, "link", h)
    /\ UNCHANGED <<reqId, reqs, pending, emptied, refreshed, overtaken, netVars, micro>>

\* The bug of rendering every answer in the order it comes.
NewestAny(l) == TRUE

\* Only the newest request owns the list.
Newest(l) == l.id = listId

\* The rows of an answer: the server's for this filter and the shared ones,
\* then mergeUserChannels, which lists a stored key only under no other row.
Listed(l, known, k) ==
    LET srv == known \cup {n \in Public : l.region = All \/ \E i \in 1..k : log[i].name = n /\ log[i].region = l.region}
    IN {Srv(n) : n \in srv} \cup {User(n) : n \in Psk \ srv}

FollowUp(l) == IF l.then = "none" THEN <<>> ELSE <<[do |-> l.then, row |-> l.route]>>

\* The callbacks of a settled load and of the older ones that resolve with it.
Settled(l) == FollowUp(l) \o waiting

\* The bug of moving the selection while its load is on the way.
RestartsNever == FALSE

\* reconcileSelectionAfterChannelRefresh: the moved conversation's own load is
\* on the way and will find itself stale, so it must start again.
Restarts == pending # 0 /\ pending = reqId

\* The newest answer: the list is replaced and the selection follows it, to the
\* row that now stands for the same key, or is closed.
ListArrives(l) ==
    /\ Idle /\ Newest(l) /\ loads' = loads \ {l}
    /\ \E known \in {S \in SUBSET approved : l.had \subseteq S}, k \in 0..Len(log) :
         LET moved == Srv(selected.name)
             fresh == Listed(l, known, k)
         IN /\ rows' = fresh
            /\ \/ /\ selected = NoRow \/ selected \in fresh
                  /\ micro' = Settled(l)
                  /\ UNCHANGED <<selected, messages, pane, seen>>
               \/ /\ selected.kind = "user" /\ selected \notin fresh /\ moved \in fresh
                  /\ selected' = moved
                  /\ micro' = (IF Restarts THEN <<[do |-> "link", row |-> moved]>> ELSE <<>>) \o Settled(l)
                  /\ UNCHANGED <<messages, pane, seen>>
               \/ /\ selected.kind = "srv" /\ selected \notin fresh
                  /\ selected' = NoRow /\ messages' = {} /\ pane' = "choose" /\ seen' = {}
                  /\ micro' = Settled(l)
    /\ waiting' = <<>> /\ listOf' = [id |-> l.id, region |-> l.region]
    /\ UNCHANGED <<listId, listFailed, reqId, reqs, pending, emptied, refreshed, overtaken, netVars, region, events>>

ListFails(l) ==
    /\ Idle /\ Newest(l) /\ loads' = loads \ {l}
    /\ micro' = Settled(l) /\ waiting' = <<>> /\ listFailed' = l.id
    /\ UNCHANGED <<rows, listId, listOf, paneVars, netVars, region, events>>

\* An older request was answered, or failed: it resolves with the newest.
ListOvertaken(l) ==
    /\ Idle /\ ~Newest(l) /\ loads' = loads \ {l}
    /\ IF \E m \in loads : Newest(m)
       THEN waiting' = waiting \o FollowUp(l) /\ UNCHANGED micro
       ELSE micro' = FollowUp(l) /\ UNCHANGED waiting
    /\ UNCHANGED <<rows, listId, listOf, listFailed, paneVars, netVars, region, events>>

ListedEncrypted == selected \in rows /\ Encrypted(selected)

\* What the region handler does about the open conversation.
AfterSwitch == IF ListedEncrypted THEN Select(selected) ELSE Refresh

\* The region handler, and init()'s deep link, which lists stored keys first.
RunMicro ==
    /\ ~Idle /\ micro' = Tail(micro)
    /\ LET m == Head(micro)
       IN \/ /\ m.do = "link" /\ Select(m.row)
             /\ rows' = rows \cup {User(n) : n \in {p \in Psk : Srv(p) \notin rows}}
          \/ /\ m.do = "region" /\ UNCHANGED rows
             /\ \/ selected = NoRow /\ UNCHANGED paneVars
                \/ selected # NoRow /\ AfterSwitch
    /\ UNCHANGED <<listId, loads, waiting, listOf, listFailed, netVars, region, events>>
------------------------------------------------------------------------------
(* Live messages. *)

\* The socket's handler: the filter is read, then keys are tried on the message.
Hear(i) ==
    /\ Idle /\ i \notin heard
    /\ heard' = heard \cup {i} /\ batches' = batches \cup {[id |-> i, filter |-> region]}
    /\ UNCHANGED <<log, approved, paneVars, listVars, region, micro, events>>

\* The row a message belongs to: that of its stored key, if listed.
RowOf(i) == IF log[i].enc /\ User(log[i].name) \in rows THEN User(log[i].name) ELSE Srv(log[i].name)

\* processWSBatch, for a batch of one.
ShowLive(b) ==
    LET h == RowOf(b.id)
    IN /\ Idle /\ batches' = batches \ {b}
       /\ IF InRegion(b.filter, log[b.id].region)
          THEN /\ rows' = rows \cup {h}
               /\ IF selected = h
                  THEN /\ messages' = {m \in messages : m.id # b.id} \cup {[id |-> b.id, ws |-> TRUE]}
                       /\ pane' = "messages" /\ seen' = seen \cup {b.id}
                  ELSE UNCHANGED <<messages, pane, seen>>
          ELSE UNCHANGED <<rows, messages, pane, seen>>
       /\ UNCHANGED <<log, approved, heard, selected, reqId, reqs, pending, emptied, refreshed, overtaken,
                      listId, loads, waiting, listOf, listFailed, region, micro, events>>
------------------------------------------------------------------------------
PageNext ==
    \/ \E n \in Name, r \in Region : Send(n, r)
    \/ \E n \in Psk : Approve(n)
    \/ \E h \in Row : Click(h) \/ Navigate(h)
    \/ \E q \in reqs : \/ Superseded(q) \/ StartDecrypt(q) \/ LookupDone(q) \/ MessagesArrive(q)
                       \/ MessagesFail(q) \/ RefreshArrives(q) \/ RefreshFails(q)
    \/ \E r \in Region \cup {All} : ChangeRegion(r)
    \/ RefreshChannelList
    \/ \E l \in loads : ListArrives(l) \/ ListFails(l) \/ ListOvertaken(l)
    \/ RunMicro
    \/ \E i \in DOMAIN log : Hear(i)
    \/ \E b \in batches : ShowLive(b)

PageSpec == PageInit /\ [][PageNext]_pageVars
------------------------------------------------------------------------------
(* Properties. *)

\* The pane never holds a message of a channel other than the open one, however
\* late an answer or a live message arrives (isStaleMessageRequest, and the
\* reset in loadSelectedChannel before selectedHash changes).
OnlySelected == \A m \in messages : log[m.id].name = selected.name

\* A live message put in the pane stays there while the filter lets it pass,
\* whichever answers follow (mergeWsAppendedIntoRest), up to the branch of
\* refreshMessages that empties the pane and, for one only this browser's key
\* can read, to a refresh, which asks the server.
LiveKeptUnlessEmptied ==
    \A i \in seen : InRegion(region, log[i].region) =>
        i \in Ids(messages) \/ emptied \/ (log[i].enc /\ refreshed)

\* A request, or a callback that will make one, still stands behind a pane that
\* shows "Loading" or "Decrypting".
PaneSettles ==
    pane = "loading" =>
        \/ \E q \in reqs : ~IsStale(q)
        \/ \E l \in loads : l.then # "none"
        \/ micro # <<>> \/ (waiting # <<>> /\ \E l \in loads : Newest(l))

\* PaneSettles, up to a refresh that took over an unfinished load and then
\* failed or found nothing to render.
PaneSettlesUnlessOvertaken == overtaken \/ PaneSettles

\* Once the newest list request is answered, the sidebar shows its answer, for
\* the filter now selected, however the overlapping answers were ordered.
ListIsNewest ==
    \/ \E l \in loads : l.id = listId
    \/ listFailed = listId
    \/ listOf.id = listId /\ listOf.region = region
=============================================================================
