-------------------------------- MODULE WsHub --------------------------------
(***************************************************************************)
(* The WebSocket hub (cmd/server/websocket.go) with its upgrade limiter    *)
(* (ws_limits.go).  One Client is one connection attempt: ServeWS charges  *)
(* a slot, upgrades, registers and starts a read and a write pump; the     *)
(* slot is returned by whoever drops the client, through a sync.Once.      *)
(* Hub and limiter have a mutex each and none is held across the other, so *)
(* "removed from the hub" and "slot returned" are separate steps.          *)
(***************************************************************************)
EXTENDS Integers, FiniteSets

CONSTANTS Client,           \* connection attempts
          IP, ipOf,         \* their addresses, as clientIP resolves them
          Distinct,         \* the addresses that tell clients apart
          Denied,           \* the deny list
          MaxClients, MaxConnsPerIP, UpgradesPerMin,   \* 0 disables each
          Window, IdleGC,   \* wsUpgradeWindow and wsBucketIdleGC
          SendQueue,        \* slots of a client's send channel
          MaxTime           \* bound: how far the clock runs

ASSUME HubAssumption ==
    /\ IsFiniteSet(Client)
    /\ ipOf \in [Client -> IP]
    /\ Distinct \subseteq IP /\ Denied \subseteq IP
    /\ MaxClients \in Nat /\ MaxConnsPerIP \in Nat /\ UpgradesPerMin \in Nat
    /\ Window \in Nat /\ IdleGC \in Nat /\ SendQueue \in Nat /\ MaxTime \in Nat
    /\ Window <= IdleGC + 1  \* the code's constants are one minute and ten

VARIABLES
    pc,          \* per client, where ServeWS is
    clients,     \* Hub.clients
    queued,      \* per client, messages in its send channel
    sendClosed,  \* clients whose send channel is closed
    connected,   \* clients whose connection is up
    reader,      \* per client, where readPump is
    writer,      \* per client, whether writePump runs
    closing,     \* clients Hub.Close dropped and has yet to release
    hubClosed,   \* Hub.Close has run
    charged,     \* clients that were charged a slot
    released,    \* clients whose release func has run
    totalConns, conns,              \* the limiter's counters
    upgrades,    \* per address, the clients whose admissions its record lists
    admittedAt,  \* per client, the time that was listed for it
    lastSeenAt, known,              \* per address; known = keys of l.state
    now

hubVars == <<pc, clients, queued, sendClosed, connected, reader, writer, closing, hubClosed>>
slotVars == <<charged, released, totalConns, conns>>
rateVars == <<upgrades, admittedAt, lastSeenAt, known>>
vars == <<hubVars, slotVars, rateVars, now>>

PerIP(c) == (MaxConnsPerIP > 0 \/ UpgradesPerMin > 0) /\ ipOf[c] \in Distinct

\* With no limit to enforce, allow books nothing and its release is a no-op.
Charges(c) == PerIP(c) \/ MaxClients > 0

Holding == charged \ released
HoldingFrom(i) == {c \in Holding : PerIP(c) /\ ipOf[c] = i}

Init ==
    /\ pc = [c \in Client |-> "new"]
    /\ clients = {} /\ sendClosed = {} /\ connected = {} /\ closing = {}
    /\ hubClosed = FALSE
    /\ queued = [c \in Client |-> 0]
    /\ reader = [c \in Client |-> "none"]
    /\ writer = [c \in Client |-> "none"]
    /\ charged = {} /\ released = {}
    /\ totalConns = 0
    /\ conns = [i \in IP |-> 0]
    /\ upgrades = [i \in IP |-> {}]
    /\ admittedAt = [c \in Client |-> 0]
    /\ lastSeenAt = [i \in IP |-> 0]
    /\ known = {}
    /\ now = 0
------------------------------------------------------------------------------
\* allow, under l.mu: gcLocked first, then the limits in order; everything is
\* charged together or not at all.
InWindow(S) == {c \in S : admittedAt[c] > now - Window}

\* The bug of collecting a record as soon as its last client is gone.
CollectedEarly == {i \in known : conns[i] = 0}

Collected == {i \in known : conns[i] = 0 /\ now - lastSeenAt[i] > IdleGC}

\* The upgrades of address i that allow still counts: a record it has to make
\* anew lists none.
Recent(i) == IF i \in known \ Collected THEN InWindow(upgrades[i]) ELSE {}

\* The bug of reading the ceiling one off.
WithinOneMore(c) ==
    /\ PerIP(c) => /\ UpgradesPerMin > 0 => Cardinality(Recent(ipOf[c])) < UpgradesPerMin
                   /\ MaxConnsPerIP > 0 => conns[ipOf[c]] < MaxConnsPerIP
    /\ MaxClients > 0 => totalConns <= MaxClients

Within(c) ==
    /\ PerIP(c) => /\ UpgradesPerMin > 0 => Cardinality(Recent(ipOf[c])) < UpgradesPerMin
                   /\ MaxConnsPerIP > 0 => conns[ipOf[c]] < MaxConnsPerIP
    /\ MaxClients > 0 => totalConns < MaxClients

Allow(c) ==
    LET i == ipOf[c]
    IN  /\ pc[c] = "new"
        /\ i \notin Denied /\ Within(c)
        /\ pc' = [pc EXCEPT ![c] = "allowed"]
        /\ charged' = IF Charges(c) THEN charged \union {c} ELSE charged
        /\ totalConns' = IF Charges(c) THEN totalConns + 1 ELSE totalConns
        /\ conns' = IF PerIP(c) THEN [conns EXCEPT ![i] = @ + 1] ELSE conns
        /\ known' = (IF Charges(c) THEN known \ Collected ELSE known)
                        \union (IF PerIP(c) THEN {i} ELSE {})
        /\ lastSeenAt' = IF PerIP(c) THEN [lastSeenAt EXCEPT ![i] = now] ELSE lastSeenAt
        /\ upgrades' = IF PerIP(c) /\ UpgradesPerMin > 0
                       THEN [upgrades EXCEPT ![i] = Recent(i) \union {c}] ELSE upgrades
        /\ admittedAt' = [admittedAt EXCEPT ![c] = now]
        /\ UNCHANGED <<clients, queued, sendClosed, connected, reader, writer, closing,
                       hubClosed, released, now>>

\* A refusal; past the deny list the address is remembered all the same.
Reject(c) ==
    LET i == ipOf[c]
        limited == i \notin Denied
    IN  /\ pc[c] = "new"
        /\ i \in Denied \/ ~Within(c)
        /\ pc' = [pc EXCEPT ![c] = "refused"]
        /\ known' = IF limited THEN (known \ Collected) \union (IF PerIP(c) THEN {i} ELSE {})
                    ELSE known
        /\ lastSeenAt' = IF limited /\ PerIP(c) THEN [lastSeenAt EXCEPT ![i] = now]
                         ELSE lastSeenAt
        /\ upgrades' = IF limited /\ PerIP(c) /\ UpgradesPerMin > 0
                       THEN [upgrades EXCEPT ![i] = Recent(i)] ELSE upgrades
        /\ UNCHANGED <<clients, queued, sendClosed, connected, reader, writer, closing,
                       hubClosed, slotVars, now, admittedAt>>

\* The bug of a release func without its sync.Once.
ReleaseAgain(c) ==
    /\ released' = released \union {c}
    /\ IF c \in charged
       THEN /\ totalConns' = IF totalConns > 0 THEN totalConns - 1 ELSE 0
            /\ conns' = IF PerIP(c) /\ ipOf[c] \in known /\ conns[ipOf[c]] > 0
                        THEN [conns EXCEPT ![ipOf[c]] = @ - 1] ELSE conns
            /\ lastSeenAt' = IF PerIP(c) /\ ipOf[c] \in known /\ conns[ipOf[c]] > 0
                             THEN [lastSeenAt EXCEPT ![ipOf[c]] = now] ELSE lastSeenAt
       ELSE UNCHANGED <<totalConns, conns, lastSeenAt>>
    /\ UNCHANGED <<charged, upgrades, admittedAt, known, now>>

\* The release func: once per client, guarded against counters at zero.
Release(c) ==
    /\ released' = released \union {c}
    /\ IF c \in Holding
       THEN /\ totalConns' = IF totalConns > 0 THEN totalConns - 1 ELSE 0
            /\ conns' = IF PerIP(c) /\ ipOf[c] \in known /\ conns[ipOf[c]] > 0
                        THEN [conns EXCEPT ![ipOf[c]] = @ - 1] ELSE conns
            /\ lastSeenAt' = IF PerIP(c) /\ ipOf[c] \in known /\ conns[ipOf[c]] > 0
                             THEN [lastSeenAt EXCEPT ![ipOf[c]] = now] ELSE lastSeenAt
       ELSE UNCHANGED <<totalConns, conns, lastSeenAt>>
    /\ UNCHANGED <<charged, upgrades, admittedAt, known, now>>

\* The handshake fails: the slot goes back at once.
UpgradeFails(c) ==
    /\ pc[c] = "allowed"
    /\ pc' = [pc EXCEPT ![c] = "failed"]
    /\ Release(c)
    /\ UNCHANGED <<clients, queued, sendClosed, connected, reader, writer, closing, hubClosed>>

\* Upgrade, Register, and the two pumps.
Register(c) ==
    /\ pc[c] = "allowed"
    /\ pc' = [pc EXCEPT ![c] = "served"]
    /\ clients' = clients \union {c}
    /\ connected' = connected \union {c}
    /\ reader' = [reader EXCEPT ![c] = "reading"]
    /\ writer' = [writer EXCEPT ![c] = "running"]
    /\ UNCHANGED <<queued, sendClosed, closing, hubClosed, slotVars, rateVars, now>>
------------------------------------------------------------------------------
\* Broadcast, under h.mu.RLock: a full queue drops the message for that client.
Broadcast ==
    /\ clients # {}
    /\ queued' = [c \in Client |-> IF c \in clients /\ queued[c] < SendQueue
                                   THEN queued[c] + 1 ELSE queued[c]]
    /\ UNCHANGED <<pc, clients, sendClosed, connected, reader, writer, closing, hubClosed,
                   slotVars, rateVars, now>>

\* The peer goes away, or the 60 s read deadline passes without a pong.
PeerGone(c) ==
    /\ c \in connected
    /\ connected' = connected \ {c}
    /\ UNCHANGED <<pc, clients, queued, sendClosed, reader, writer, closing, hubClosed,
                   slotVars, rateVars, now>>

\* writePump: a write, a failing write, or a closed channel, which ends it
\* and closes the connection (after what is queued has been written).
WriteMessage(c) ==
    /\ writer[c] = "running" /\ queued[c] > 0 /\ c \in connected
    /\ queued' = [queued EXCEPT ![c] = @ - 1]
    /\ UNCHANGED <<pc, clients, sendClosed, connected, reader, writer, closing, hubClosed,
                   slotVars, rateVars, now>>

WriterEnds(c) ==
    /\ writer[c] = "running"
    /\ \/ c \notin connected
       \/ c \in sendClosed /\ queued[c] = 0
    /\ writer' = [writer EXCEPT ![c] = "ended"]
    /\ connected' = connected \ {c}
    /\ UNCHANGED <<pc, clients, queued, sendClosed, reader, closing, hubClosed,
                   slotVars, rateVars, now>>

\* The bug of closing the channel and leaving the map entry.
DropChannelOnly(c) == clients' = clients /\ sendClosed' = sendClosed \union {c}

\* Unregister under h.mu: the channel is closed only with the map entry.
Drop(c) == clients' = clients \ {c} /\ sendClosed' = sendClosed \union (clients \intersect {c})

\* readPump's read fails; its deferred Unregister begins ...
Unregister(c) ==
    /\ reader[c] = "reading" /\ c \notin connected
    /\ reader' = [reader EXCEPT ![c] = "releasing"]
    /\ Drop(c)
    /\ UNCHANGED <<pc, queued, connected, writer, closing, hubClosed, slotVars, rateVars, now>>

\* The bug of an Unregister that keeps the slot.
UnregisterKeepsSlot(c) ==
    /\ reader[c] = "releasing"
    /\ reader' = [reader EXCEPT ![c] = "ended"]
    /\ UNCHANGED <<pc, clients, queued, sendClosed, connected, writer, closing, hubClosed,
                   slotVars, rateVars, now>>

\* ... and returns the slot outside h.mu.
UnregisterRelease(c) ==
    /\ reader[c] = "releasing"
    /\ reader' = [reader EXCEPT ![c] = "ended"]
    /\ Release(c)
    /\ UNCHANGED <<pc, clients, queued, sendClosed, connected, writer, closing, hubClosed>>

\* Hub.Close: every client is dropped under h.mu ...
Close ==
    /\ ~hubClosed
    /\ hubClosed' = TRUE
    /\ clients' = {}
    /\ sendClosed' = sendClosed \union clients
    /\ closing' = clients
    /\ UNCHANGED <<pc, queued, connected, reader, writer, slotVars, rateVars, now>>

\* ... and released afterwards, one by one.
CloseRelease(c) ==
    /\ c \in closing
    /\ closing' = closing \ {c}
    /\ Release(c)
    /\ UNCHANGED <<pc, clients, queued, sendClosed, connected, reader, writer, hubClosed>>

Tick ==
    /\ now < MaxTime
    /\ now' = now + 1
    /\ UNCHANGED <<hubVars, slotVars, rateVars>>

Pumps(c) == WriteMessage(c) \/ WriterEnds(c) \/ Unregister(c) \/ UnregisterRelease(c)

Next ==
    \/ \E c \in Client :
          Allow(c) \/ Reject(c) \/ UpgradeFails(c) \/ Register(c) \/ PeerGone(c)
             \/ Pumps(c) \/ CloseRelease(c)
    \/ Broadcast \/ Close \/ Tick

Spec == Init /\ [][Next]_vars

\* A goroutine that can go on does: the pumps, and Close's loop.
FairSpec == Spec /\ \A c \in Client : WF_vars(Pumps(c)) /\ WF_vars(CloseRelease(c))
------------------------------------------------------------------------------
ServeState == {"new", "allowed", "refused", "failed", "served"}

\* Types.
TypeOK ==
    /\ pc \in [Client -> ServeState]
    /\ clients \subseteq Client /\ sendClosed \subseteq Client
    /\ connected \subseteq Client /\ closing \subseteq Client
    /\ hubClosed \in BOOLEAN
    /\ queued \in [Client -> 0 .. SendQueue]
    /\ reader \in [Client -> {"none", "reading", "releasing", "ended"}]
    /\ writer \in [Client -> {"none", "running", "ended"}]
    /\ charged \subseteq Client /\ released \subseteq Client
    /\ totalConns \in Nat /\ conns \in [IP -> Nat]
    /\ upgrades \in [IP -> SUBSET Client] /\ admittedAt \in [Client -> Nat]
    /\ lastSeenAt \in [IP -> Nat] /\ known \subseteq IP /\ now \in Nat

\* The limiter's counters are exactly the slots out: admissions, failed
\* upgrades, disconnects and Hub.Close, in any order, neither leak a slot nor
\* credit one twice.
SlotsAgree ==
    /\ totalConns = Cardinality(Holding)
    /\ \A i \in IP : conns[i] = Cardinality(HoldingFrom(i))

\* The #369 ceiling and the #1794 per-address cap, as the hub sees them:
\* every registered client holds a slot while any limit is on.
CapsHold ==
    /\ MaxClients > 0 => Cardinality(clients) <= MaxClients
    /\ MaxConnsPerIP > 0 =>
          \A i \in Distinct : Cardinality({c \in clients : ipOf[c] = i}) <= MaxConnsPerIP

\* Broadcast never sends on a closed channel, which would panic.
NoSendOnClosed == clients \intersect sendClosed = {}

\* Every client of address i that allow has ever let in, listed or not.
AdmittedFrom(i) == {c \in Client : ipOf[c] = i /\ pc[c] \in {"allowed", "failed", "served"}}

\* Over any window an address gets no more upgrades than its budget, although
\* its record may be collected in between.
RateHolds ==
    UpgradesPerMin > 0 =>
        \A i \in Distinct : Cardinality(InWindow(AdmittedFrom(i))) <= UpgradesPerMin

\* A client whose connection has ended leaves the hub and returns its slot, for
\* good.
SlotsComeBack ==
    \A c \in Client :
        <>[](pc[c] = "served" /\ c \notin connected => c \notin clients /\ c \notin Holding)

\* The limiter and the hub together implement the slot pool.
Pool == INSTANCE SlotPool WITH Max <- MaxClients, holding <- Holding,
                               returned <- charged \intersect released
ImplementsSlotPool == Pool!PoolSpec
==============================================================================
