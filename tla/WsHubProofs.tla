----------------------------- MODULE WsHubProofs -----------------------------
(***************************************************************************)
(* The limiter's books balance and Broadcast never meets a closed channel, *)
(* for any set of clients, any addresses and any limits.                   *)
(*                                                                         *)
(* SlotsAgree and NoSendOnClosed are not inductive: that release finds the *)
(* slot still out, and that a registered client is not yet released, comes *)
(* from the order in which a client is allowed, registered, dropped and    *)
(* released, which Life records.  RateHolds needs that gcLocked forgets an *)
(* address only when the window counts none of its admissions any more:    *)
(* SeenSince and ListedInWindow.                                           *)
(***************************************************************************)
EXTENDS WsHub, FiniteSetTheorems, TLAPS

\* The types the slot argument needs.
SlotTypes ==
    /\ pc \in [Client -> ServeState]
    /\ clients \subseteq Client /\ sendClosed \subseteq Client /\ closing \subseteq Client
    /\ reader \in [Client -> {"none", "reading", "releasing", "ended"}]
    /\ charged \subseteq Client /\ released \subseteq Client
    /\ totalConns \in Nat /\ conns \in [IP -> Nat]
    /\ known \subseteq IP

\* What has happened to a client by the time ServeWS is where it is.
Life ==
    \A c \in Client :
        /\ pc[c] = "new" => c \notin charged
        /\ pc[c] \in {"new", "allowed", "refused", "failed"} =>
              c \notin clients /\ c \notin sendClosed /\ c \notin closing /\ reader[c] = "none"
        /\ pc[c] \in {"new", "allowed", "refused"} => c \notin released
        /\ pc[c] \in {"allowed", "served"} /\ Charges(c) => c \in charged
        /\ c \in clients =>
              c \notin released /\ c \notin sendClosed /\ c \notin closing
                 /\ reader[c] = "reading"

\* A counted address has a record: gcLocked never drops it.
Recorded == \A i \in IP : conns[i] > 0 => i \in known

\* The ceilings, in terms of the limiter's own counters.
CountersCapped ==
    /\ MaxClients > 0 => totalConns <= MaxClients
    /\ MaxConnsPerIP > 0 => \A i \in IP : conns[i] <= MaxConnsPerIP

SlotInv == SlotTypes /\ Life /\ Recorded /\ SlotsAgree /\ CountersCapped
------------------------------------------------------------------------------
\* One more or one less slot out changes a finite set's size by one.
LEMMA AddOne ==
    ASSUME NEW S, NEW x, IsFiniteSet(S), x \notin S
    PROVE  Cardinality(S \union {x}) = Cardinality(S) + 1
BY FS_AddElement

LEMMA RemoveOne ==
    ASSUME NEW S, NEW x, IsFiniteSet(S), x \in S
    PROVE  /\ Cardinality(S \ {x}) = Cardinality(S) - 1
           /\ Cardinality(S) \in Nat \ {0}
<1>1. Cardinality(S \ {x}) = Cardinality(S) - 1
  BY FS_RemoveElement
<1>2. Cardinality(S) \in Nat
  BY FS_CardinalityType
<1>3. Cardinality(S) # 0
  BY FS_EmptySet
<1> QED
  BY <1>1, <1>2, <1>3

LEMMA HoldingFinite ==
    ASSUME SlotTypes
    PROVE  /\ IsFiniteSet(Holding)
           /\ \A i \in IP : IsFiniteSet(HoldingFrom(i))
<1>1. IsFiniteSet(Holding)
  BY FS_Subset, HubAssumption DEF Holding, SlotTypes
<1>2. \A i \in IP : HoldingFrom(i) \subseteq Holding
  BY DEF HoldingFrom
<1> QED
  BY <1>1, <1>2, FS_Subset
------------------------------------------------------------------------------
\* Initially nobody holds a slot (allow has not been called).
LEMMA InitSlots == Init => SlotInv
<1> SUFFICES ASSUME Init PROVE SlotInv
  OBVIOUS
<1>1. SlotTypes
  <2>1. /\ pc \in [Client -> ServeState]
        /\ reader \in [Client -> {"none", "reading", "releasing", "ended"}]
    BY DEF Init, ServeState
  <2>2. totalConns \in Nat /\ conns \in [IP -> Nat]
    BY DEF Init
  <2> QED
    BY <2>1, <2>2 DEF Init, SlotTypes
<1>2. Life
  BY DEF Init, Life
<1>3. Recorded /\ CountersCapped
  BY HubAssumption DEF Init, Recorded, CountersCapped
<1>4. Holding = {} /\ \A i \in IP : HoldingFrom(i) = {}
  BY DEF Init, Holding, HoldingFrom
<1>5. SlotsAgree
  BY <1>4, FS_EmptySet DEF Init, SlotsAgree
<1> QED
  BY <1>1, <1>2, <1>3, <1>5 DEF SlotInv
------------------------------------------------------------------------------
\* A call of allow that admits c books one slot, and keeps to the ceilings.
LEMMA AllowSlots ==
    ASSUME SlotInv, NEW c \in Client, Allow(c)
    PROVE  SlotsAgree' /\ Recorded' /\ CountersCapped'
           /\ totalConns' \in Nat /\ conns' \in [IP -> Nat]
<1> DEFINE i == ipOf[c]
<1>0. /\ SlotTypes /\ Life /\ Recorded /\ SlotsAgree /\ CountersCapped
      /\ i \in IP /\ c \notin charged /\ c \notin released
  BY HubAssumption DEF SlotInv, Allow, Life
<1>1. totalConns' \in Nat /\ conns' \in [IP -> Nat]
  BY <1>0 DEF SlotTypes, Allow
<1>2. /\ totalConns' = IF Charges(c) THEN totalConns + 1 ELSE totalConns
      /\ conns' = IF PerIP(c) THEN [conns EXCEPT ![i] = @ + 1] ELSE conns
      /\ Holding' = IF Charges(c) THEN Holding \union {c} ELSE Holding
      /\ c \notin Holding
  BY <1>0 DEF Allow, Holding
<1>3. totalConns' = Cardinality(Holding')
  BY <1>0, <1>2, AddOne, HoldingFinite DEF SlotsAgree
<1>4. ASSUME NEW k \in IP PROVE conns'[k] = Cardinality(HoldingFrom(k)')
  <2>1. CASE PerIP(c) /\ k = i
    <3>1. HoldingFrom(k)' = HoldingFrom(k) \union {c} /\ c \notin HoldingFrom(k)
      BY <1>2, <2>1 DEF HoldingFrom, Charges
    <3>2. conns'[k] = conns[k] + 1
      BY <1>0, <1>2, <2>1 DEF SlotTypes
    <3> QED
      BY <1>0, <3>1, <3>2, AddOne, HoldingFinite DEF SlotsAgree
  <2>2. CASE ~(PerIP(c) /\ k = i)
    <3>1. HoldingFrom(k)' = HoldingFrom(k)
      BY <1>2, <2>2 DEF HoldingFrom
    <3>2. conns'[k] = conns[k]
      BY <1>0, <1>2, <2>2 DEF SlotTypes
    <3> QED
      BY <1>0, <3>1, <3>2 DEF SlotsAgree
  <2> QED
    BY <2>1, <2>2
<1>5. Recorded'
  <2> SUFFICES ASSUME NEW k \in IP, conns'[k] > 0 PROVE k \in known'
    BY DEF Recorded
  <2>1. CASE PerIP(c) /\ k = i
    BY <2>1 DEF Allow
  <2>2. CASE ~(PerIP(c) /\ k = i)
    <3>1. conns[k] > 0
      BY <1>0, <1>2, <2>2 DEF SlotTypes
    <3>2. k \in known /\ k \notin Collected
      BY <1>0, <3>1 DEF Recorded, Collected, SlotTypes
    <3> QED
      BY <3>2 DEF Allow
  <2> QED
    BY <2>1, <2>2
<1>6. CountersCapped'
  <2>1. MaxClients > 0 => totalConns' <= MaxClients
    BY <1>0, <1>2, HubAssumption DEF CountersCapped, SlotTypes, Allow, Within
  <2>2. ASSUME MaxConnsPerIP > 0, NEW k \in IP PROVE conns'[k] <= MaxConnsPerIP
    BY <1>0, <1>2, <2>2, HubAssumption DEF CountersCapped, SlotTypes, Allow, Within
  <2> QED
    BY <2>1, <2>2 DEF CountersCapped
<1> QED
  BY <1>1, <1>3, <1>4, <1>5, <1>6 DEF SlotsAgree

\* The release func returns at most one slot, whoever calls it and how often.
LEMMA ReleaseSlots ==
    ASSUME SlotInv, NEW c \in Client, Release(c)
    PROVE  SlotsAgree' /\ Recorded' /\ CountersCapped'
           /\ totalConns' \in Nat /\ conns' \in [IP -> Nat]
<1> DEFINE i == ipOf[c]
<1>0. /\ SlotTypes /\ Recorded /\ SlotsAgree /\ CountersCapped /\ i \in IP
      /\ charged' = charged /\ known' = known /\ released' = released \union {c}
  BY HubAssumption DEF SlotInv, Release
<1>1. CASE c \in Holding
  <2>1. Holding' = Holding \ {c}
    BY <1>0, <1>1 DEF Holding
  <2>2. totalConns' = totalConns - 1 /\ totalConns > 0
    <3>1. Cardinality(Holding) \in Nat \ {0}
      BY <1>0, <1>1, RemoveOne, HoldingFinite
    <3>2. totalConns = Cardinality(Holding)
      BY <1>0 DEF SlotsAgree
    <3> QED
      BY <1>1, <3>1, <3>2 DEF Release
  <2>3. totalConns' = Cardinality(Holding')
    BY <1>0, <1>1, <2>1, <2>2, RemoveOne, HoldingFinite DEF SlotsAgree
  <2>4. PerIP(c) => conns[i] > 0 /\ i \in known
    <3> SUFFICES ASSUME PerIP(c) PROVE conns[i] > 0 /\ i \in known
      OBVIOUS
    <3>1. c \in HoldingFrom(i)
      BY <1>1 DEF HoldingFrom
    <3>2. IsFiniteSet(HoldingFrom(i))
      BY <1>0, HoldingFinite
    <3>3. Cardinality(HoldingFrom(i)) \in Nat \ {0}
      BY <3>1, <3>2, RemoveOne
    <3>4. conns[i] = Cardinality(HoldingFrom(i))
      BY <1>0 DEF SlotsAgree
    <3> QED
      BY <1>0, <3>3, <3>4 DEF Recorded
  <2>5. conns' = IF PerIP(c) THEN [conns EXCEPT ![i] = @ - 1] ELSE conns
    BY <1>1, <2>4 DEF Release
  <2>6. ASSUME NEW k \in IP
        PROVE  conns'[k] = Cardinality(HoldingFrom(k)') /\ conns'[k] \in Nat
                  /\ conns'[k] <= conns[k]
    <3>1. CASE PerIP(c) /\ k = i
      <4>1. HoldingFrom(k)' = HoldingFrom(k) \ {c} /\ c \in HoldingFrom(k)
        BY <1>1, <2>1, <3>1 DEF HoldingFrom
      <4>2. conns'[k] = conns[k] - 1 /\ conns[k] \in Nat /\ conns[k] > 0
        BY <1>0, <2>4, <2>5, <3>1 DEF SlotTypes
      <4>3. conns'[k] = Cardinality(HoldingFrom(k)')
        BY <1>0, <4>1, <4>2, RemoveOne, HoldingFinite DEF SlotsAgree
      <4> QED
        BY <4>2, <4>3
    <3>2. CASE ~(PerIP(c) /\ k = i)
      <4>1. HoldingFrom(k)' = HoldingFrom(k)
        BY <2>1, <3>2 DEF HoldingFrom
      <4>2. conns'[k] = conns[k] /\ conns[k] \in Nat
        BY <1>0, <2>5, <3>2 DEF SlotTypes
      <4> QED
        BY <1>0, <4>1, <4>2 DEF SlotsAgree
    <3> QED
      BY <3>1, <3>2
  <2>7. conns' \in [IP -> Nat] /\ totalConns' \in Nat
    BY <1>0, <2>2, <2>5, <2>6 DEF SlotTypes
  <2>8. Recorded'
    BY <1>0, <2>6 DEF Recorded, SlotTypes
  <2>9. CountersCapped'
    BY <1>0, <2>2, <2>6, HubAssumption DEF CountersCapped, SlotTypes
  <2> QED
    BY <2>3, <2>6, <2>7, <2>8, <2>9 DEF SlotsAgree
<1>2. CASE c \notin Holding
  <2>1. Holding' = Holding /\ \A k \in IP : HoldingFrom(k)' = HoldingFrom(k)
    BY <1>0, <1>2 DEF Holding, HoldingFrom
  <2>2. UNCHANGED <<totalConns, conns>>
    BY <1>2 DEF Release
  <2> QED
    BY <1>0, <2>1, <2>2 DEF SlotsAgree, Recorded, CountersCapped, SlotTypes
<1> QED
  BY <1>1, <1>2
------------------------------------------------------------------------------
\* The steps that leave the limiter's counters and records alone.
LEMMA QuietSlots ==
    ASSUME SlotInv, UNCHANGED slotVars, known' = known
    PROVE  SlotsAgree' /\ Recorded' /\ CountersCapped'
           /\ totalConns' \in Nat /\ conns' \in [IP -> Nat]
BY DEF SlotInv, SlotTypes, slotVars, SlotsAgree, Recorded, CountersCapped, Holding, HoldingFrom

\* A refusal books nothing, and gcLocked spares every counted address.
LEMMA RejectSlots ==
    ASSUME SlotInv, NEW c \in Client, Reject(c)
    PROVE  SlotsAgree' /\ Recorded' /\ CountersCapped'
           /\ totalConns' \in Nat /\ conns' \in [IP -> Nat]
<1>1. UNCHANGED slotVars
  BY DEF Reject
<1>2. \A k \in IP : conns[k] > 0 => k \in known /\ k \notin Collected
  BY DEF SlotInv, SlotTypes, Recorded, Collected
<1>3. Recorded'
  BY <1>1, <1>2 DEF Reject, Recorded, slotVars
<1> QED
  BY <1>1, <1>3 DEF SlotInv, SlotTypes, slotVars, SlotsAgree, CountersCapped, Holding, HoldingFrom

\* The limiter's part of the invariant, over every step.
LEMMA BooksStep ==
    ASSUME SlotInv, [Next]_vars
    PROVE  SlotsAgree' /\ Recorded' /\ CountersCapped'
           /\ totalConns' \in Nat /\ conns' \in [IP -> Nat]
<1>1. CASE UNCHANGED slotVars /\ known' = known
  BY <1>1, QuietSlots
<1>2. ASSUME NEW c \in Client, Allow(c)
      PROVE  SlotsAgree' /\ Recorded' /\ CountersCapped'
             /\ totalConns' \in Nat /\ conns' \in [IP -> Nat]
  BY <1>2, AllowSlots
<1>3. ASSUME NEW c \in Client, Reject(c)
      PROVE  SlotsAgree' /\ Recorded' /\ CountersCapped'
             /\ totalConns' \in Nat /\ conns' \in [IP -> Nat]
  BY <1>3, RejectSlots
<1>4. ASSUME NEW c \in Client, Release(c)
      PROVE  SlotsAgree' /\ Recorded' /\ CountersCapped'
             /\ totalConns' \in Nat /\ conns' \in [IP -> Nat]
  BY <1>4, ReleaseSlots
<1>5. ASSUME NEW c \in Client, UpgradeFails(c) \/ UnregisterRelease(c) \/ CloseRelease(c)
      PROVE  Release(c)
  BY <1>5 DEF UpgradeFails, UnregisterRelease, CloseRelease
<1>6. ASSUME NEW c \in Client,
             Register(c) \/ PeerGone(c) \/ WriteMessage(c) \/ WriterEnds(c) \/ Unregister(c)
      PROVE  UNCHANGED slotVars /\ known' = known
  BY <1>6 DEF Register, PeerGone, WriteMessage, WriterEnds, Unregister, slotVars, rateVars
<1>7. ASSUME Broadcast \/ Close \/ Tick \/ UNCHANGED vars
      PROVE  UNCHANGED slotVars /\ known' = known
  BY <1>7 DEF Broadcast, Close, Tick, slotVars, rateVars, vars
<1> QED
  BY <1>1, <1>2, <1>3, <1>4, <1>5, <1>6, <1>7 DEF Next, Pumps
------------------------------------------------------------------------------
\* The hub's part of SlotTypes.
HubTypes ==
    /\ pc \in [Client -> ServeState]
    /\ clients \subseteq Client /\ sendClosed \subseteq Client /\ closing \subseteq Client
    /\ reader \in [Client -> {"none", "reading", "releasing", "ended"}]
    /\ charged \subseteq Client /\ released \subseteq Client
    /\ known \subseteq IP

\* What every step preserves of the order in which a client is allowed,
\* registered, dropped and released.
LEMMA LifeStep ==
    ASSUME SlotInv, [Next]_vars
    PROVE  HubTypes' /\ Life'
<1>0. HubTypes /\ Life /\ \A c \in Client : ipOf[c] \in IP
  BY HubAssumption DEF SlotInv, SlotTypes, HubTypes
<1>1. ASSUME NEW c \in Client, Allow(c) PROVE HubTypes' /\ Life'
  <2>1. HubTypes'
    BY <1>0, <1>1 DEF HubTypes, ServeState, Allow
  <2>2. Life'
    BY <1>0, <1>1 DEF HubTypes, Life, Charges, PerIP, Allow
  <2> QED
    BY <2>1, <2>2
<1>2. ASSUME NEW c \in Client, Reject(c) PROVE HubTypes' /\ Life'
  <2>1. HubTypes'
    BY <1>0, <1>2 DEF HubTypes, ServeState, Reject, slotVars
  <2>2. Life'
    BY <1>0, <1>2 DEF HubTypes, Life, Charges, PerIP, Reject, slotVars
  <2> QED
    BY <2>1, <2>2
<1>3. ASSUME NEW c \in Client, UpgradeFails(c) PROVE HubTypes' /\ Life'
  <2>1. HubTypes'
    BY <1>0, <1>3 DEF HubTypes, ServeState, UpgradeFails, Release
  <2>2. Life'
    BY <1>0, <1>3 DEF HubTypes, Life, Charges, PerIP, UpgradeFails, Release
  <2> QED
    BY <2>1, <2>2
<1>4. ASSUME NEW c \in Client, Register(c) PROVE HubTypes' /\ Life'
  <2>1. HubTypes'
    BY <1>0, <1>4 DEF HubTypes, ServeState, Register, slotVars, rateVars
  <2>2. Life'
    BY <1>0, <1>4 DEF HubTypes, Life, Charges, PerIP, Register, slotVars
  <2> QED
    BY <2>1, <2>2
<1>5. ASSUME NEW c \in Client, PeerGone(c) \/ WriteMessage(c) \/ WriterEnds(c)
      PROVE  HubTypes' /\ Life'
  BY <1>0, <1>5 DEF HubTypes, Life, Charges, PerIP, PeerGone, WriteMessage, WriterEnds,
                    slotVars, rateVars
<1>6. ASSUME NEW c \in Client, Unregister(c) PROVE HubTypes' /\ Life'
  <2>1. HubTypes'
    BY <1>0, <1>6 DEF HubTypes, Unregister, Drop, slotVars, rateVars
  <2>2. Life'
    BY <1>0, <1>6 DEF HubTypes, ServeState, Life, Charges, PerIP, Unregister, Drop, slotVars
  <2> QED
    BY <2>1, <2>2
<1>7. ASSUME NEW c \in Client, UnregisterRelease(c) PROVE HubTypes' /\ Life'
  <2>1. HubTypes'
    BY <1>0, <1>7 DEF HubTypes, UnregisterRelease, Release
  <2>2. Life'
    BY <1>0, <1>7 DEF HubTypes, ServeState, Life, Charges, PerIP, UnregisterRelease, Release
  <2> QED
    BY <2>1, <2>2
<1>8. ASSUME NEW c \in Client, CloseRelease(c) PROVE HubTypes' /\ Life'
  <2>1. HubTypes'
    BY <1>0, <1>8 DEF HubTypes, CloseRelease, Release
  <2>2. Life'
    BY <1>0, <1>8 DEF HubTypes, ServeState, Life, Charges, PerIP, CloseRelease, Release
  <2> QED
    BY <2>1, <2>2
<1>9. ASSUME Broadcast \/ Tick \/ UNCHANGED vars PROVE HubTypes' /\ Life'
  BY <1>0, <1>9 DEF HubTypes, Life, Charges, PerIP, Broadcast, Tick, vars, hubVars,
                    slotVars, rateVars
<1>10. ASSUME Close PROVE HubTypes' /\ Life'
  <2>1. HubTypes'
    BY <1>0, <1>10 DEF HubTypes, Close, slotVars, rateVars
  <2>2. Life'
    BY <1>0, <1>10 DEF HubTypes, ServeState, Life, Charges, PerIP, Close, slotVars
  <2> QED
    BY <2>1, <2>2
<1> QED
  BY <1>1, <1>2, <1>3, <1>4, <1>5, <1>6, <1>7, <1>8, <1>9, <1>10 DEF Next, Pumps

\* SlotInv is inductive.
LEMMA SlotInvStep == SlotInv /\ [Next]_vars => SlotInv'
<1> SUFFICES ASSUME SlotInv, [Next]_vars PROVE SlotInv'
  OBVIOUS
<1>1. HubTypes' /\ Life'
  BY LifeStep
<1>2. /\ SlotsAgree' /\ Recorded' /\ CountersCapped'
      /\ totalConns' \in Nat /\ conns' \in [IP -> Nat]
  BY BooksStep
<1>3. SlotTypes'
  BY <1>1, <1>2 DEF HubTypes, SlotTypes
<1> QED
  BY <1>1, <1>2, <1>3 DEF SlotInv
------------------------------------------------------------------------------
\* The inductive invariant holds in every reachable state.
THEOREM SlotInvariant == Spec => []SlotInv
BY InitSlots, SlotInvStep, PTL DEF Spec

\* No order of admissions, failed upgrades, disconnects and Hub.Close leaks a
\* slot or returns one twice.
THEOREM SlotsAgreeHolds == Spec => []SlotsAgree
BY SlotInvariant, PTL DEF SlotInv

\* Broadcast never sends on a closed channel: Unregister and Close take the
\* client out of the map in the step that closes it.
THEOREM NoSendOnClosedHolds == Spec => []NoSendOnClosed
<1>1. SlotInv => NoSendOnClosed
  BY DEF SlotInv, SlotTypes, Life, NoSendOnClosed
<1> QED
  BY <1>1, SlotInvariant, PTL

\* The hub never serves more clients than the ceiling, nor more from one
\* address than its cap: a registered client's slot is still out.
THEOREM CapsHoldHolds == Spec => []CapsHold
<1>1. ASSUME SlotInv PROVE CapsHold
  <2>0. SlotTypes /\ Life /\ SlotsAgree /\ CountersCapped
    BY <1>1 DEF SlotInv
  <2>1. ASSUME NEW c \in clients, Charges(c) PROVE c \in Holding
    BY <2>0, <2>1 DEF SlotTypes, ServeState, Life, Holding
  <2>2. ASSUME MaxClients > 0 PROVE Cardinality(clients) <= MaxClients
    <3>1. clients \subseteq Holding
      BY <2>1, <2>2 DEF Charges
    <3>2. /\ Cardinality(clients) <= Cardinality(Holding)
          /\ Cardinality(clients) \in Nat /\ Cardinality(Holding) \in Nat
      BY <2>0, <3>1, HoldingFinite, FS_Subset, FS_CardinalityType
    <3> QED
      BY <2>0, <2>2, <3>2, HubAssumption DEF SlotsAgree, CountersCapped
  <2>3. ASSUME MaxConnsPerIP > 0, NEW i \in Distinct
        PROVE  Cardinality({c \in clients : ipOf[c] = i}) <= MaxConnsPerIP
    <3> DEFINE here == {c \in clients : ipOf[c] = i}
    <3>1. i \in IP
      BY HubAssumption
    <3>2. \A c \in here : PerIP(c)
      BY <2>3 DEF PerIP
    <3>3. here \subseteq HoldingFrom(i)
      BY <2>1, <3>2 DEF Charges, HoldingFrom
    <3>4. IsFiniteSet(HoldingFrom(i))
      BY <2>0, <3>1, HoldingFinite
    <3>5. /\ Cardinality(here) <= Cardinality(HoldingFrom(i))
          /\ Cardinality(here) \in Nat /\ Cardinality(HoldingFrom(i)) \in Nat
      BY <3>3, <3>4, FS_Subset, FS_CardinalityType
    <3>6. Cardinality(HoldingFrom(i)) <= MaxConnsPerIP
      BY <2>0, <2>3, <3>1 DEF SlotsAgree, CountersCapped
    <3> QED
      BY <3>5, <3>6, HubAssumption
  <2> QED
    BY <2>2, <2>3 DEF CapsHold
<1> QED
  BY <1>1, SlotInvariant, PTL
------------------------------------------------------------------------------
\* The limiter and the hub implement the slot pool: an admission is Take, the
\* first call of a release func is Return, and nothing else is seen.
THEOREM Refinement == Spec => ImplementsSlotPool
<1> USE DEF Pool!poolVars
<1>1. Init => Pool!PoolInit
  BY DEF Init, Pool!PoolInit, Holding
<1>2. SlotInv /\ [Next]_vars => [Pool!PoolNext]_Pool!poolVars
  <2> SUFFICES ASSUME SlotInv, [Next]_vars PROVE [Pool!PoolNext]_Pool!poolVars
    OBVIOUS
  <2>1. ASSUME NEW c \in Client, Allow(c) PROVE [Pool!PoolNext]_Pool!poolVars
    <3>1. c \notin charged /\ c \notin released /\ released' = released
      BY <2>1 DEF SlotInv, Life, Allow
    <3>2. CASE Charges(c)
      <4>1. charged' = charged \union {c}
        BY <2>1, <3>2 DEF Allow
      <4>2. MaxClients > 0 => Cardinality(Holding) < MaxClients
        BY <2>1 DEF SlotInv, SlotsAgree, Allow, Within
      <4>3. /\ Holding' = Holding \union {c} /\ c \notin Holding
            /\ (charged \intersect released)' = charged \intersect released
            /\ c \notin charged \intersect released
        BY <3>1, <4>1 DEF Holding
      <4>4. Pool!Cardinality(Holding) = Cardinality(Holding)
        BY DEF Pool!Cardinality, Cardinality, Pool!IsFiniteSet, IsFiniteSet
      <4>5. Pool!Take(c)
        BY <4>2, <4>3, <4>4 DEF Pool!Take
      <4> QED
        BY <4>5 DEF Pool!PoolNext
    <3>3. CASE ~Charges(c)
      BY <2>1, <3>1, <3>3 DEF Allow, Holding
    <3> QED
      BY <3>2, <3>3
  <2>2. ASSUME NEW c \in Client, Release(c) PROVE [Pool!PoolNext]_Pool!poolVars
    <3>1. charged' = charged /\ released' = released \union {c}
      BY <2>2 DEF Release
    <3>2. CASE c \in Holding
      <4>1. Holding' = Holding \ {c}
        BY <3>1, <3>2 DEF Holding
      <4>2. (charged \intersect released)' = (charged \intersect released) \union {c}
        BY <3>1, <3>2 DEF Holding
      <4>3. Pool!Return(c)
        BY <3>2, <4>1, <4>2 DEF Pool!Return
      <4> QED
        BY <4>3 DEF Pool!PoolNext
    <3>3. CASE c \notin Holding
      BY <3>1, <3>3 DEF Holding
    <3> QED
      BY <3>2, <3>3
  <2>3. CASE UNCHANGED slotVars
    BY <2>3 DEF slotVars, Holding
  <2>4. ASSUME NEW c \in Client, UpgradeFails(c) \/ UnregisterRelease(c) \/ CloseRelease(c)
        PROVE  Release(c)
    BY <2>4 DEF UpgradeFails, UnregisterRelease, CloseRelease
  <2>5. ASSUME NEW c \in Client, \/ Reject(c) \/ Register(c) \/ PeerGone(c)
                                 \/ WriteMessage(c) \/ WriterEnds(c) \/ Unregister(c)
        PROVE  UNCHANGED slotVars
    BY <2>5 DEF Reject, Register, PeerGone, WriteMessage, WriterEnds, Unregister, slotVars
  <2>6. ASSUME Broadcast \/ Close \/ Tick \/ UNCHANGED vars PROVE UNCHANGED slotVars
    BY <2>6 DEF Broadcast, Close, Tick, slotVars, vars
  <2> QED
    BY <2>1, <2>2, <2>3, <2>4, <2>5, <2>6 DEF Next, Pumps
<1> QED
  BY <1>1, <1>2, SlotInvariant, PTL DEF Spec, ImplementsSlotPool, Pool!PoolSpec

------------------------------------------------------------------------------
\* The types the rate argument needs.
RateTypes ==
    /\ pc \in [Client -> ServeState]
    /\ upgrades \in [IP -> SUBSET Client]
    /\ admittedAt \in [Client -> Nat] /\ lastSeenAt \in [IP -> Nat] /\ now \in Nat

\* An address was last seen no earlier than any of its admissions, so a record
\* idle for wsBucketIdleGC lists nothing the window still counts.
SeenSince ==
    \A i \in Distinct : \A c \in AdmittedFrom(i) : admittedAt[c] <= lastSeenAt[i]

\* No address was seen in the future.
ClockAhead == \A i \in IP : lastSeenAt[i] <= now

\* What the window counts is still on record.
ListedInWindow ==
    \A i \in Distinct : \A c \in InWindow(AdmittedFrom(i)) : i \in known /\ c \in upgrades[i]

RateInv ==
    RateTypes /\ ClockAhead /\ (UpgradesPerMin > 0 => SeenSince /\ ListedInWindow) /\ RateHolds

\* allow counts every admission of the window, although gcLocked ran first.
LEMMA RecentCovers ==
    ASSUME RateInv, UpgradesPerMin > 0, NEW i \in Distinct
    PROVE  InWindow(AdmittedFrom(i)) \subseteq Recent(i)
<1> SUFFICES ASSUME NEW c \in InWindow(AdmittedFrom(i)) PROVE c \in Recent(i)
  OBVIOUS
<1>0. RateTypes /\ SeenSince /\ ListedInWindow /\ i \in IP
  BY HubAssumption DEF RateInv
<1>1. c \in AdmittedFrom(i) /\ c \in Client /\ admittedAt[c] > now - Window
  BY DEF InWindow, AdmittedFrom
<1>2. i \in known /\ c \in upgrades[i]
  BY <1>0 DEF ListedInWindow
<1>3. admittedAt[c] <= lastSeenAt[i]
  BY <1>0, <1>1 DEF SeenSince
<1>4. ~(now - lastSeenAt[i] > IdleGC)
  BY <1>0, <1>1, <1>3, HubAssumption DEF RateTypes
<1> QED
  BY <1>1, <1>2, <1>4 DEF Recent, Collected, InWindow

\* A step that admits nobody and only moves times forward: what the window
\* counts afterwards it counted before.
LEMMA WindowShrinks ==
    ASSUME RateInv, RateTypes', now' >= now,
           \A c \in Client : pc'[c] \in {"allowed", "failed", "served"} =>
                                pc[c] \in {"allowed", "failed", "served"},
           admittedAt' = admittedAt
    PROVE  /\ \A i \in IP : AdmittedFrom(i)' \subseteq AdmittedFrom(i)
           /\ \A i \in IP : InWindow(AdmittedFrom(i))' \subseteq InWindow(AdmittedFrom(i))
           /\ RateHolds'
<1>1. \A i \in IP : AdmittedFrom(i)' \subseteq AdmittedFrom(i)
  BY DEF AdmittedFrom
<1>2. ASSUME NEW i \in IP, NEW c \in InWindow(AdmittedFrom(i))'
      PROVE  c \in InWindow(AdmittedFrom(i))
  <2>1. c \in Client /\ c \in AdmittedFrom(i) /\ admittedAt[c] > now' - Window
    BY <1>1, <1>2 DEF InWindow, AdmittedFrom
  <2>2. admittedAt[c] \in Nat /\ now \in Nat /\ now' \in Nat
    BY <2>1 DEF RateInv, RateTypes
  <2>3. admittedAt[c] > now - Window
    BY <2>1, <2>2, HubAssumption
  <2> QED
    BY <2>1, <2>3 DEF InWindow
<1>3. RateHolds'
  <2> SUFFICES ASSUME UpgradesPerMin > 0, NEW i \in Distinct
               PROVE  Cardinality(InWindow(AdmittedFrom(i))') <= UpgradesPerMin
    BY DEF RateHolds
  <2>1. i \in IP /\ InWindow(AdmittedFrom(i))' \subseteq InWindow(AdmittedFrom(i))
    BY <1>2, HubAssumption
  <2>2. InWindow(AdmittedFrom(i)) \subseteq Client
    BY DEF InWindow, AdmittedFrom
  <2>3. IsFiniteSet(InWindow(AdmittedFrom(i)))
    BY <2>2, FS_Subset, HubAssumption
  <2>4. /\ Cardinality(InWindow(AdmittedFrom(i))') <= Cardinality(InWindow(AdmittedFrom(i)))
        /\ Cardinality(InWindow(AdmittedFrom(i))') \in Nat
        /\ Cardinality(InWindow(AdmittedFrom(i))) \in Nat
    BY <2>1, <2>3, FS_Subset, FS_CardinalityType
  <2>5. Cardinality(InWindow(AdmittedFrom(i))) <= UpgradesPerMin
    BY DEF RateInv, RateHolds
  <2> QED
    BY <2>4, <2>5, HubAssumption
<1> QED
  BY <1>1, <1>2, <1>3

\* The steps that touch no record: releases, pumps, the hub, the clock.
LEMMA QuietRate ==
    ASSUME RateInv, pc' \in [Client -> ServeState], now' \in Nat, now' >= now,
           \A c \in Client : pc'[c] \in {"allowed", "failed", "served"} =>
                                pc[c] \in {"allowed", "failed", "served"},
           UNCHANGED <<upgrades, admittedAt, known>>,
           lastSeenAt' \in [IP -> Nat],
           \A i \in IP : lastSeenAt'[i] >= lastSeenAt[i] /\ lastSeenAt'[i] <= now'
    PROVE  RateInv'
<1>1. RateTypes'
  BY DEF RateInv, RateTypes
<1>2. /\ \A i \in IP : AdmittedFrom(i)' \subseteq AdmittedFrom(i)
      /\ \A i \in IP : InWindow(AdmittedFrom(i))' \subseteq InWindow(AdmittedFrom(i))
      /\ RateHolds'
  BY <1>1, WindowShrinks
<1>3. ASSUME UpgradesPerMin > 0 PROVE SeenSince' /\ ListedInWindow'
  <2>0. RateTypes /\ SeenSince /\ ListedInWindow /\ Distinct \subseteq IP
    BY <1>3, HubAssumption DEF RateInv
  <2>1. ASSUME NEW i \in Distinct, NEW c \in AdmittedFrom(i)'
        PROVE  admittedAt'[c] <= lastSeenAt'[i]
    <3>1. c \in Client /\ c \in AdmittedFrom(i) /\ i \in IP
      BY <1>2, <2>0, <2>1 DEF AdmittedFrom
    <3>2. admittedAt[c] <= lastSeenAt[i]
      BY <2>0, <3>1 DEF SeenSince
    <3> QED
      BY <2>0, <3>1, <3>2 DEF RateTypes
  <2>2. SeenSince'
    BY <2>1 DEF SeenSince
  <2>3. ListedInWindow'
    BY <1>2, <2>0 DEF ListedInWindow
  <2> QED
    BY <2>2, <2>3
<1>4. ClockAhead'
  BY DEF ClockAhead
<1> QED
  BY <1>1, <1>2, <1>3, <1>4 DEF RateInv

\* A refusal drops only what the window no longer counts.
LEMMA RejectRate ==
    ASSUME RateInv, NEW c \in Client, Reject(c)
    PROVE  RateInv'
<1>0. RateTypes /\ ClockAhead /\ ipOf[c] \in IP /\ Distinct \subseteq IP
  BY HubAssumption DEF RateInv
<1>1. \A i \in IP : Recent(i) \subseteq Client
  BY <1>0 DEF Recent, InWindow, RateTypes
<1>2. RateTypes'
  BY <1>0, <1>1 DEF RateTypes, ServeState, Reject
<1>3. now' = now /\ admittedAt' = admittedAt
  BY DEF Reject
<1>4. \A d \in Client : pc'[d] \in {"allowed", "failed", "served"} =>
                           pc[d] \in {"allowed", "failed", "served"}
  BY <1>0 DEF RateTypes, Reject
<1>5. /\ \A i \in IP : AdmittedFrom(i)' \subseteq AdmittedFrom(i)
      /\ \A i \in IP : InWindow(AdmittedFrom(i))' \subseteq InWindow(AdmittedFrom(i))
      /\ RateHolds'
  BY <1>0, <1>2, <1>3, <1>4, WindowShrinks DEF RateTypes
<1>7. \A i \in IP : lastSeenAt'[i] = lastSeenAt[i] \/ lastSeenAt'[i] = now
  BY <1>0 DEF RateTypes, Reject
<1>8. \A i \in IP : lastSeenAt'[i] <= now /\ lastSeenAt[i] <= lastSeenAt'[i]
  BY <1>0, <1>7 DEF ClockAhead, RateTypes
<1>9. ClockAhead'
  BY <1>3, <1>8 DEF ClockAhead
<1>6. ASSUME UpgradesPerMin > 0 PROVE SeenSince' /\ ListedInWindow'
  <2>0. SeenSince /\ ListedInWindow
    BY <1>6 DEF RateInv
  <2>3. ASSUME NEW i \in Distinct, NEW d \in AdmittedFrom(i)'
        PROVE  admittedAt'[d] <= lastSeenAt'[i]
    <3>1. d \in Client /\ d \in AdmittedFrom(i) /\ i \in IP
      BY <1>0, <1>5, <2>3 DEF AdmittedFrom
    <3>2. admittedAt[d] <= lastSeenAt[i]
      BY <2>0, <3>1 DEF SeenSince
    <3> QED
      BY <1>0, <1>2, <1>3, <1>8, <3>1, <3>2 DEF RateTypes
  <2>4. SeenSince'
    BY <2>3 DEF SeenSince
  <2>5. ASSUME NEW i \in Distinct, NEW d \in InWindow(AdmittedFrom(i))'
        PROVE  i \in known' /\ d \in upgrades'[i]
    <3>1. i \in IP /\ d \in InWindow(AdmittedFrom(i))
      BY <1>0, <1>5, <2>5
    <3>2. d \in Recent(i)
      BY <1>6, <2>5, <3>1, RecentCovers
    <3>3. i \in known /\ i \notin Collected /\ d \in upgrades[i]
      BY <3>2 DEF Recent, InWindow
    <3> QED
      BY <1>0, <3>1, <3>2, <3>3 DEF RateTypes, Reject
  <2> QED
    BY <2>4, <2>5 DEF ListedInWindow
<1> QED
  BY <1>2, <1>5, <1>6, <1>9 DEF RateInv

\* An admission finds room for one more in the window, and is listed.
LEMMA AllowRate ==
    ASSUME RateInv, NEW c \in Client, Allow(c)
    PROVE  RateInv'
<1> DEFINE i == ipOf[c]
<1>0. RateTypes /\ ClockAhead /\ i \in IP /\ Distinct \subseteq IP /\ now' = now
  BY HubAssumption DEF RateInv, Allow
<1>1. \A k \in IP : Recent(k) \subseteq Client
  BY <1>0 DEF Recent, InWindow, RateTypes
<1>2. RateTypes'
  <2>1. pc' \in [Client -> ServeState] /\ admittedAt' \in [Client -> Nat]
    BY <1>0 DEF RateTypes, ServeState, Allow
  <2>2. upgrades' \in [IP -> SUBSET Client]
    BY <1>0, <1>1 DEF RateTypes, Allow
  <2>3. lastSeenAt' \in [IP -> Nat]
    BY <1>0 DEF RateTypes, Allow
  <2> QED
    BY <1>0, <2>1, <2>2, <2>3 DEF RateTypes
<1>3. /\ pc' = [pc EXCEPT ![c] = "allowed"]
      /\ admittedAt' = [admittedAt EXCEPT ![c] = now]
  BY DEF Allow
<1>6. \A k \in IP : lastSeenAt'[k] = lastSeenAt[k] \/ lastSeenAt'[k] = now
  BY <1>0 DEF RateTypes, Allow
<1>7. \A k \in IP : lastSeenAt'[k] <= now /\ lastSeenAt[k] <= lastSeenAt'[k]
  BY <1>0, <1>6 DEF ClockAhead, RateTypes
<1>8. ClockAhead'
  BY <1>0, <1>7 DEF ClockAhead
<1>4. ASSUME UpgradesPerMin > 0 PROVE SeenSince' /\ ListedInWindow' /\ RateHolds'
  <2>0. SeenSince /\ ListedInWindow /\ RateHolds
    BY <1>4 DEF RateInv
  <2>3. i \in Distinct => PerIP(c) /\ lastSeenAt'[i] = now
    BY <1>0, <1>4 DEF PerIP, RateTypes, Allow
  <2>4. ASSUME NEW k \in Distinct, NEW d \in AdmittedFrom(k)'
        PROVE  d \in Client /\ k \in IP
               /\ \/ d = c /\ k = i
                  \/ d # c /\ d \in AdmittedFrom(k) /\ admittedAt'[d] = admittedAt[d]
    BY <1>0, <1>3, <2>4 DEF AdmittedFrom, RateTypes
  <2>5. ASSUME NEW k \in Distinct, NEW d \in AdmittedFrom(k)'
        PROVE  admittedAt'[d] <= lastSeenAt'[k]
    <3>1. CASE d = c /\ k = i
      BY <1>0, <1>3, <2>3, <2>5, <3>1 DEF RateTypes
    <3>2. CASE d # c /\ d \in AdmittedFrom(k) /\ admittedAt'[d] = admittedAt[d]
      <4>1. admittedAt[d] <= lastSeenAt[k] /\ lastSeenAt[k] <= lastSeenAt'[k]
        BY <1>7, <2>0, <2>4, <2>5, <3>2 DEF SeenSince
      <4> QED
        BY <1>0, <1>2, <2>4, <2>5, <3>2, <4>1 DEF RateTypes
    <3> QED
      BY <2>4, <2>5, <3>1, <3>2
  <2>6. SeenSince'
    BY <2>5 DEF SeenSince
  <2>7. ASSUME NEW k \in Distinct, NEW d \in InWindow(AdmittedFrom(k))'
        PROVE  \/ d = c /\ k = i
               \/ d \in InWindow(AdmittedFrom(k)) /\ d \in Recent(k)
    <3>1. d \in AdmittedFrom(k)' /\ admittedAt'[d] > now - Window
      BY <1>0, <2>7 DEF InWindow
    <3>2. CASE d # c /\ d \in AdmittedFrom(k) /\ admittedAt'[d] = admittedAt[d]
      <4>1. d \in InWindow(AdmittedFrom(k))
        BY <3>1, <3>2 DEF InWindow
      <4> QED
        BY <1>4, <2>7, <4>1, RecentCovers
    <3> QED
      BY <2>4, <2>7, <3>1, <3>2
  <2>8. ASSUME NEW k \in Distinct, NEW d \in InWindow(AdmittedFrom(k))'
        PROVE  k \in known' /\ d \in upgrades'[k]
    <3>0. k \in IP /\ upgrades \in [IP -> SUBSET Client]
      BY <1>0, <2>8 DEF RateTypes
    <3>1. CASE d = c /\ k = i
      <4>1. PerIP(c)
        BY <2>3, <2>8, <3>1
      <4>2. upgrades' = [upgrades EXCEPT ![i] = Recent(i) \union {c}] /\ i \in known'
        BY <1>4, <4>1 DEF Allow
      <4> QED
        BY <3>0, <3>1, <4>2
    <3>2. CASE d \in InWindow(AdmittedFrom(k)) /\ d \in Recent(k)
      <4>1. k \in known /\ k \notin Collected /\ d \in upgrades[k]
        BY <3>2 DEF Recent, InWindow
      <4>2. k \in known'
        BY <4>1 DEF Allow
      <4>3. d \in upgrades'[k]
        BY <3>0, <3>2, <4>1 DEF Allow
      <4> QED
        BY <4>2, <4>3
    <3> QED
      BY <2>7, <2>8, <3>1, <3>2
  <2>9. ASSUME NEW k \in Distinct
        PROVE  Cardinality(InWindow(AdmittedFrom(k))') <= UpgradesPerMin
    <3> DEFINE before == InWindow(AdmittedFrom(k))
               after == InWindow(AdmittedFrom(k))'
    <3>1. before \subseteq Client /\ IsFiniteSet(before) /\ Cardinality(before) \in Nat
      <4>1. before \subseteq Client
        BY DEF InWindow, AdmittedFrom
      <4> QED
        BY <4>1, FS_Subset, FS_CardinalityType, HubAssumption
    <3>2. CASE k = i
      <4>1. after \subseteq Recent(k) \union {c}
        BY <2>7, <2>9, <3>2
      <4>2. IsFiniteSet(Recent(k)) /\ Cardinality(Recent(k)) \in Nat
        BY <1>0, <1>1, <2>9, FS_Subset, FS_CardinalityType, HubAssumption
      <4>3. Cardinality(Recent(k)) < UpgradesPerMin
        BY <1>4, <2>3, <2>9, <3>2 DEF Allow, Within
      <4>4. /\ IsFiniteSet(Recent(k) \union {c})
            /\ Cardinality(Recent(k) \union {c}) <= Cardinality(Recent(k)) + 1
        <5> DEFINE R == Recent(k)
        <5> HIDE DEF R
        <5>1. IsFiniteSet(R) /\ Cardinality(R) \in Nat
          BY <4>2 DEF R
        <5>2. IsFiniteSet(R \union {c})
          BY <5>1, FS_AddElement
        <5>3. c \in R => R \union {c} = R
          OBVIOUS
        <5>4. Cardinality(R \union {c}) <= Cardinality(R) + 1
          BY <5>1, <5>3, AddOne
        <5> QED
          BY <5>2, <5>4 DEF R
      <4>5. /\ Cardinality(after) <= Cardinality(Recent(k) \union {c})
            /\ Cardinality(after) \in Nat /\ Cardinality(Recent(k) \union {c}) \in Nat
        BY <4>1, <4>4, FS_Subset, FS_CardinalityType
      <4> QED
        BY <4>2, <4>3, <4>4, <4>5, HubAssumption
    <3>3. CASE k # i
      <4>1. after \subseteq before
        BY <2>7, <2>9, <3>3
      <4>2. Cardinality(after) <= Cardinality(before) /\ Cardinality(after) \in Nat
        BY <3>1, <4>1, FS_Subset, FS_CardinalityType
      <4>3. Cardinality(before) <= UpgradesPerMin
        BY <1>4, <2>0, <2>9 DEF RateHolds
      <4> QED
        BY <3>1, <4>2, <4>3, HubAssumption
    <3> QED
      BY <3>2, <3>3
  <2> QED
    BY <2>6, <2>8, <2>9 DEF ListedInWindow, RateHolds
<1>5. RateHolds'
  BY <1>4 DEF RateHolds
<1> QED
  BY <1>2, <1>4, <1>5, <1>8 DEF RateInv
------------------------------------------------------------------------------
\* The release func and the rest of ServeWS, the pumps and the hub.
LEMMA RateStep == RateInv /\ [Next]_vars => RateInv'
<1> SUFFICES ASSUME RateInv, [Next]_vars PROVE RateInv'
  OBVIOUS
<1>0. RateTypes /\ ClockAhead /\ \A c \in Client : ipOf[c] \in IP
  BY HubAssumption DEF RateInv
<1> DEFINE In(f, c) == f[c] \in {"allowed", "failed", "served"}
<1>1. ASSUME NEW c \in Client, Allow(c) PROVE RateInv'
  BY <1>1, AllowRate
<1>2. ASSUME NEW c \in Client, Reject(c) PROVE RateInv'
  BY <1>2, RejectRate
<1>3. ASSUME NEW c \in Client, UpgradeFails(c) \/ UnregisterRelease(c) \/ CloseRelease(c)
      PROVE  RateInv'
  <2>1. pc' \in [Client -> ServeState] /\ \A d \in Client : In(pc', d) => In(pc, d)
    BY <1>0, <1>3 DEF RateTypes, ServeState, UpgradeFails, UnregisterRelease, CloseRelease
  <2>2. Release(c)
    BY <1>3 DEF UpgradeFails, UnregisterRelease, CloseRelease
  <2>3. UNCHANGED <<upgrades, admittedAt, known, now>>
    BY <2>2 DEF Release
  <2>4. lastSeenAt' = lastSeenAt \/ lastSeenAt' = [lastSeenAt EXCEPT ![ipOf[c]] = now]
    BY <2>2 DEF Release
  <2>5. /\ lastSeenAt' \in [IP -> Nat]
        /\ \A i \in IP : lastSeenAt'[i] >= lastSeenAt[i] /\ lastSeenAt'[i] <= now
    BY <1>0, <2>4 DEF RateTypes, ClockAhead
  <2> QED
    BY <1>0, <2>1, <2>3, <2>5, QuietRate DEF RateTypes
<1>4. ASSUME UNCHANGED rateVars, now' \in {now, now + 1},
             pc' \in [Client -> ServeState] /\ \A d \in Client : In(pc', d) => In(pc, d)
      PROVE  RateInv'
  <2>1. UNCHANGED <<upgrades, admittedAt, known, lastSeenAt>>
    BY <1>4 DEF rateVars
  <2>2. /\ now' \in Nat /\ now' >= now
        /\ \A i \in IP : lastSeenAt'[i] >= lastSeenAt[i] /\ lastSeenAt'[i] <= now'
    BY <1>0, <1>4, <2>1 DEF RateTypes, ClockAhead
  <2> QED
    BY <1>0, <1>4, <2>1, <2>2, QuietRate DEF RateTypes
<1>5. ASSUME NEW c \in Client, Register(c) PROVE RateInv'
  <2>1. UNCHANGED rateVars /\ now' = now
    BY <1>5 DEF Register
  <2>2. pc' \in [Client -> ServeState] /\ \A d \in Client : In(pc', d) => In(pc, d)
    BY <1>0, <1>5 DEF Register, RateTypes, ServeState
  <2> QED
    BY <1>4, <2>1, <2>2
<1>6. ASSUME NEW c \in Client, PeerGone(c) \/ WriteMessage(c) \/ WriterEnds(c) \/ Unregister(c)
      PROVE  RateInv'
  <2>1. UNCHANGED rateVars /\ now' = now /\ pc' = pc
    BY <1>6 DEF PeerGone, WriteMessage, WriterEnds, Unregister
  <2> QED
    BY <1>0, <1>4, <2>1 DEF RateTypes
<1>7. ASSUME Broadcast \/ Close \/ Tick \/ UNCHANGED vars PROVE RateInv'
  <2>1. UNCHANGED rateVars /\ now' \in {now, now + 1} /\ pc' = pc
    BY <1>7 DEF Broadcast, Close, Tick, vars, hubVars
  <2> QED
    BY <1>0, <1>4, <2>1 DEF RateTypes
<1> QED
  BY <1>1, <1>2, <1>3, <1>5, <1>6, <1>7 DEF Next, Pumps

\* Nobody has been admitted yet.
LEMMA InitRate == Init => RateInv
<1> SUFFICES ASSUME Init PROVE RateInv
  OBVIOUS
<1>1. RateTypes /\ ClockAhead
  BY DEF Init, RateTypes, ClockAhead, ServeState
<1>2. \A i \in IP : AdmittedFrom(i) = {} /\ InWindow(AdmittedFrom(i)) = {}
  BY DEF Init, AdmittedFrom, InWindow
<1>3. SeenSince /\ ListedInWindow
  BY <1>2, HubAssumption DEF SeenSince, ListedInWindow
<1>4. RateHolds
  BY <1>2, FS_EmptySet, HubAssumption DEF RateHolds
<1> QED
  BY <1>1, <1>3, <1>4 DEF RateInv

\* No address gets more upgrades in a window than its budget: whatever clients
\* come and go, and although gcLocked forgets idle addresses in between.
THEOREM RateHoldsHolds == Spec => []RateHolds
<1>1. RateInv => RateHolds
  BY DEF RateInv
<1> QED
  BY <1>1, InitRate, RateStep, PTL DEF Spec
==============================================================================
