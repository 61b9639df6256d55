---------------------------- MODULE AppShellProofs ----------------------------
(***************************************************************************)
(* For any number of calls, paths, uses and sockets: no answer from before *)
(* a forced refresh is kept or returned after it, and the page has at most *)
(* one live socket, with a timer that will notice its loss.                *)
(***************************************************************************)
EXTENDS AppShell, TLAPS

Answered == {"200", "202", "503", "error"}
InFlight == Answered \cup {"fetch", "backoff"}

\* The types the argument needs.
Typed ==
    /\ version \in [Path -> Nat] /\ refreshed \in [Path -> Nat]
    /\ cached \in [Path -> Int]
    /\ slot \in [Slot -> Call \cup {Nobody}]
    /\ st \in [Call -> InFlight \cup {"unused", "joined", "done", "failed"}]
    /\ use \in [Call -> Use \cup {NoUse}]
    /\ answer \in [Call -> Int] /\ owed \in [Call -> Nat]

\* A call that was made has arguments of Use, and owes at most what the last
\* refresh of its path established, which the server's data has reached.
Owes ==
    /\ \A p \in Path : refreshed[p] <= version[p]
    /\ \A c \in Call : st[c] # "unused" => use[c] \in Use /\ owed[c] <= refreshed[use[c].path]

\* A slot is held by a call in flight for its path and mode.
Held == \A k \in Slot : slot[k] # Nobody => st[slot[k]] \in InFlight /\ SlotOf(slot[k]) = k

\* The holder's answer, once there, is no older than the last refresh.
HolderFresh ==
    \A c \in Call : /\ st[c] \in Answered /\ OneMode(use[c].path) /\ slot[SlotOf(c)] = c
                    => answer[c] >= refreshed[use[c].path]

\* Any answer is no older than what its call owes.
AnswerFresh == \A c \in Call : st[c] \in Answered => answer[c] >= owed[c]

\* Who joined waits for a call in flight whose answer is new enough for it.
JoinFresh ==
    \A d \in Call : st[d] = "joined" =>
        /\ answer[d] \in Call /\ st[answer[d]] \in InFlight
        /\ use[answer[d]].path = use[d].path
        /\ OneMode(use[d].path) /\ st[answer[d]] \in Answered => answer[answer[d]] >= owed[d]

ApiInv == Typed /\ Owes /\ Held /\ HolderFresh /\ AnswerFresh /\ JoinFresh /\ FreshAfterRefresh

\* A path asked for in one mode has one slot in use.
LEMMA OneSlot ==
    ASSUME NEW u \in Use, NEW v \in Use, u.path = v.path, OneMode(u.path)
    PROVE  u.retry503 = v.retry503
  BY ApiAssumption DEF OneMode

LEMMA InitApi == ApiInit => ApiInv
  <1> SUFFICES ASSUME ApiInit PROVE ApiInv
    OBVIOUS
  <1> USE ApiAssumption DEF ApiInit
  <1>1. Typed BY DEF Typed, Nobody, Nothing, NoUse
  <1>2. Owes BY DEF Owes
  <1>3. Held BY DEF Held, Nobody
  <1>4. HolderFresh /\ AnswerFresh /\ JoinFresh
    BY DEF HolderFresh, AnswerFresh, JoinFresh, Answered
  <1>5. FreshAfterRefresh BY DEF FreshAfterRefresh, Nothing
  <1>6. QED BY <1>1, <1>2, <1>3, <1>4, <1>5 DEF ApiInv

\* The version a path's data reached only grows, and nothing else is told.
LEMMA DataApi == ApiInv /\ DataChanges => ApiInv'
  <1> SUFFICES ASSUME ApiInv, DataChanges PROVE ApiInv'
    OBVIOUS
  <1> USE ApiAssumption
  <1>1. PICK p \in Path :
          /\ version' = [version EXCEPT ![p] = @ + 1]
          /\ UNCHANGED <<cached, slot, st, use, answer, attempt, notified, banner, refreshed, owed>>
    BY DEF DataChanges
  <1>2. Typed' BY <1>1 DEF ApiInv, Typed
  <1>3. Owes' BY <1>1 DEF ApiInv, Typed, Owes
  <1>4. (Held /\ HolderFresh /\ AnswerFresh /\ JoinFresh /\ FreshAfterRefresh)'
    BY <1>1 DEF ApiInv, Held, HolderFresh, AnswerFresh, JoinFresh, FreshAfterRefresh, SlotOf
  <1>5. QED BY <1>2, <1>3, <1>4 DEF ApiInv

\* An entry that goes away, whether it expired or was dropped, can only help.
LEMMA DropApi ==
    ASSUME ApiInv,
           UNCHANGED <<version, slot, st, use, answer, refreshed, owed>>,
           cached' \in [Path -> Int],
           \A p \in Path : cached'[p] = cached[p] \/ cached'[p] = Nothing
    PROVE  ApiInv'
  <1>1. (Typed /\ Owes /\ Held)' BY DEF ApiInv, Typed, Owes, Held, SlotOf
  <1>2. (HolderFresh /\ AnswerFresh /\ JoinFresh)'
    BY DEF ApiInv, HolderFresh, AnswerFresh, JoinFresh, SlotOf
  <1>3. FreshAfterRefresh' BY DEF ApiInv, FreshAfterRefresh
  <1>4. QED BY <1>1, <1>2, <1>3 DEF ApiInv

LEMMA ExpireApi == ApiInv /\ Expire => ApiInv'
  <1> SUFFICES ASSUME ApiInv, Expire PROVE ApiInv'
    OBVIOUS
  <1>1. PICK p \in Path : cached' = [cached EXCEPT ![p] = Nothing]
    BY DEF Expire
  <1>2. cached' \in [Path -> Int] BY <1>1 DEF ApiInv, Typed, Nothing
  <1>3. \A q \in Path : cached'[q] = cached[q] \/ cached'[q] = Nothing
    BY <1>1 DEF ApiInv, Typed
  <1>4. QED BY <1>2, <1>3, DropApi DEF Expire

LEMMA InvalidateApi == ApiInv /\ InvalidateFires => ApiInv'
  <1> SUFFICES ASSUME ApiInv, InvalidateFires PROVE ApiInv'
    OBVIOUS
  <1>1. cached' = [p \in Path |-> IF p \in Pushed THEN Nothing ELSE cached[p]]
    BY DEF InvalidateFires, Invalidate
  <1>2. cached' \in [Path -> Int] BY <1>1 DEF ApiInv, Typed, Nothing
  <1>3. \A q \in Path : cached'[q] = cached[q] \/ cached'[q] = Nothing
    BY <1>1 DEF ApiInv, Typed
  <1>4. QED BY <1>2, <1>3, DropApi DEF InvalidateFires

\* An answer is the version the path has now: new enough for the call and for
\* all who joined it.
LEMMA AnswersApi == ASSUME NEW c \in Call, ApiInv, ServerAnswers(c) PROVE ApiInv'
  <1> USE DEF ServerAnswers
  <1>1. PICK kind \in Answered : st' = [st EXCEPT ![c] = kind]
    BY DEF Answered
  <1>2. /\ use[c] \in Use /\ use[c].path \in Path
        /\ owed[c] <= refreshed[use[c].path] /\ refreshed[use[c].path] <= version[use[c].path]
        /\ owed[c] \in Nat /\ refreshed[use[c].path] \in Nat /\ version[use[c].path] \in Nat
    BY ApiAssumption DEF ApiInv, Owes, Typed
  <1>3. Typed' BY <1>1, <1>2 DEF ApiInv, Typed, InFlight, Answered
  <1>4. Owes' BY <1>1, <1>2 DEF ApiInv, Typed, Owes, Answered
  <1>5. Held' BY <1>1 DEF ApiInv, Typed, Held, SlotOf, InFlight
  <1>6. \A d \in Call : d # c => st'[d] = st[d] /\ answer'[d] = answer[d]
    BY <1>1 DEF ApiInv, Typed
  <1>7. st'[c] \in Answered /\ answer'[c] = version[use[c].path]
    BY <1>1 DEF ApiInv, Typed
  <1>8. HolderFresh' /\ AnswerFresh'
    BY <1>2, <1>6, <1>7 DEF ApiInv, HolderFresh, AnswerFresh, SlotOf
  <1>9. JoinFresh'
    <2> SUFFICES ASSUME NEW d \in Call, st'[d] = "joined"
                 PROVE  /\ answer'[d] \in Call /\ st'[answer'[d]] \in InFlight
                        /\ use[answer'[d]].path = use[d].path
                        /\ OneMode(use[d].path) /\ st'[answer'[d]] \in Answered
                             => answer'[answer'[d]] >= owed[d]
      BY DEF JoinFresh, OneMode
    <2>1. d # c BY <1>7 DEF Answered
    <2>2. st[d] = "joined" /\ answer'[d] = answer[d] BY <2>1, <1>6
    <2>3. /\ answer[d] \in Call /\ st[answer[d]] \in InFlight
          /\ use[answer[d]].path = use[d].path
          /\ OneMode(use[d].path) /\ st[answer[d]] \in Answered => answer[answer[d]] >= owed[d]
      BY <2>2 DEF ApiInv, JoinFresh
    <2>4. owed[d] <= refreshed[use[d].path] /\ owed[d] \in Nat
      BY <2>2 DEF ApiInv, Owes, Typed
    <2>5. CASE answer[d] = c
      BY <2>2, <2>3, <2>4, <2>5, <1>2, <1>7 DEF InFlight
    <2>6. CASE answer[d] # c
      BY <2>2, <2>3, <2>6, <1>6
    <2>7. QED BY <2>5, <2>6
  <1>10. FreshAfterRefresh'
    BY <1>6, <1>7 DEF ApiInv, FreshAfterRefresh, Answered, OneMode
  <1>11. QED BY <1>3, <1>4, <1>5, <1>8, <1>9, <1>10 DEF ApiInv

\* The retry loop moves a call between states of flight and forgets the answer.
LEMMA LoopApi ==
    ASSUME NEW c \in Call, ApiInv, Retry(c) \/ BackoffEnds(c)
    PROVE  ApiInv'
  <1>1. /\ st[c] \in InFlight
        /\ UNCHANGED <<version, cached, slot, use, answer, refreshed, owed>>
    BY DEF Retry, BackoffEnds, InFlight, Answered
  <1>2. PICK k \in {"fetch", "backoff"} : st' = [st EXCEPT ![c] = k]
    BY DEF Retry, BackoffEnds
  <1>3. /\ st'[c] \in InFlight \ Answered
        /\ \A d \in Call : d # c => st'[d] = st[d]
    BY <1>2 DEF ApiInv, Typed, InFlight, Answered
  <1>4. Typed' BY <1>1, <1>2 DEF ApiInv, Typed, InFlight
  <1>5. Owes' /\ Held'
    BY <1>1, <1>2, <1>3 DEF ApiInv, Typed, Owes, Held, SlotOf, InFlight, Answered
  <1>6. HolderFresh' /\ AnswerFresh' BY <1>1, <1>3 DEF ApiInv, HolderFresh, AnswerFresh, SlotOf
  <1>7. JoinFresh' BY <1>1, <1>3 DEF ApiInv, JoinFresh, InFlight, Answered
  <1>8. FreshAfterRefresh' BY <1>1, <1>3 DEF ApiInv, FreshAfterRefresh, InFlight, Answered
  <1>9. QED BY <1>4, <1>5, <1>6, <1>7, <1>8 DEF ApiInv

\* Only the holder's answer is kept, and it is new enough; who joined gets an
\* answer that is new enough for it.
LEMMA SettleApi == ASSUME NEW c \in Call, ApiInv, Settle(c) PROVE ApiInv'
  <1> DEFINE joiners == {d \in Call : st[d] = "joined" /\ answer[d] = c}
             outcome == IF Failed(c) THEN "failed" ELSE "done"
             p == use[c].path
  <1>1. /\ st' = [d \in Call |-> IF d = c \/ d \in joiners THEN outcome ELSE st[d]]
        /\ answer' = [d \in Call |-> IF d \in joiners THEN answer[c] ELSE answer[d]]
        /\ cached' = IF Keeps(c) THEN [cached EXCEPT ![p] = answer[c]] ELSE cached
        /\ slot' = IF slot[SlotOf(c)] = c THEN [slot EXCEPT ![SlotOf(c)] = Nobody] ELSE slot
        /\ UNCHANGED <<version, use, refreshed, owed>>
    BY DEF Settle
  <1>2. st[c] \in Answered BY DEF Settle, Failed, Answered
  <1>3. use[c] \in Use /\ p \in Path /\ SlotOf(c) \in Slot /\ c \notin joiners
    BY <1>2, ApiAssumption DEF ApiInv, Owes, Answered, SlotOf, Slot
  <1>4. outcome \in {"failed", "done"} /\ outcome \notin InFlight /\ outcome # "joined" /\ outcome # "unused"
    BY DEF InFlight, Answered
  <1>5. \A d \in Call : d # c /\ d \notin joiners => st'[d] = st[d] /\ answer'[d] = answer[d]
    BY <1>1
  <1>6. /\ st'[c] = outcome /\ answer'[c] = answer[c]
        /\ \A d \in joiners : st'[d] = outcome /\ answer'[d] = answer[c]
    BY <1>1, <1>3
  <1>7. Typed'
    <2>1. st' \in [Call -> InFlight \cup {"unused", "joined", "done", "failed"}]
      BY <1>1, <1>4 DEF ApiInv, Typed
    <2>2. answer' \in [Call -> Int] BY <1>1 DEF ApiInv, Typed
    <2>3. cached' \in [Path -> Int] BY <1>1, <1>3 DEF ApiInv, Typed
    <2>4. slot' \in [Slot -> Call \cup {Nobody}] BY <1>1, <1>3 DEF ApiInv, Typed
    <2>5. QED BY <2>1, <2>2, <2>3, <2>4, <1>1 DEF ApiInv, Typed
  <1>8. Owes' BY <1>1, <1>2, <1>5 DEF ApiInv, Owes, Answered
  <1>9. Held'
    <2> SUFFICES ASSUME NEW k \in Slot, slot'[k] # Nobody
                 PROVE  /\ st'[slot'[k]] \in InFlight
                        /\ <<use[slot'[k]].path, use[slot'[k]].retry503>> = k
      BY <1>1 DEF Held, SlotOf
    <2>1. slot'[k] = slot[k] /\ slot[k] \in Call
      <3>1. slot \in [Slot -> Call \cup {Nobody}] /\ slot' \in [Slot -> Call \cup {Nobody}]
        BY <1>7 DEF ApiInv, Typed
      <3>2. slot'[k] = slot[k] BY <3>1, <1>1, <1>3
      <3>3. QED BY <3>1, <3>2
    <2>2. st[slot[k]] \in InFlight /\ SlotOf(slot[k]) = k BY <2>1 DEF ApiInv, Held
    <2>3. slot[k] # c BY <1>1, <1>3, <2>1, <2>2 DEF ApiInv, Typed, Nobody, Call
    <2>4. slot[k] \notin joiners BY <2>2 DEF InFlight, Answered
    <2>5. QED BY <2>1, <2>2, <2>3, <2>4, <1>1, <1>5 DEF SlotOf
  <1>10. HolderFresh'
    <2> SUFFICES ASSUME NEW d \in Call, st'[d] \in Answered, OneMode(use[d].path), slot'[SlotOf(d)] = d
                 PROVE  answer'[d] >= refreshed[use[d].path]
      BY <1>1 DEF HolderFresh, SlotOf
    <2>1. d # c /\ d \notin joiners BY <1>4, <1>6 DEF InFlight
    <2>2. st[d] = st'[d] /\ answer'[d] = answer[d] BY <2>1, <1>5
    <2>3. slot[SlotOf(d)] = d
      BY <1>1, <1>3 DEF ApiInv, Typed, Nobody, Call
    <2>4. QED BY <2>2, <2>3 DEF ApiInv, HolderFresh
  <1>11. AnswerFresh' BY <1>1, <1>4, <1>5, <1>6 DEF ApiInv, AnswerFresh, InFlight
  <1>12. JoinFresh'
    <2> SUFFICES ASSUME NEW d \in Call, st'[d] = "joined"
                 PROVE  /\ answer'[d] \in Call /\ st'[answer'[d]] \in InFlight
                        /\ use[answer'[d]].path = use[d].path
                        /\ OneMode(use[d].path) /\ st'[answer'[d]] \in Answered
                             => answer'[answer'[d]] >= owed[d]
      BY <1>1 DEF JoinFresh
    <2>1. d # c /\ d \notin joiners BY <1>4, <1>6
    <2>2. st[d] = "joined" /\ answer'[d] = answer[d] /\ answer[d] # c BY <2>1, <1>5
    <2>3. /\ answer[d] \in Call /\ st[answer[d]] \in InFlight
          /\ use[answer[d]].path = use[d].path
          /\ OneMode(use[d].path) /\ st[answer[d]] \in Answered => answer[answer[d]] >= owed[d]
      BY <2>2 DEF ApiInv, JoinFresh
    <2>4. answer[d] \notin joiners BY <2>3 DEF InFlight, Answered
    <2>5. QED BY <2>2, <2>3, <2>4, <1>5
  <1>13. FreshAfterRefresh'
    <2>1. ASSUME NEW q \in Path, OneMode(q), cached'[q] # Nothing
          PROVE  cached'[q] >= refreshed'[q]
      <3>1. CASE Keeps(c) /\ q = p
        <4>1. slot[SlotOf(c)] = c BY <3>1 DEF Keeps
        <4>2. answer[c] >= refreshed[p]
          BY <4>1, <3>1, <2>1, <1>2 DEF ApiInv, HolderFresh
        <4>3. QED BY <4>2, <3>1, <1>1 DEF ApiInv, Typed
      <3>2. CASE ~(Keeps(c) /\ q = p)
        BY <3>2, <2>1, <1>1, <1>3 DEF ApiInv, Typed, FreshAfterRefresh
      <3>3. QED BY <3>1, <3>2
    <2>2. ASSUME NEW d \in Call, st'[d] = "done", OneMode(use[d].path)
          PROVE  answer'[d] >= owed[d]
      <3>1. CASE d = c BY <3>1, <1>2, <1>6 DEF ApiInv, AnswerFresh
      <3>2. CASE d \in joiners BY <3>2, <2>2, <1>2, <1>6 DEF ApiInv, JoinFresh
      <3>3. CASE d # c /\ d \notin joiners
        BY <3>3, <2>2, <1>5 DEF ApiInv, FreshAfterRefresh
      <3>4. QED BY <3>1, <3>2, <3>3
    <2>3. QED BY <2>1, <2>2, <1>1 DEF FreshAfterRefresh
  <1>14. QED BY <1>7, <1>8, <1>9, <1>10, <1>11, <1>12, <1>13 DEF ApiInv

\* A new call owes the last refresh of its path.  A refresh raises that, takes
\* the slot over and empties the cache; a plain call is answered by the cache,
\* joins the slot's holder, or takes a free slot.
LEMMA CallApiApi == ASSUME NEW c \in Call, ApiInv, CallApi(c) PROVE ApiInv'
  <1>1. PICK u \in Use, invalidate \in BOOLEAN :
          /\ invalidate => u.bust
          /\ use' = [use EXCEPT ![c] = u]
          /\ cached' = [cached EXCEPT ![u.path] = IF invalidate THEN Nothing ELSE cached[u.path]]
          /\ refreshed' = [refreshed EXCEPT ![u.path] = IF invalidate THEN version[u.path] ELSE @]
          /\ owed' = [owed EXCEPT ![c] = refreshed'[u.path]]
          /\ \/ /\ ~u.bust /\ cached[u.path] # Nothing
                /\ st' = [st EXCEPT ![c] = "done"]
                /\ answer' = [answer EXCEPT ![c] = cached[u.path]]
                /\ UNCHANGED slot
             \/ /\ TakesSlot(u)
                /\ slot' = [slot EXCEPT ![<<u.path, u.retry503>>] = c]
                /\ st' = [st EXCEPT ![c] = "fetch"]
                /\ UNCHANGED answer
             \/ /\ ~TakesSlot(u)
                /\ st' = [st EXCEPT ![c] = "joined"]
                /\ answer' = [answer EXCEPT ![c] = slot[<<u.path, u.retry503>>]]
                /\ UNCHANGED slot
    BY ApiAssumption DEF CallApi
  <1> DEFINE p == u.path
             k == <<u.path, u.retry503>>
  <1>2. p \in Path /\ k \in Slot /\ u.bust \in BOOLEAN /\ u.retry503 \in BOOLEAN
    BY ApiAssumption DEF Slot
  <1>3. st[c] = "unused" /\ UNCHANGED version BY DEF CallApi
  <1>4. /\ refreshed'[p] \in Nat /\ refreshed[p] \in Nat /\ version[p] \in Nat
        /\ refreshed[p] <= refreshed'[p] /\ refreshed'[p] <= version[p]
        /\ \A q \in Path : q # p => refreshed'[q] = refreshed[q]
    BY <1>1, <1>2 DEF ApiInv, Typed, Owes
  <1>5. \A d \in Call : d # c =>
          use'[d] = use[d] /\ owed'[d] = owed[d] /\ st'[d] = st[d] /\ answer'[d] = answer[d]
    BY <1>1 DEF ApiInv, Typed
  <1>6. use'[c] = u /\ owed'[c] = refreshed'[p] BY <1>1 DEF ApiInv, Typed
  <1>7. /\ st'[c] \in {"done", "fetch", "joined"}
        /\ st'[c] \notin Answered
    BY <1>1 DEF ApiInv, Typed, Answered
  <1>8. ~TakesSlot(u) => /\ ~u.bust /\ slot[k] \in Call /\ slot[k] # c
                         /\ st[slot[k]] \in InFlight /\ SlotOf(slot[k]) = k
    BY <1>2, <1>3 DEF ApiInv, Typed, Held, TakesSlot, InFlight, Answered
  <1>9. Typed'
    <2>1. st' \in [Call -> InFlight \cup {"unused", "joined", "done", "failed"}]
      BY <1>1 DEF ApiInv, Typed, InFlight
    <2>2. slot' \in [Slot -> Call \cup {Nobody}] BY <1>1, <1>2 DEF ApiInv, Typed
    <2>3. answer' \in [Call -> Int]
      BY <1>1, <1>2, <1>8, ApiAssumption DEF ApiInv, Typed, Call
    <2>4. cached' \in [Path -> Int] /\ refreshed' \in [Path -> Nat]
      BY <1>1, <1>2 DEF ApiInv, Typed, Nothing
    <2>5. use' \in [Call -> Use \cup {NoUse}] /\ owed' \in [Call -> Nat]
      BY <1>1, <1>4 DEF ApiInv, Typed
    <2>6. QED BY <2>1, <2>2, <2>3, <2>4, <2>5, <1>3 DEF ApiInv, Typed
  <1>10. Owes'
    <2>1. \A q \in Path : refreshed'[q] <= version'[q]
      BY <1>3, <1>4 DEF ApiInv, Owes
    <2>2. ASSUME NEW d \in Call, st'[d] # "unused"
          PROVE  use'[d] \in Use /\ owed'[d] <= refreshed'[use'[d].path]
      <3>1. CASE d = c BY <3>1, <1>4, <1>6
      <3>2. CASE d # c
        <4>1. use[d] \in Use /\ owed[d] <= refreshed[use[d].path] /\ owed[d] \in Nat
          BY <3>2, <2>2, <1>5 DEF ApiInv, Owes, Typed
        <4>2. use[d].path \in Path /\ refreshed[use[d].path] \in Nat /\ refreshed'[use[d].path] \in Nat
          BY <4>1, <1>9, ApiAssumption DEF ApiInv, Typed
        <4>3. refreshed[use[d].path] <= refreshed'[use[d].path] BY <4>2, <1>4
        <4>4. QED BY <4>1, <4>2, <4>3, <3>2, <1>5
      <3>3. QED BY <3>1, <3>2
    <2>3. QED BY <2>1, <2>2 DEF Owes
  <1>11. Held'
    <2> SUFFICES ASSUME NEW j \in Slot, slot'[j] # Nobody
                 PROVE  /\ st'[slot'[j]] \in InFlight
                        /\ <<use'[slot'[j]].path, use'[slot'[j]].retry503>> = j
      BY DEF Held, SlotOf
    <2>1. CASE TakesSlot(u) /\ st'[c] = "fetch" /\ j = k /\ slot'[j] = c
      BY <2>1, <1>6 DEF InFlight
    <2>2. CASE slot'[j] = slot[j]
      <3>1. slot[j] \in Call /\ st[slot[j]] \in InFlight /\ SlotOf(slot[j]) = j
        BY <2>2 DEF ApiInv, Typed, Held
      <3>2. slot[j] # c BY <3>1, <1>3 DEF InFlight, Answered
      <3>3. QED BY <3>1, <3>2, <2>2, <1>5 DEF SlotOf
    <2>3. QED
      <3>1. CASE slot' = slot BY <3>1, <2>2
      <3>2. CASE /\ TakesSlot(u) /\ st' = [st EXCEPT ![c] = "fetch"]
                 /\ slot' = [slot EXCEPT ![k] = c]
        BY <3>2, <2>1, <2>2, <1>2 DEF ApiInv, Typed
      <3>3. QED BY <3>1, <3>2, <1>1
  <1>12. ASSUME NEW d \in Call, d # c, use[d] \in Use, OneMode(use[d].path),
                slot'[SlotOf(d)] = d, SlotOf(d) \in Slot
         PROVE  slot[SlotOf(d)] = d /\ refreshed'[use[d].path] = refreshed[use[d].path]
    <2>1. slot[SlotOf(d)] = d /\ (slot' # slot => SlotOf(d) # k)
      BY <1>1, <1>12 DEF ApiInv, Typed
    <2>2. CASE use[d].path # p
      BY <2>1, <2>2, <1>4, <1>12, ApiAssumption
    <2>3. CASE use[d].path = p
      <3>1. SlotOf(d) = k BY <2>3, <1>12, OneSlot DEF SlotOf
      <3>2. ~TakesSlot(u) \/ ~u.bust BY <2>1, <3>1, <1>1, <1>12, <1>2 DEF ApiInv, Typed
      <3>3. ~invalidate BY <3>2, <1>1 DEF TakesSlot
      <3>4. QED BY <3>3, <2>1, <2>3, <1>1, <1>2 DEF ApiInv, Typed
    <2>4. QED BY <2>2, <2>3
  <1>13. HolderFresh'
    <2> SUFFICES ASSUME NEW d \in Call, st'[d] \in Answered, OneMode(use'[d].path),
                        slot'[<<use'[d].path, use'[d].retry503>>] = d
                 PROVE  answer'[d] >= refreshed'[use'[d].path]
      BY DEF HolderFresh, SlotOf, OneMode
    <2>1. d # c BY <1>7
    <2>2. st[d] \in Answered /\ use'[d] = use[d] /\ answer'[d] = answer[d] BY <2>1, <1>5
    <2>3. use[d] \in Use /\ SlotOf(d) \in Slot
      BY <2>2, ApiAssumption DEF ApiInv, Owes, Answered, SlotOf, Slot
    <2>4. slot'[SlotOf(d)] = d BY <2>2 DEF SlotOf
    <2>5. slot[SlotOf(d)] = d /\ refreshed'[use[d].path] = refreshed[use[d].path]
      BY <2>1, <2>2, <2>3, <2>4, <1>12
    <2>6. QED BY <2>2, <2>5 DEF ApiInv, HolderFresh
  <1>14. AnswerFresh' BY <1>5, <1>7 DEF ApiInv, AnswerFresh
  <1>15. JoinFresh'
    <2> SUFFICES ASSUME NEW d \in Call, st'[d] = "joined"
                 PROVE  /\ answer'[d] \in Call /\ st'[answer'[d]] \in InFlight
                        /\ use'[answer'[d]].path = use'[d].path
                        /\ OneMode(use'[d].path) /\ st'[answer'[d]] \in Answered
                             => answer'[answer'[d]] >= owed'[d]
      BY DEF JoinFresh, OneMode
    <2>1. CASE d # c
      <3>1. /\ answer[d] \in Call /\ st[answer[d]] \in InFlight
            /\ use[answer[d]].path = use[d].path
            /\ OneMode(use[d].path) /\ st[answer[d]] \in Answered => answer[answer[d]] >= owed[d]
        BY <2>1, <1>5 DEF ApiInv, JoinFresh
      <3>2. answer[d] # c BY <3>1, <1>3 DEF InFlight, Answered
      <3>3. QED BY <3>1, <3>2, <2>1, <1>5
    <2>2. CASE d = c
      <3>1. ~TakesSlot(u) /\ answer'[c] = slot[k]
        BY <2>2, <1>1 DEF ApiInv, Typed
      <3>2. ~invalidate /\ refreshed'[p] = refreshed[p]
        BY <3>1, <1>8, <1>1, <1>2 DEF ApiInv, Typed
      <3>3. use[slot[k]].path = p BY <3>1, <1>8 DEF SlotOf
      <3>4. OneMode(p) /\ st[slot[k]] \in Answered => answer[slot[k]] >= refreshed[p]
        BY <3>1, <3>3, <1>8 DEF ApiInv, HolderFresh
      <3>5. QED BY <2>2, <3>1, <3>2, <3>3, <3>4, <1>5, <1>6, <1>8
    <2>3. QED BY <2>1, <2>2
  <1>16. FreshAfterRefresh'
    <2>1. \A q \in Path : OneMode(q) /\ cached'[q] # Nothing => cached'[q] >= refreshed'[q]
      BY <1>1, <1>2 DEF ApiInv, Typed, FreshAfterRefresh
    <2>2. ASSUME NEW d \in Call, st'[d] = "done", OneMode(use'[d].path)
          PROVE  answer'[d] >= owed'[d]
      <3>1. CASE d # c BY <3>1, <2>2, <1>5 DEF ApiInv, FreshAfterRefresh
      <3>2. CASE d = c
        <4>1. ~u.bust /\ cached[p] # Nothing /\ answer'[c] = cached[p]
          BY <3>2, <2>2, <1>1 DEF ApiInv, Typed
        <4>2. refreshed'[p] = refreshed[p] /\ OneMode(p)
          BY <4>1, <3>2, <2>2, <1>1, <1>2, <1>6 DEF ApiInv, Typed
        <4>3. QED BY <4>1, <4>2, <3>2, <1>2, <1>6 DEF ApiInv, FreshAfterRefresh
      <3>3. QED BY <3>1, <3>2
    <2>3. QED BY <2>1, <2>2 DEF FreshAfterRefresh, OneMode
  <1>17. QED BY <1>9, <1>10, <1>11, <1>13, <1>14, <1>15, <1>16 DEF ApiInv

\* Once a forced refresh of a path happened, no older data of it is cached and
\* no later call returns any: api() of public/app.js for any number of calls.
THEOREM FreshAfterRefreshHolds == Spec => []FreshAfterRefresh
  <1>1. Init => ApiInv BY InitApi DEF Init
  <1>2. ApiInv /\ [Next]_vars => ApiInv'
    <2> SUFFICES ASSUME ApiInv, [Next]_vars PROVE ApiInv'
      OBVIOUS
    <2>1. CASE ApiNext
      <3>1. CASE DataChanges BY <3>1, DataApi
      <3>2. CASE Expire BY <3>2, ExpireApi
      <3>3. ASSUME NEW c \in Call, CallApi(c) \/ CallStep(c) PROVE ApiInv'
        BY <3>3, CallApiApi, AnswersApi, LoopApi, SettleApi DEF CallStep
      <3>4. QED BY <2>1, <3>1, <3>2, <3>3 DEF ApiNext
    <2>2. CASE InvalidateFires BY <2>2, InvalidateApi
    <2>3. CASE UNCHANGED apiVars
      <3>1. (Typed /\ Owes /\ Held)' BY <2>3 DEF ApiInv, Typed, Owes, Held, SlotOf, apiVars
      <3>2. (HolderFresh /\ AnswerFresh /\ JoinFresh)'
        BY <2>3 DEF ApiInv, HolderFresh, AnswerFresh, JoinFresh, SlotOf, apiVars
      <3>3. FreshAfterRefresh' BY <2>3 DEF ApiInv, FreshAfterRefresh, apiVars
      <3>4. QED BY <3>1, <3>2, <3>3 DEF ApiInv
    <2>4. QED BY <2>1, <2>2, <2>3 DEF Next, Packet, Heartbeat, vars
  <1>3. ApiInv => FreshAfterRefresh BY DEF ApiInv
  <1>4. QED BY <1>1, <1>2, <1>3, PTL DEF Spec
------------------------------------------------------------------------------
SocketInv == SocketTypeOK /\ OneWatchedSocket

\* Opening a socket first detaches and closes the shared one.
LEMMA ConnectSocket == ASSUME NEW s \in Socket, SocketInv, ConnectWS(s) PROVE SocketInv'
  <1> USE DEF ConnectWS, Dropped
  <1>1. SocketTypeOK'
    BY DEF SocketInv, SocketTypeOK
  <1>2. ASSUME NEW t \in attached', link'[t] # "gone", t # s PROVE FALSE
    <2>1. t \in attached /\ t \in Socket /\ t # ws
      BY <1>2 DEF SocketInv, SocketTypeOK
    <2>2. link[t] # "gone" BY <1>2, <2>1
    <2>3. QED BY <2>1, <2>2 DEF SocketInv, OneWatchedSocket
  <1>3. OneWatchedSocket' BY <1>2 DEF OneWatchedSocket
  <1>4. QED BY <1>1, <1>3 DEF SocketInv

LEMMA StillAliveSocket == SocketInv /\ StillAlive => SocketInv'
  BY DEF SocketInv, SocketTypeOK, OneWatchedSocket, StillAlive

\* Whatever the timers, the browser, the user and the network do, the page has
\* at most one live socket that is listened to, and a timer that will notice
\* its loss (connectWS, dropWS, checkWSLiveness of public/app.js).
THEOREM OneWatchedSocketHolds == Spec => []OneWatchedSocket
  <1>1. Init => SocketInv
    BY DEF Init, SocketInit, SocketInv, SocketTypeOK, OneWatchedSocket, NoSocket
  <1>2. SocketInv /\ [Next]_vars => SocketInv'
    <2> SUFFICES ASSUME SocketInv, [Next]_vars PROVE SocketInv'
      OBVIOUS
    <2>1. CASE PageLoads \/ PullReconnect \/ ReconnectFires \/ WatchdogFires \/ ResumeCheck
      BY <2>1, ConnectSocket, StillAliveSocket
         DEF PageLoads, PullReconnect, ReconnectFires, WatchdogFires, ResumeCheck
    <2>2. CASE Opens \/ GoesSilent
      <3>1. PICK s \in Socket, l \in {"open", "silent"} :
              /\ link[s] \in {"connecting", "open"} /\ link' = [link EXCEPT ![s] = l]
              /\ UNCHANGED <<ws, attached, watchdog, reconnect, heard>>
        BY <2>2 DEF Opens, GoesSilent
      <3>2. SocketTypeOK' BY <3>1 DEF SocketInv, SocketTypeOK
      <3>3. OneWatchedSocket' BY <3>1 DEF SocketInv, SocketTypeOK, OneWatchedSocket
      <3>4. QED BY <3>2, <3>3 DEF SocketInv
    <2>3. ASSUME NEW s \in Socket, Closes(s) PROVE SocketInv'
      <3>1. SocketTypeOK' BY <2>3 DEF Closes, SocketInv, SocketTypeOK
      <3>2. OneWatchedSocket' BY <2>3 DEF Closes, SocketInv, SocketTypeOK, OneWatchedSocket
      <3>3. QED BY <3>1, <3>2 DEF SocketInv
    <2>4. ASSUME NEW s \in Socket, Frame(s) PROVE SocketInv'
      BY <2>4 DEF Frame, SocketInv, SocketTypeOK, OneWatchedSocket
    <2>5. CASE UNCHANGED socketVars
      BY <2>5 DEF socketVars, SocketInv, SocketTypeOK, OneWatchedSocket
    <2>6. QED
      BY <2>1, <2>2, <2>3, <2>4, <2>5
         DEF Next, SocketStep, Packet, Heartbeat, InvalidateFires, vars
  <1>3. SocketInv => OneWatchedSocket BY DEF SocketInv
  <1>4. QED BY <1>1, <1>2, <1>3, PTL DEF Spec
==============================================================================
