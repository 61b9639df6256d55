------------------------------- MODULE AppShell -------------------------------
(***************************************************************************)
(* The shell of the web frontend (public/app.js): the api() cache and the  *)
(* shared socket, joined by the debounced invalidation that a frame on the *)
(* socket schedules.                                                       *)
(***************************************************************************)
EXTENDS ApiCache, SharedSocket

CONSTANT Pushed    \* the paths whose data a pushed packet makes old

VARIABLE invalidateTimer   \* api._invalidateTimer is armed

vars == <<apiVars, socketVars, invalidateTimer>>

Init == ApiInit /\ SocketInit /\ invalidateTimer = FALSE

\* A packet arrives: the frame counts as life and arms the timer.
Packet ==
    /\ \E s \in Socket : Frame(s)
    /\ invalidateTimer' = TRUE
    /\ UNCHANGED apiVars

Heartbeat ==
    /\ \E s \in Socket : Frame(s)
    /\ UNCHANGED <<apiVars, invalidateTimer>>

InvalidateFires ==
    /\ invalidateTimer /\ invalidateTimer' = FALSE
    /\ Invalidate(Pushed)
    /\ UNCHANGED <<socketVars, version, slot, st, use, answer, attempt, notified, banner,
                   refreshed, owed>>

SocketStep ==
    \/ PageLoads \/ PullReconnect \/ ReconnectFires \/ WatchdogFires \/ ResumeCheck
    \/ Opens \/ GoesSilent \/ \E s \in Socket : Closes(s)

Next ==
    \/ ApiNext /\ UNCHANGED <<socketVars, invalidateTimer>>
    \/ SocketStep /\ UNCHANGED <<apiVars, invalidateTimer>>
    \/ Packet \/ Heartbeat \/ InvalidateFires

Spec == Init /\ [][Next]_vars

\* Timers fire, the server or the network ends every fetch, and the browser
\* finishes closing a socket that was replaced.
FairSpec ==
    /\ Spec
    /\ \A c \in Call : WF_vars(CallStep(c) /\ UNCHANGED <<socketVars, invalidateTimer>>)
    /\ WF_vars((WatchdogFires \/ ReconnectFires) /\ UNCHANGED <<apiVars, invalidateTimer>>)
    /\ WF_vars(/\ \E s \in Socket : link[s] = "closing" /\ Closes(s)
               /\ UNCHANGED <<apiVars, invalidateTimer>>)

TypeOK == ApiTypeOK /\ SocketTypeOK /\ invalidateTimer \in BOOLEAN
==============================================================================
