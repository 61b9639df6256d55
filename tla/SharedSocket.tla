----------------------------- MODULE SharedSocket -----------------------------
(***************************************************************************)
(* The one WebSocket every view shares (connectWS, dropWS, checkWSLiveness *)
(* of public/app.js), its watchdog and its reconnect timer.  A socket that *)
(* was replaced lives on in the browser until its closing handshake ends.  *)
(***************************************************************************)
EXTENDS Naturals

CONSTANT Socket   \* bound: sockets the browser has at a time

VARIABLES
    ws,          \* the shared socket, or NoSocket
    link,        \* per socket: "gone", "connecting", "open", "silent", "closing"
    attached,    \* sockets whose handlers are set
    watchdog,    \* wsWatchdogTimer is armed
    reconnect,   \* wsReconnectTimer is armed
    heard        \* a frame arrived since the watchdog was armed

socketVars == <<ws, link, attached, watchdog, reconnect, heard>>

NoSocket == "none"

SocketInit ==
    /\ ws = NoSocket
    /\ link = [s \in Socket |-> "gone"]
    /\ attached = {}
    /\ watchdog = FALSE /\ reconnect = FALSE /\ heard = FALSE

\* The bug of opening a new socket and leaving the old one alone.
DroppedNot(s) == {}

\* dropWS: detach the handlers of the current socket and close it.
Dropped(s) == {ws} \cap Socket

\* connectWS: cancel a pending reconnect, drop the current socket, open s.
ConnectWS(s) ==
    /\ link[s] = "gone"
    /\ ws' = s
    /\ attached' = (attached \ Dropped(s)) \cup {s}
    /\ link' = [t \in Socket |-> IF t = s THEN "connecting"
                                 ELSE IF t \in Dropped(s) /\ link[t] # "gone" THEN "closing"
                                 ELSE link[t]]
    /\ watchdog' = TRUE /\ reconnect' = FALSE /\ heard' = FALSE

\* At page load, by pull-to-reconnect, or when the reconnect timer fires.
PageLoads == ws = NoSocket /\ \E s \in Socket : ConnectWS(s)

PullReconnect == ws # NoSocket /\ \E s \in Socket : ConnectWS(s)

ReconnectFires == reconnect /\ \E s \in Socket : ConnectWS(s)

\* checkWSLiveness finds the socket alive: the watchdog is armed for the rest.
StillAlive ==
    /\ watchdog' = TRUE /\ heard' = FALSE
    /\ UNCHANGED <<ws, link, attached, reconnect>>

\* The bug of taking a socket that still looks open for alive.
WatchdogTrusts == watchdog /\ ~reconnect /\ StillAlive

\* The watchdog fires: a frame since it was armed means the socket is alive,
\* none means it has been silent for WS_STALE_MS (or the clock stepped).
WatchdogFires ==
    /\ watchdog /\ ~reconnect
    /\ \/ heard /\ StillAlive
       \/ ~heard /\ \E s \in Socket : ConnectWS(s)

\* Page visible or online again: the same check at any time, so the silence
\* it measures is open.  Inert while a reconnect is scheduled.
ResumeCheck ==
    /\ ws # NoSocket /\ ~reconnect
    /\ StillAlive \/ \E s \in Socket : ConnectWS(s)
------------------------------------------------------------------------------
Opens ==
    \E s \in Socket :
        /\ link[s] = "connecting"
        /\ link' = [link EXCEPT ![s] = "open"]
        /\ UNCHANGED <<ws, attached, watchdog, reconnect, heard>>

\* A connection goes half-open: no frame, no close event.
GoesSilent ==
    \E s \in Socket :
        /\ link[s] \in {"connecting", "open"}
        /\ link' = [link EXCEPT ![s] = "silent"]
        /\ UNCHANGED <<ws, attached, watchdog, reconnect, heard>>

\* onmessage of an attached socket; a heartbeat is a frame too.
Frame(s) ==
    /\ link[s] = "open" /\ s \in attached
    /\ heard' = TRUE
    /\ UNCHANGED <<ws, link, attached, watchdog, reconnect>>

\* The close event of a socket, wanted or not, early or late.  onclose acts
\* for the shared socket only.
Closes(s) ==
    /\ link[s] # "gone"
    /\ link' = [link EXCEPT ![s] = "gone"]
    /\ IF s \in attached /\ ws = s
       THEN watchdog' = FALSE /\ reconnect' = TRUE
       ELSE UNCHANGED <<watchdog, reconnect>>
    /\ UNCHANGED <<ws, attached, heard>>
------------------------------------------------------------------------------
SocketTypeOK ==
    /\ ws \in Socket \cup {NoSocket}
    /\ link \in [Socket -> {"gone", "connecting", "open", "silent", "closing"}]
    /\ attached \subseteq Socket
    /\ watchdog \in BOOLEAN /\ reconnect \in BOOLEAN /\ heard \in BOOLEAN

\* Once the page has connected, frames come from one socket at most, and some
\* timer is armed that will notice when that socket is lost: reconnects,
\* watchdog, resume checks and pulls in any order leave neither two live
\* sockets nor a page that waits for nothing.
OneWatchedSocket ==
    /\ {s \in attached : link[s] # "gone"} \subseteq {ws}
    /\ ws # NoSocket => watchdog \/ reconnect

\* A half-open socket is replaced although no close event ever comes.
\* (Equivalent to Silent ~> ~Silent.)
Silent == ws \in Socket /\ link[ws] = "silent"
SilentIsReplaced == []<>~Silent
==============================================================================
