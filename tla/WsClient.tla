------------------------------ MODULE WsClient ------------------------------
(***************************************************************************)
(* The browser's WebSocket service (services/websocket.ts), a module with  *)
(* one current socket, a reconnect timer and a flag that tells a wanted    *)
(* close from a dropped connection, under the effect of useWebSocket that  *)
(* disconnects and connects anew whenever the token changes.  The browser  *)
(* reports what becomes of a socket by onopen and onclose, in any order    *)
(* between sockets; readyState turns CLOSED in the task that runs onclose. *)
(***************************************************************************)
EXTENDS Naturals, FiniteSets

CONSTANTS
    Sockets,        \* WebSocket objects, used again once nobody holds them
    NoSocket,
    MaxRuns         \* bound: runs of the effect

ASSUME SocketsAssumption == NoSocket \notin Sockets
ASSUME RunsAssumption    == MaxRuns \in Nat

VARIABLES
    socket,         \* readyState of each socket, "unused" when nobody holds it
    websocket,      \* the current socket
    manualClose,
    reconnectTimeout,   \* is the timer set?
    connected,      \* what useWebSocket reports
    runs            \* runs of the effect so far

vars == <<socket, websocket, manualClose, reconnectTimeout, connected, runs>>

Live == {"CONNECTING", "OPEN"}

\* The service holds a socket that is in use and not being closed, and a socket
\* that is CLOSED only until it is replaced.
TypeOK ==
    /\ socket \in [Sockets -> Live \cup {"unused", "CLOSING", "CLOSED"}]
    /\ websocket \in Sockets \cup {NoSocket}
    /\ manualClose \in BOOLEAN /\ reconnectTimeout \in BOOLEAN /\ connected \in BOOLEAN
    /\ runs \in 0..MaxRuns
    /\ \A s \in Sockets : socket[s] = "CLOSED" => s = websocket
    /\ websocket # NoSocket => socket[websocket] \notin {"unused", "CLOSING"}

Init ==
    /\ socket = [s \in Sockets |-> "unused"]
    /\ websocket = NoSocket
    /\ manualClose = FALSE /\ reconnectTimeout = FALSE /\ connected = FALSE
    /\ runs = 0

-----------------------------------------------------------------------------

\* Slip: the reference is dropped and the socket left open.
ReleasedUnclosed == socket

\* The sockets once the current one is closed and let go of: a close() of a
\* socket that is CLOSED does nothing, and nothing is left of it.
Released ==
    [s \in Sockets |-> IF s # websocket THEN socket[s]
                       ELSE IF socket[s] \in Live THEN "CLOSING" ELSE "unused"]

\* initWebSocket makes a new socket the current one.
Connects(sockets) ==
    \E s \in Sockets :
        /\ sockets[s] = "unused"
        /\ websocket' = s
        /\ socket' = [sockets EXCEPT ![s] = "CONNECTING"]

\* The effect of useWebSocket: disconnect(), then initWebSocket().
RunEffect ==
    /\ runs < MaxRuns
    /\ runs' = runs + 1
    /\ manualClose' = (manualClose \/ websocket # NoSocket)
    /\ reconnectTimeout' = FALSE
    /\ Connects(Released)
    /\ UNCHANGED connected

OnOpen(s) ==
    /\ socket[s] = "CONNECTING"
    /\ socket' = [socket EXCEPT ![s] = "OPEN"]
    /\ connected' = TRUE
    /\ UNCHANGED <<websocket, manualClose, reconnectTimeout, runs>>

\* Slip: the page hears only of the current socket's close.
SaysAfterCurrent(s) == connected /\ s # websocket

\* What the page is told of the connection after any close.
SaysAfter(s) == FALSE

\* A refused or dropped connection, or the end of a close().
OnClose(s) ==
    /\ socket[s] \in Live \cup {"CLOSING"}
    /\ socket' = [socket EXCEPT ![s] = IF s = websocket THEN "CLOSED" ELSE "unused"]
    /\ connected' = SaysAfter(s)
    /\ \/ manualClose /\ manualClose' = FALSE /\ UNCHANGED reconnectTimeout
       \/ ~manualClose /\ reconnectTimeout' = TRUE /\ UNCHANGED manualClose
    /\ UNCHANGED <<websocket, runs>>

\* Slip: the timer does not look for a live connection.
SkipsReconnectNever == FALSE

\* Slip: any socket counts as a live connection.
SkipsReconnectForAny == websocket # NoSocket

\* A live connection makes the reconnect a duplicate.
SkipsReconnect == websocket # NoSocket /\ socket[websocket] \in Live

\* Three seconds after scheduleReconnect.
OnTimeout ==
    /\ reconnectTimeout
    /\ reconnectTimeout' = FALSE
    /\ \/ SkipsReconnect /\ UNCHANGED <<socket, websocket>>
       \/ ~SkipsReconnect /\ Connects([s \in Sockets |->
             IF s = websocket /\ socket[s] = "CLOSED" THEN "unused" ELSE socket[s]])
    /\ UNCHANGED <<manualClose, connected, runs>>

Next ==
    \/ RunEffect
    \/ \E s \in Sockets : OnOpen(s) \/ OnClose(s)
    \/ OnTimeout

\* Timers fire, and the browser reports in the end how a close() or a
\* connection attempt went.  Neither a drop nor a change of the token is due.
Fairness ==
    /\ WF_vars(OnTimeout)
    /\ \A s \in Sockets : WF_vars(OnOpen(s)) /\ WF_vars(socket[s] = "CLOSING" /\ OnClose(s))

Spec     == Init /\ [][Next]_vars
FairSpec == Spec /\ Fairness

-----------------------------------------------------------------------------

\* At most one socket can deliver events, and it is the current one: neither
\* the timer nor the effect leaves another connection behind (each would
\* deliver every event once more).
OneLiveSocket ==
    \A s \in Sockets : socket[s] \in Live => s = websocket

Settled == \A s \in Sockets : socket[s] # "CLOSING"

\* A dropped connection is retried: once every close() has been reported, a
\* socket found CLOSED has the timer running (README, "auto-reconnects").
RetriedWhenDown ==
    Settled /\ websocket # NoSocket /\ socket[websocket] = "CLOSED" => reconnectTimeout

\* Once every close() has been reported, a page that says it is connected is:
\* the one flag that all sockets report to never shows a connection that is
\* being made anew, was refused or dropped.
ConnectedIsOpen ==
    Settled /\ connected => websocket # NoSocket /\ socket[websocket] = "OPEN"

\* A timer that is set, whether it fires or is cleared by a new run of the
\* effect, is followed by an attempt to connect (scheduleReconnect).
TimerReconnects ==
    reconnectTimeout ~> (websocket # NoSocket /\ socket[websocket] \in Live)
=============================================================================
