------------------------------ MODULE Delivery ------------------------------
(***************************************************************************)
(* The way of an event from the bus to a page: WebSocketBroadcaster sends  *)
(* market events to everyone and order events to their user, through the   *)
(* registry of WebsocketServer, over the sockets of the browser's service  *)
(* (WsClient).  A connection's identity is the token its URL carried when  *)
(* the socket was made, verified when the server upgrades it.  Both ends   *)
(* notice the end of a connection on their own and in any order.           *)
(***************************************************************************)
EXTENDS WsClient, Sequences

CONSTANTS Users, Anonymous, Everyone, Absent, NoToken,
          MaxEvents             \* bound: events published

ASSUME UsersAssumption == {Anonymous, Everyone, Absent, NoToken, "not served"} \cap Users = {}
ASSUME NamesAssumption == Absent # Anonymous /\ "not served" \notin {Anonymous, Absent}

VARIABLES
    token,          \* the token in localStorage: whose it is, or NoToken
    asked,          \* the token in the URL of each socket
    up,             \* the server's end: "none", "open", "closed"
    clients,        \* registry: the identity of each registered connection, or Absent
    userClients,    \* registry: the connections of each user
    wire,           \* messages sent to a socket and not yet delivered
    published,      \* audiences of the events notified on the bus
    heard           \* what the page's listeners were called with

serverVars == <<up, clients, userClients, wire, published>>
pageVars   == <<token, asked, heard>>
allVars    == <<vars, serverVars, pageVars>>

Audiences  == Users \cup {Everyone}
Tokens     == Users \cup {NoToken}
Identities == Users \cup {Anonymous}

\* A connection is registered only while the server's end is open, and only
\* what the server holds or the browser still reads has messages on the wire.
DeliveryTypeOK ==
    /\ TypeOK
    /\ token \in Tokens /\ asked \in [Sockets -> Tokens]
    /\ up \in [Sockets -> {"none", "open", "closed"}]
    /\ clients \in [Sockets -> Identities \cup {Absent}]
    /\ userClients \in [Users -> SUBSET Sockets]
    /\ \A s \in Sockets : /\ clients[s] # Absent => up[s] = "open"
                          /\ socket[s] = "unused" => wire[s] = <<>>
    /\ published \in Seq(Audiences)

DeliveryInit ==
    /\ Init
    /\ token = NoToken /\ asked = [s \in Sockets |-> NoToken]
    /\ up = [s \in Sockets |-> "none"]
    /\ clients = [s \in Sockets |-> Absent]
    /\ userClients = [u \in Users |-> {}]
    /\ wire = [s \in Sockets |-> <<>>]
    /\ published = <<>> /\ heard = <<>>

-----------------------------------------------------------------------------
(* The registry (ws-client.registry.ts)                                    *)

Register(s, who) ==
    /\ clients' = [clients EXCEPT ![s] = who]
    /\ userClients' = [u \in Users |-> userClients[u] \cup (IF u = who THEN {s} ELSE {})]

\* Slip: the user's set keeps the connection.
UserClientsKept(gone) == userClients

UserClientsWithout(gone) == [u \in Users |-> userClients[u] \ gone]

\* unregister of every connection in gone; a second call finds nothing.
Unregister(gone) ==
    /\ clients' = [s \in Sockets |-> IF s \in gone THEN Absent ELSE clients[s]]
    /\ userClients' = UserClientsWithout(gone)

-----------------------------------------------------------------------------
(* The server                                                              *)

\* handleUpgrade: no token, or one that is refused or has expired, connects
\* all the same, as nobody.
Resolves(asking) == {Anonymous} \cup (asking \ {NoToken})

\* The upgrade succeeds and the open handler registers the connection.
ServerOpen(s) ==
    /\ up[s] = "none"
    /\ socket[s] \in {"CONNECTING", "CLOSING"}
    /\ up' = [up EXCEPT ![s] = "open"]
    /\ \E who \in Resolves({asked[s]}) : Register(s, who)
    /\ UNCHANGED <<vars, pageVars, wire, published>>

\* The close handler: the browser closed, the connection dropped, or the
\* server hung up.
ServerClose(s) ==
    /\ up[s] = "open"
    /\ up' = [up EXCEPT ![s] = IF socket[s] \in {"unused", "CLOSED"} THEN "none" ELSE "closed"]
    /\ Unregister({s})
    /\ UNCHANGED <<vars, pageVars, wire, published>>

\* Slip: order events go to everyone.
RecipientsAll(audience) == {s \in Sockets : clients[s] # Absent}

\* broadcast goes over the clients, sendToUser over the set of the user.
Recipients(audience) ==
    IF audience = Everyone THEN {s \in Sockets : clients[s] # Absent}
                           ELSE {s \in userClients[audience] : clients[s] # Absent}

\* notify runs the broadcaster's listener to its end.  A send that throws
\* unregisters its connection; one that closed at the other end is swallowed.
Notify(audience) ==
    /\ Len(published) < MaxEvents
    /\ published' = Append(published, audience)
    /\ \E throws \in SUBSET Recipients(audience) :
        /\ Unregister(throws)
        /\ wire' = [s \in Sockets |->
             IF s \in Recipients(audience) \ throws /\ socket[s] \in Live
             THEN Append(wire[s], Len(published) + 1) ELSE wire[s]]
    /\ UNCHANGED <<vars, pageVars, up>>

-----------------------------------------------------------------------------
(* The page                                                                *)

\* A socket that was let go of is not read any more.
Unread == [s \in Sockets |-> IF socket'[s] \in Live THEN wire[s] ELSE <<>>]

\* buildWsUrl reads the stored token when the socket is made.
BuildsUrl(stored) ==
    /\ up[websocket'] = "none"
    /\ asked' = [asked EXCEPT ![websocket'] = stored]

\* Log in, log out or load the page: the token changes and the effect runs.
PageRunEffect(new) ==
    /\ RunEffect
    /\ token' = new
    /\ BuildsUrl(new)
    /\ wire' = Unread
    /\ UNCHANGED <<up, clients, userClients, published, heard>>

\* Another tab of the browser changes the stored token; no effect runs here.
OtherTab(new) ==
    /\ runs < MaxRuns /\ runs' = runs + 1
    /\ token # new /\ token' = new
    /\ UNCHANGED <<socket, websocket, manualClose, reconnectTimeout, connected,
                   serverVars, asked, heard>>

PageOnOpen(s) ==
    /\ up[s] # "none"
    /\ OnOpen(s)
    /\ UNCHANGED <<serverVars, pageVars>>

PageOnClose(s) ==
    /\ OnClose(s)
    /\ up' = [up EXCEPT ![s] = IF @ = "closed" THEN "none" ELSE @]
    /\ wire' = Unread
    /\ UNCHANGED <<clients, userClients, published, pageVars>>

PageOnTimeout ==
    /\ OnTimeout
    /\ \/ websocket' = websocket /\ socket' = socket /\ UNCHANGED asked
       \/ socket' # socket /\ BuildsUrl(token)
    /\ UNCHANGED <<serverVars, token, heard>>

Reads(s) == socket[s] = "OPEN"

\* onmessage calls the listeners of the type; a browser fires it only while
\* the socket is OPEN.
OnMessage(s) ==
    /\ Reads(s)
    /\ wire[s] # <<>>
    /\ heard' = Append(heard, Head(wire[s]))
    /\ wire' = [wire EXCEPT ![s] = Tail(@)]
    /\ UNCHANGED <<vars, token, asked, up, clients, userClients, published>>

-----------------------------------------------------------------------------

DeliveryNext ==
    \/ \E audience \in Audiences : Notify(audience)
    \/ \E t \in Tokens : PageRunEffect(t) \/ OtherTab(t)
    \/ \E s \in Sockets : \/ ServerOpen(s) \/ ServerClose(s)
                          \/ PageOnOpen(s) \/ PageOnClose(s) \/ OnMessage(s)
    \/ PageOnTimeout

\* Timers fire, messages that have arrived are dispatched, and the browser and
\* the server learn in the end what became of a connection.
DeliveryFairness ==
    /\ WF_allVars(PageOnTimeout)
    /\ \A s \in Sockets :
        /\ WF_allVars(OnMessage(s))
        /\ WF_allVars(PageOnOpen(s))
        /\ WF_allVars(socket[s] = "CLOSING" /\ PageOnClose(s))
        /\ WF_allVars(up[s] = "closed" /\ PageOnClose(s))
        /\ WF_allVars(socket[s] \notin Live /\ ServerClose(s))

DeliverySpec == DeliveryInit /\ [][DeliveryNext]_allVars /\ DeliveryFairness

-----------------------------------------------------------------------------

\* The two maps of the registry agree: a user's set holds just that user's
\* registered connections, so that neither a failed send nor a close in any
\* order leaves a connection that events would still be sent to, or hides one.
RegistryAgrees ==
    \A u \in Users : userClients[u] = {s \in Sockets : clients[s] = u}

\* The Feed's view: whom the server takes the page for over the connection it
\* listens to, and what is under way there.
Current  == websocket # NoSocket /\ socket[websocket] \in Live
ServedAs == IF Current /\ clients[websocket] # Absent THEN clients[websocket] ELSE "not served"
OnTheWay == IF Current THEN wire[websocket] ELSE <<>>

\* The WebSocket path is the Feed: through drops, reconnects and changes of
\* the token the page hears what the server sends it in order, once, without
\* a gap, and nothing meant for another user (broadcaster, registry, onmessage
\* and the guards against a second connection together).
Channel == INSTANCE Feed WITH as <- ServedAs, sent <- OnTheWay

FeedSpec == Channel!Spec
=============================================================================
