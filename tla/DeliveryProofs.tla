--------------------------- MODULE DeliveryProofs ---------------------------
(***************************************************************************)
(* Theorems about WsClient and Delivery for any number of sockets, users,  *)
(* events and runs of the effect: the page has one live connection, the    *)
(* registry's two maps agree, and the two together implement the Feed.     *)
(***************************************************************************)
EXTENDS Delivery, TLAPS

-----------------------------------------------------------------------------
(* Names                                                                   *)

LEMMA NamesApart ==
    ASSUME NEW u \in Users
    PROVE  u # Anonymous /\ u # Everyone /\ u # Absent /\ u # NoToken /\ u # "not served"
<1>1. u \notin {Anonymous, Everyone, Absent, NoToken, "not served"}
  BY UsersAssumption
<1>2. QED
  BY <1>1

-----------------------------------------------------------------------------
(* The page's connections                                                  *)

connectionVars == <<socket, websocket, manualClose, reconnectTimeout, connected>>

\* What the rest of the system leaves of WsClient, its own steps aside.
OnlyRuns == UNCHANGED connectionVars /\ runs' \in 0..MaxRuns

\* The other tab takes part by runs alone.
ConnectionsNext ==
    \/ RunEffect
    \/ \E s \in Sockets : OnOpen(s) \/ OnClose(s)
    \/ OnTimeout
    \/ OnlyRuns

ConnectionInv == TypeOK /\ OneLiveSocket /\ ConnectedIsOpen

LEMMA ConnectionInit == DeliveryInit => ConnectionInv
<1> SUFFICES ASSUME Init PROVE ConnectionInv
  BY DEF DeliveryInit
<1> USE SocketsAssumption DEF Init, Live
<1>1. runs \in 0..MaxRuns
  BY RunsAssumption
<1>2. TypeOK
  BY <1>1 DEF TypeOK
<1>3. OneLiveSocket /\ ConnectedIsOpen
  BY DEF OneLiveSocket, ConnectedIsOpen
<1>4. QED
  BY <1>2, <1>3 DEF ConnectionInv

LEMMA RunsGoUp == ASSUME runs \in 0..MaxRuns, runs < MaxRuns, runs' = runs + 1 PROVE runs' \in 0..MaxRuns
BY RunsAssumption

LEMMA ConnectionStep == ConnectionInv /\ ConnectionsNext => ConnectionInv'
<1> SUFFICES ASSUME ConnectionInv, ConnectionsNext PROVE ConnectionInv'
  OBVIOUS
<1> USE SocketsAssumption DEF ConnectionInv, TypeOK, OneLiveSocket, ConnectedIsOpen, Settled, Live
<1>1. CASE RunEffect
  <2>1. PICK s \in Sockets : /\ Released[s] = "unused"
                             /\ websocket' = s
                             /\ socket' = [Released EXCEPT ![s] = "CONNECTING"]
    BY <1>1 DEF RunEffect, Connects
  <2>2. runs' \in 0..MaxRuns
    BY <1>1, RunsGoUp DEF RunEffect
  <2>3. UNCHANGED connected /\ manualClose' \in BOOLEAN /\ reconnectTimeout' \in BOOLEAN
    BY <1>1 DEF RunEffect
  <2>4. TypeOK' /\ OneLiveSocket'
    BY <2>1, <2>2, <2>3 DEF Released
  <2>5. ASSUME connected PROVE \E t \in Sockets : socket'[t] = "CLOSING"
    <3>1. CASE \E t \in Sockets : socket[t] = "CLOSING"
      BY <2>1, <3>1 DEF Released
    <3>2. CASE websocket # NoSocket /\ socket[websocket] = "OPEN"
      BY <2>1, <3>2 DEF Released
    <3>3. QED
      BY <2>5, <3>1, <3>2
  <2>6. QED
    BY <2>3, <2>4, <2>5
<1>2. ASSUME NEW s \in Sockets, OnOpen(s)
      PROVE  ConnectionInv'
  BY <1>2 DEF OnOpen
<1>3. ASSUME NEW s \in Sockets, OnClose(s)
      PROVE  ConnectionInv'
  BY <1>3 DEF OnClose, SaysAfter
<1>4. CASE OnTimeout
  <2>1. CASE UNCHANGED <<socket, websocket>>
    BY <1>4, <2>1 DEF OnTimeout
  <2>2. CASE ~SkipsReconnect
    <3> DEFINE rest == [s \in Sockets |-> IF s = websocket /\ socket[s] = "CLOSED" THEN "unused" ELSE socket[s]]
    <3>1. CASE Connects(rest)
      <4>1. PICK s \in Sockets : /\ rest[s] = "unused"
                                 /\ websocket' = s
                                 /\ socket' = [rest EXCEPT ![s] = "CONNECTING"]
        BY <3>1 DEF Connects
      <4>2. \A t \in Sockets : socket[t] \notin Live
        BY <2>2 DEF SkipsReconnect
      <4>3. TypeOK' /\ OneLiveSocket'
        BY <1>4, <4>1, <4>2 DEF OnTimeout
      <4>4. connected' => \E t \in Sockets : socket'[t] = "CLOSING"
        BY <1>4, <4>1, <4>2 DEF OnTimeout
      <4>5. QED
        BY <4>3, <4>4
    <3>2. QED
      BY <1>4, <2>1, <2>2, <3>1 DEF OnTimeout
  <2>3. QED
    BY <1>4, <2>1, <2>2 DEF OnTimeout
<1>5. CASE OnlyRuns
  BY <1>5 DEF OnlyRuns, connectionVars
<1>6. QED
  BY <1>1, <1>2, <1>3, <1>4, <1>5 DEF ConnectionsNext

-----------------------------------------------------------------------------
(* The registry and the wires                                              *)

\* A connection is registered while the server's end is open; nothing is on
\* the wire of a socket that the page does not read, or that the server has not
\* taken up yet.
ServerInv ==
    /\ up \in [Sockets -> {"none", "open", "closed"}]
    /\ clients \in [Sockets -> Identities \cup {Absent}]
    /\ userClients \in [Users -> SUBSET Sockets]
    /\ wire = [s \in Sockets |-> wire[s]]
    /\ asked \in [Sockets -> Tokens] /\ token \in Tokens
    /\ \A s \in Sockets : clients[s] # Absent => up[s] = "open"
    /\ \A s \in Sockets : up[s] = "none" \/ socket[s] \notin Live => wire[s] = <<>>
    /\ RegistryAgrees

DeliveryInv == ConnectionInv /\ ServerInv

LEMMA DeliveryInvInit == DeliveryInit => DeliveryInv
<1> SUFFICES ASSUME DeliveryInit PROVE ServerInv
  BY ConnectionInit DEF DeliveryInv
<1> USE UsersAssumption, NamesAssumption DEF DeliveryInit
<1>1. up \in [Sockets -> {"none", "open", "closed"}] /\ wire = [s \in Sockets |-> wire[s]]
  OBVIOUS
<1>2. /\ clients \in [Sockets -> Identities \cup {Absent}]
      /\ userClients \in [Users -> SUBSET Sockets]
      /\ asked \in [Sockets -> Tokens] /\ token \in Tokens
  BY DEF Identities, Tokens
<1>3. RegistryAgrees
  BY DEF RegistryAgrees
<1>4. \A s \in Sockets : clients[s] = Absent /\ wire[s] = <<>>
  OBVIOUS
<1>5. QED
  BY <1>1, <1>2, <1>3, <1>4 DEF ServerInv

\* Every step is one of the page's connections, or leaves them alone.
LEMMA DeliveryIsConnections ==
    ConnectionInv /\ [DeliveryNext]_allVars => ConnectionsNext \/ UNCHANGED vars
<1> SUFFICES ASSUME ConnectionInv, [DeliveryNext]_allVars PROVE ConnectionsNext \/ UNCHANGED vars
  OBVIOUS
<1> USE DEF ConnectionsNext
<1>1. ASSUME NEW audience \in Audiences, Notify(audience) PROVE UNCHANGED vars
  BY <1>1 DEF Notify
<1>2. ASSUME NEW t \in Tokens, PageRunEffect(t) PROVE RunEffect
  BY <1>2 DEF PageRunEffect
<1>3. ASSUME NEW t \in Tokens, OtherTab(t) PROVE OnlyRuns
  <2>1. runs' \in 0..MaxRuns
    BY <1>3, RunsGoUp DEF OtherTab, ConnectionInv, TypeOK
  <2>2. QED
    BY <1>3, <2>1 DEF OtherTab, OnlyRuns, connectionVars
<1>4. ASSUME NEW s \in Sockets, ServerOpen(s) \/ ServerClose(s) \/ OnMessage(s) PROVE UNCHANGED vars
  BY <1>4 DEF ServerOpen, ServerClose, OnMessage
<1>5. ASSUME NEW s \in Sockets, PageOnOpen(s) \/ PageOnClose(s) PROVE ConnectionsNext
  BY <1>5 DEF PageOnOpen, PageOnClose
<1>6. ASSUME PageOnTimeout PROVE OnTimeout
  BY <1>6 DEF PageOnTimeout
<1>7. CASE UNCHANGED allVars
  BY <1>7 DEF allVars
<1>8. QED
  BY <1>1, <1>2, <1>3, <1>4, <1>5, <1>6, <1>7 DEF DeliveryNext

LEMMA ConnectionsKeep == ConnectionInv /\ [DeliveryNext]_allVars => ConnectionInv'
<1> SUFFICES ASSUME ConnectionInv, [DeliveryNext]_allVars PROVE ConnectionInv'
  OBVIOUS
<1>1. CASE ConnectionsNext
  BY <1>1, ConnectionStep
<1>2. CASE UNCHANGED vars
  BY <1>2 DEF vars, ConnectionInv, TypeOK, OneLiveSocket, ConnectedIsOpen, Settled
<1>3. QED
  BY <1>1, <1>2, DeliveryIsConnections

-----------------------------------------------------------------------------

LEMMA RecipientsAreRegistered ==
    ASSUME NEW audience PROVE \A s \in Recipients(audience) : clients[s] # Absent
<1>1. CASE audience = Everyone
  BY <1>1 DEF Recipients
<1>2. CASE audience # Everyone
  BY <1>2 DEF Recipients
<1>3. QED
  BY <1>1, <1>2

LEMMA UnreadIsRead ==
    ASSUME ServerInv
    PROVE  /\ Unread = [s \in Sockets |-> Unread[s]]
           /\ \A s \in Sockets : up[s] = "none" \/ socket'[s] \notin Live => Unread[s] = <<>>
           /\ \A s \in Sockets : socket'[s] \in Live => Unread[s] = wire[s]
<1>1. \A s \in Sockets : up[s] = "none" => wire[s] = <<>>
  BY DEF ServerInv
<1>2. QED
  BY <1>1 DEF Unread

\* A reconnect ends no connection that is alive.
LEMMA TimeoutEndsNothing ==
    ASSUME ConnectionInv, OnTimeout
    PROVE  \A s \in Sockets : socket[s] \in Live => socket'[s] \in Live
<1>1. CASE UNCHANGED socket
  BY <1>1
<1>2. CASE ~SkipsReconnect
  BY <1>2, SocketsAssumption DEF SkipsReconnect, ConnectionInv, OneLiveSocket
<1>3. QED
  BY <1>1, <1>2 DEF OnTimeout

LEMMA ResolvesToSomeone ==
    ASSUME NEW a \in Tokens, NEW who \in Resolves({a}) PROVE who \in Identities
BY DEF Tokens, Resolves, Identities

\* A connection that was in neither map goes into both.
LEMMA RegisterAgrees ==
    ASSUME RegistryAgrees, userClients \in [Users -> SUBSET Sockets],
           clients \in [Sockets -> Identities \cup {Absent}],
           NEW s \in Sockets, clients[s] = Absent, NEW who \in Identities, Register(s, who)
    PROVE  /\ clients' \in [Sockets -> Identities \cup {Absent}]
           /\ userClients' \in [Users -> SUBSET Sockets]
           /\ RegistryAgrees'
<1>1. clients' = [clients EXCEPT ![s] = who]
      /\ userClients' = [u \in Users |-> userClients[u] \cup (IF u = who THEN {s} ELSE {})]
  BY DEF Register
<1>2. clients' \in [Sockets -> Identities \cup {Absent}] /\ userClients' \in [Users -> SUBSET Sockets]
  BY <1>1
<1>3. ASSUME NEW u \in Users PROVE userClients'[u] = {r \in Sockets : clients'[r] = u}
  <2>1. u # Absent
    BY NamesApart
  <2>2. userClients[u] = {r \in Sockets : clients[r] = u}
    BY DEF RegistryAgrees
  <2>3. clients'[s] = who /\ \A r \in Sockets : r # s => clients'[r] = clients[r]
    BY <1>1
  <2>4. userClients'[u] = userClients[u] \cup (IF u = who THEN {s} ELSE {})
    BY <1>1
  <2>5. CASE u = who
    BY <2>1, <2>2, <2>3, <2>4, <2>5
  <2>6. CASE u # who
    BY <2>1, <2>2, <2>3, <2>4, <2>6
  <2>7. QED
    BY <2>5, <2>6
<1>4. QED
  BY <1>2, <1>3 DEF RegistryAgrees

\* The server's end of one connection changes.
EndsAs(f, s, state) == [f EXCEPT ![s] = state]

LEMMA EndWritten ==
    ASSUME NEW f \in [Sockets -> {"none", "open", "closed"}], NEW s \in Sockets,
           NEW state \in {"none", "open", "closed"}
    PROVE  /\ EndsAs(f, s, state) \in [Sockets -> {"none", "open", "closed"}]
           /\ EndsAs(f, s, state)[s] = state
           /\ \A r \in Sockets \ {s} : EndsAs(f, s, state)[r] = f[r]
BY DEF EndsAs

\* The server's close handler forgets one connection.
LEMMA ServerCloseStep ==
    ASSUME ServerInv, NEW s \in Sockets, ServerClose(s)
    PROVE  ServerInv'
<1>1. /\ up \in [Sockets -> {"none", "open", "closed"}]
      /\ clients \in [Sockets -> Identities \cup {Absent}] /\ userClients \in [Users -> SUBSET Sockets]
      /\ \A r \in Sockets : clients[r] # Absent => up[r] = "open"
      /\ \A r \in Sockets : up[r] = "none" \/ socket[r] \notin Live => wire[r] = <<>>
  BY DEF ServerInv
<1>2. /\ up' = [up EXCEPT ![s] = IF socket[s] \in {"unused", "CLOSED"} THEN "none" ELSE "closed"]
      /\ clients' = [r \in Sockets |-> IF r = s THEN Absent ELSE clients[r]]
      /\ userClients' = [u \in Users |-> userClients[u] \ {s}]
      /\ UNCHANGED <<socket, wire, published, asked, token>>
  BY DEF ServerClose, Unregister, UserClientsWithout, vars, pageVars
<1>3. PICK state \in {"none", "closed"} : state = IF socket[s] \in {"unused", "CLOSED"} THEN "none" ELSE "closed"
  OBVIOUS
<1>4. /\ up' \in [Sockets -> {"none", "open", "closed"}]
      /\ up'[s] = state /\ \A r \in Sockets \ {s} : up'[r] = up[r]
  <2>1. up' = EndsAs(up, s, state)
    BY <1>2, <1>3 DEF EndsAs
  <2>2. QED
    BY <1>1, <2>1, EndWritten
<1>5. clients' \in [Sockets -> Identities \cup {Absent}] /\ userClients' \in [Users -> SUBSET Sockets]
  BY <1>1, <1>2
<1>6. \A r \in Sockets : clients'[r] = IF r = s THEN Absent ELSE clients[r]
  BY <1>2
<1>7. \A r \in Sockets : clients'[r] # Absent => up'[r] = "open"
  BY <1>1, <1>4, <1>6
<1>8. \A r \in Sockets : up'[r] = "none" \/ socket'[r] \notin Live => wire'[r] = <<>>
  <2>1. wire' = wire /\ socket' = socket
    BY <1>2
  <2>2. up'[s] = "none" => socket[s] \notin Live
    BY <1>3, <1>4 DEF Live
  <2>3. QED
    BY <1>1, <1>4, <2>1, <2>2
<1>9. ASSUME NEW u \in Users PROVE userClients'[u] = {r \in Sockets : clients'[r] = u}
  <2>1. u # Absent
    BY NamesApart
  <2>2. userClients[u] = {r \in Sockets : clients[r] = u} /\ userClients'[u] = userClients[u] \ {s}
    BY <1>2 DEF ServerInv, RegistryAgrees
  <2>3. QED
    BY <1>6, <2>1, <2>2
<1>10. QED
  BY <1>2, <1>4, <1>5, <1>7, <1>8, <1>9 DEF ServerInv, RegistryAgrees

\* The page is told of a close, and the socket is done with once both ends know.
LEMMA PageOnCloseStep ==
    ASSUME ServerInv, NEW s \in Sockets, PageOnClose(s), socket \in [Sockets -> Live \cup {"unused", "CLOSING", "CLOSED"}]
    PROVE  ServerInv'
<1>1. /\ up \in [Sockets -> {"none", "open", "closed"}]
      /\ \A r \in Sockets : clients[r] # Absent => up[r] = "open"
      /\ \A r \in Sockets : up[r] = "none" \/ socket[r] \notin Live => wire[r] = <<>>
  BY DEF ServerInv
<1>2. /\ socket' = [socket EXCEPT ![s] = IF s = websocket THEN "CLOSED" ELSE "unused"]
      /\ up' = [up EXCEPT ![s] = IF up[s] = "closed" THEN "none" ELSE up[s]]
      /\ wire' = Unread
      /\ UNCHANGED <<clients, userClients, published, token, asked>>
  BY DEF PageOnClose, OnClose, pageVars
<1>3. PICK state \in {"none", "open", "closed"} : state = IF up[s] = "closed" THEN "none" ELSE up[s]
  BY <1>1
<1>4. /\ up' \in [Sockets -> {"none", "open", "closed"}]
      /\ up'[s] = state /\ \A r \in Sockets \ {s} : up'[r] = up[r]
  <2>1. up' = EndsAs(up, s, state)
    BY <1>2, <1>3 DEF EndsAs
  <2>2. QED
    BY <1>1, <2>1, EndWritten
<1>5. \A r \in Sockets : clients'[r] # Absent => up'[r] = "open"
  <2>1. clients' = clients /\ (up[s] = "open" => up'[s] = "open")
    BY <1>2, <1>3, <1>4
  <2>2. QED
    BY <1>1, <1>4, <2>1
<1>6. \A r \in Sockets : up'[r] = "none" \/ socket'[r] \notin Live => wire'[r] = <<>>
  <2>1. socket'[s] \notin Live
    BY <1>2 DEF Live
  <2>2. QED
    BY <1>1, <1>2, <1>4, <2>1, UnreadIsRead
<1>7. wire' = [r \in Sockets |-> wire'[r]]
  BY <1>2, UnreadIsRead
<1>8. QED
  BY <1>2, <1>4, <1>5, <1>6, <1>7 DEF ServerInv, RegistryAgrees

LEMMA ServerStep == DeliveryInv /\ ConnectionInv' /\ [DeliveryNext]_allVars => ServerInv'
<1> SUFFICES ASSUME DeliveryInv, ConnectionInv', [DeliveryNext]_allVars PROVE ServerInv'
  OBVIOUS
<1> USE UsersAssumption, NamesAssumption
    DEF DeliveryInv, ServerInv, RegistryAgrees, Identities, Tokens, ConnectionInv, TypeOK, Live
<1>1. ASSUME NEW audience \in Audiences, Notify(audience)
      PROVE  ServerInv'
  <2>1. PICK throws \in SUBSET Recipients(audience) :
            /\ Unregister(throws)
            /\ wire' = [s \in Sockets |->
                 IF s \in Recipients(audience) \ throws /\ socket[s] \in Live
                 THEN Append(wire[s], Len(published) + 1) ELSE wire[s]]
    BY <1>1 DEF Notify
  <2>3. wire' = [s \in Sockets |-> wire'[s]]
    BY <2>1
  <2>4. \A s \in Recipients(audience) : clients[s] # Absent
    BY RecipientsAreRegistered
  <2>5. UNCHANGED <<socket, up, asked, token>>
    BY <1>1 DEF Notify, vars, pageVars
  <2>6. \A s \in Sockets : up'[s] = "none" \/ socket'[s] \notin Live => wire'[s] = <<>>
    BY <2>1, <2>4, <2>5
  <2>7. /\ clients' \in [Sockets -> Identities \cup {Absent}]
        /\ userClients' \in [Users -> SUBSET Sockets]
        /\ \A s \in Sockets : clients'[s] # Absent => up'[s] = "open"
        /\ RegistryAgrees'
    BY <2>1, <2>5 DEF Unregister, UserClientsWithout
  <2>8. QED
    BY <2>3, <2>5, <2>6, <2>7
<1>2. ASSUME NEW s \in Sockets, ServerOpen(s)
      PROVE  ServerInv'
  <2>1. PICK who \in Resolves({asked[s]}) : Register(s, who)
    BY <1>2 DEF ServerOpen
  <2>2. who \in Identities /\ clients[s] = Absent
    BY <1>2, <2>1, ResolvesToSomeone DEF ServerOpen
  <2>4. /\ clients' \in [Sockets -> Identities \cup {Absent}]
        /\ userClients' \in [Users -> SUBSET Sockets]
        /\ RegistryAgrees'
    BY <2>1, <2>2, RegisterAgrees
  <2>5. UNCHANGED <<socket, wire, published, asked, token>> /\ up' = [up EXCEPT ![s] = "open"]
    BY <1>2 DEF ServerOpen, vars, pageVars
  <2>6. up' \in [Sockets -> {"none", "open", "closed"}]
    BY <2>5
  <2>7. \A r \in Sockets : clients'[r] # Absent => up'[r] = "open"
    BY <2>1, <2>5 DEF Register
  <2>8. \A r \in Sockets : up'[r] = "none" \/ socket'[r] \notin Live => wire'[r] = <<>>
    BY <2>5
  <2>9. QED
    BY <2>4, <2>5, <2>6, <2>7, <2>8
<1>3. ASSUME NEW s \in Sockets, ServerClose(s)
      PROVE  ServerInv'
  BY <1>3, ServerCloseStep
<1>4. ASSUME NEW s \in Sockets, OnMessage(s)
      PROVE  ServerInv'
  <2>1. /\ wire' = [wire EXCEPT ![s] = Tail(wire[s])] /\ wire[s] # <<>>
        /\ UNCHANGED <<socket, token, asked, up, clients, userClients, published>>
    BY <1>4 DEF OnMessage, vars
  <2>4. wire' = [r \in Sockets |-> wire'[r]] /\ \A r \in Sockets : r # s => wire'[r] = wire[r]
    BY <2>1
  <2>5. \A r \in Sockets : up'[r] = "none" \/ socket'[r] \notin Live => wire'[r] = <<>>
    BY <2>1, <2>4
  <2>6. QED
    BY <2>1, <2>4, <2>5
<1>5. ASSUME NEW s \in Sockets, PageOnOpen(s)
      PROVE  ServerInv'
  BY <1>5 DEF PageOnOpen, OnOpen, serverVars, pageVars
<1>6. ASSUME NEW s \in Sockets, PageOnClose(s)
      PROVE  ServerInv'
  BY <1>6, PageOnCloseStep
<1>7. ASSUME NEW t \in Tokens, PageRunEffect(t)
      PROVE  ServerInv'
  <2>1. /\ wire' = Unread /\ token' = t /\ asked' = [asked EXCEPT ![websocket'] = t]
        /\ UNCHANGED <<up, clients, userClients, published>>
    BY <1>7 DEF PageRunEffect, BuildsUrl
  <2>2. asked' \in [Sockets -> Tokens] /\ token' \in Tokens
    BY <2>1
  <2>3. wire' = [r \in Sockets |-> wire'[r]]
        /\ \A r \in Sockets : up'[r] = "none" \/ socket'[r] \notin Live => wire'[r] = <<>>
    BY <2>1, UnreadIsRead
  <2>4. QED
    BY <2>1, <2>2, <2>3
<1>8. ASSUME NEW t \in Tokens, OtherTab(t)
      PROVE  ServerInv'
  BY <1>8 DEF OtherTab, serverVars
<1>9. CASE PageOnTimeout
  <2>1. UNCHANGED <<up, clients, userClients, wire, published, token>>
    BY <1>9 DEF PageOnTimeout, serverVars
  <2>2. asked' \in [Sockets -> Tokens]
    <3>1. asked' = asked \/ asked' = [asked EXCEPT ![websocket'] = token]
      BY <1>9 DEF PageOnTimeout, BuildsUrl
    <3>2. QED
      BY <3>1
  <2>3. \A r \in Sockets : socket'[r] \notin Live => up[r] = "none" \/ socket[r] \notin Live
    BY <1>9, TimeoutEndsNothing DEF PageOnTimeout
  <2>4. QED
    BY <2>1, <2>2, <2>3
<1>10. CASE UNCHANGED allVars
  BY <1>10 DEF allVars, vars, serverVars, pageVars
<1>11. QED
  BY <1>1, <1>2, <1>3, <1>4, <1>5, <1>6, <1>7, <1>8, <1>9, <1>10 DEF DeliveryNext

LEMMA DeliveryInvStep == DeliveryInv /\ [DeliveryNext]_allVars => DeliveryInv'
BY ConnectionsKeep, ServerStep DEF DeliveryInv

\* The page never has two live connections, and the one it has is the current.
THEOREM OneConnection == DeliverySpec => []OneLiveSocket
<1>1. DeliveryInv => OneLiveSocket
  BY DEF DeliveryInv, ConnectionInv
<1>2. QED
  BY <1>1, DeliveryInvInit, DeliveryInvStep, PTL DEF DeliverySpec

\* Once every close has been reported, "connected" is shown of an open socket.
THEOREM ConnectedIsTrue == DeliverySpec => []ConnectedIsOpen
<1>1. DeliveryInv => ConnectedIsOpen
  BY DEF DeliveryInv, ConnectionInv
<1>2. QED
  BY <1>1, DeliveryInvInit, DeliveryInvStep, PTL DEF DeliverySpec

\* The registry's maps agree through failed sends and closes in any order.
THEOREM RegistryStaysWhole == DeliverySpec => []RegistryAgrees
<1>1. DeliveryInv => RegistryAgrees
  BY DEF DeliveryInv, ServerInv
<1>2. QED
  BY <1>1, DeliveryInvInit, DeliveryInvStep, PTL DEF DeliverySpec

\* Only what the server holds or the browser reads is registered or has messages
\* on the wire, and every event published has an audience.
THEOREM DeliveryIsWellTyped == DeliverySpec => []DeliveryTypeOK
<1> DEFINE Inv == DeliveryInv /\ published \in Seq(Audiences)
<1>1. DeliveryInit => Inv
  BY DeliveryInvInit DEF DeliveryInit
<1>2. ASSUME Inv, [DeliveryNext]_allVars PROVE (published \in Seq(Audiences))'
  <2>1. CASE \E audience \in Audiences : Notify(audience)
    BY <1>2, <2>1 DEF Notify
  <2>2. CASE UNCHANGED published
    BY <1>2, <2>2
  <2>3. QED
    BY <1>2, <2>1, <2>2 DEF DeliveryNext, PageRunEffect, OtherTab, ServerOpen, ServerClose, PageOnOpen,
       PageOnClose, PageOnTimeout, OnMessage, serverVars, allVars
<1>3. Inv /\ [DeliveryNext]_allVars => Inv'
  BY <1>2, DeliveryInvStep
<1>4. Inv => DeliveryTypeOK
  BY DEF DeliveryInv, ConnectionInv, ServerInv, DeliveryTypeOK, Live
<1>5. QED
  BY <1>1, <1>3, <1>4, PTL DEF DeliverySpec

-----------------------------------------------------------------------------
(* Delivery implements the Feed.  Only the current socket is seen there:   *)
(* one lemma says what is seen of a step of the page's connections, one    *)
(* what is seen of a notification.                                         *)

LEMMA FeedInit == DeliveryInit => Channel!Init
BY DEF DeliveryInit, Init, Channel!Init, Current, ServedAs, OnTheWay, Channel!NotServed

\* A step that replaces the current socket by one the server has not taken up,
\* or ends it, loses the connection.
LEMMA ReplacedIsLost ==
    ASSUME DeliveryInv, DeliveryInv', UNCHANGED <<published, heard>>,
           Current' => up'[websocket'] = "none"
    PROVE  Channel!Lose
<1>1. ServedAs' = "not served" /\ OnTheWay' = <<>>
  <2>1. Current' => websocket' \in Sockets
    BY DEF Current, DeliveryInv, ConnectionInv, TypeOK
  <2>2. CASE Current'
    <3>1. clients'[websocket'] = Absent /\ wire'[websocket'] = <<>>
      BY <2>1, <2>2 DEF DeliveryInv, ServerInv
    <3>2. QED
      BY <3>1 DEF ServedAs, OnTheWay
  <2>3. CASE ~Current'
    BY <2>3 DEF ServedAs, OnTheWay
  <2>4. QED
    BY <2>2, <2>3
<1>2. QED
  BY <1>1 DEF Channel!Lose, Channel!NotServed

\* Who is sent an event and what the Feed says of it are the same.
LEMMA SeenByRecipients ==
    ASSUME DeliveryInv, Current, NEW audience \in Audiences
    PROVE  /\ websocket \in Sockets
           /\ websocket \in Recipients(audience)
                <=> clients[websocket] # Absent /\ Channel!For(audience, clients[websocket])
<1>1. websocket \in Sockets
  BY DEF Current, DeliveryInv, ConnectionInv, TypeOK
<1>2. CASE audience = Everyone
  BY <1>1, <1>2 DEF Recipients, Channel!For
<1>3. CASE audience # Everyone
  <2>1. audience \in Users
    BY <1>3 DEF Audiences
  <2>2. userClients[audience] = {s \in Sockets : clients[s] = audience}
    BY <2>1 DEF DeliveryInv, ServerInv, RegistryAgrees
  <2>3. audience # Absent
    BY <2>1, NamesApart
  <2>4. QED
    BY <1>1, <1>3, <2>2, <2>3 DEF Recipients, Channel!For
<1>4. QED
  BY <1>1, <1>2, <1>3

LEMMA IdentityIsServed ==
    ASSUME DeliveryInv, NEW s \in Sockets, clients[s] # Absent
    PROVE  clients[s] \in Channel!Identities /\ clients[s] # "not served"
<1>1. clients[s] \in Users \cup {Anonymous}
  BY DEF DeliveryInv, ServerInv, Identities
<1>2. clients[s] # "not served"
  BY <1>1, NamesApart, NamesAssumption
<1>3. QED
  BY <1>1, <1>2 DEF Channel!Identities

LEMMA NotifyIsPublish ==
    ASSUME DeliveryInv, NEW audience \in Audiences, Notify(audience)
    PROVE  Channel!Publish(audience) \/ Channel!LetGoAt(audience)
<1>1. PICK throws \in SUBSET Recipients(audience) :
          /\ Unregister(throws)
          /\ wire' = [s \in Sockets |->
               IF s \in Recipients(audience) \ throws /\ socket[s] \in Live
               THEN Append(wire[s], Len(published) + 1) ELSE wire[s]]
  BY DEF Notify
<1>2. /\ Len(published) < MaxEvents /\ published' = Append(published, audience)
      /\ UNCHANGED <<socket, websocket, heard>>
  BY DEF Notify, vars, pageVars
<1>3. Current' = Current
  BY <1>2 DEF Current
<1>4. CASE ~Current
  BY <1>2, <1>3, <1>4 DEF Channel!Publish, Channel!NotServed, ServedAs, OnTheWay
<1>5. CASE Current
  <2>1. /\ websocket \in Sockets
        /\ websocket \in Recipients(audience)
             <=> clients[websocket] # Absent /\ Channel!For(audience, clients[websocket])
    BY <1>5, SeenByRecipients
  <2>2. /\ wire'[websocket] = IF websocket \in Recipients(audience) \ throws
                              THEN Append(wire[websocket], Len(published) + 1) ELSE wire[websocket]
        /\ clients'[websocket] = IF websocket \in throws THEN Absent ELSE clients[websocket]
    BY <1>1, <1>5, <2>1 DEF Current, Unregister
  <2>3. clients[websocket] # Absent => ServedAs # "not served"
    BY <1>5, <2>1, IdentityIsServed DEF ServedAs
  <2>4. CASE websocket \in throws
    <3>1. ServedAs # "not served" /\ ServedAs = clients[websocket]
          /\ Channel!For(audience, clients[websocket])
      BY <1>1, <1>5, <2>1, <2>3, <2>4 DEF ServedAs
    <3>2. ServedAs' = "not served" /\ OnTheWay' = OnTheWay
      BY <1>2, <1>3, <1>5, <2>2, <2>4 DEF ServedAs, OnTheWay
    <3>3. QED
      BY <1>2, <3>1, <3>2 DEF Channel!LetGoAt, Channel!NotServed
  <2>5. CASE websocket \notin throws
    <3>1. ServedAs' = ServedAs
      BY <1>2, <1>3, <2>2, <2>5 DEF ServedAs
    <3>2. CASE websocket \in Recipients(audience)
      <4>1. ServedAs # "not served" /\ ServedAs = clients[websocket]
            /\ Channel!For(audience, clients[websocket])
        BY <1>5, <2>1, <2>3, <3>2 DEF ServedAs
      <4>2. OnTheWay' = Append(OnTheWay, Len(published) + 1)
        BY <1>2, <1>3, <1>5, <2>2, <2>5, <3>2 DEF OnTheWay
      <4>3. QED
        BY <1>2, <3>1, <4>1, <4>2 DEF Channel!Publish, Channel!NotServed
    <3>3. CASE websocket \notin Recipients(audience)
      <4>1. ServedAs # "not served" => ~Channel!For(audience, ServedAs)
        BY <1>5, <2>1, <3>3 DEF ServedAs
      <4>2. OnTheWay' = OnTheWay
        BY <1>2, <1>3, <1>5, <2>2, <3>3 DEF OnTheWay
      <4>3. QED
        BY <1>2, <3>1, <4>1, <4>2 DEF Channel!Publish, Channel!NotServed
    <3>4. QED
      BY <3>2, <3>3
  <2>6. QED
    BY <2>4, <2>5
<1>6. QED
  BY <1>4, <1>5

LEMMA FeedStep ==
    DeliveryInv /\ DeliveryInv' /\ [DeliveryNext]_allVars => [Channel!Next]_(Channel!vars)
<1> SUFFICES ASSUME DeliveryInv, DeliveryInv', [DeliveryNext]_allVars
             PROVE  [Channel!Next]_(Channel!vars)
  OBVIOUS
<1> DEFINE Stutters == UNCHANGED <<published, ServedAs, OnTheWay, heard>>
<1>1. Stutters => UNCHANGED Channel!vars
  BY DEF Channel!vars
<1>2. Channel!Lose \/ Channel!LetGo \/ Channel!Hear => Channel!Next
  BY DEF Channel!Next
<1>3. ASSUME NEW audience \in Audiences, Notify(audience) PROVE Channel!Next
  BY <1>3, NotifyIsPublish DEF Channel!Next, Audiences
<1>4. ASSUME NEW s \in Sockets, ServerOpen(s) PROVE Channel!Next \/ Stutters
  <2>1. PICK who \in Resolves({asked[s]}) : Register(s, who)
    BY <1>4 DEF ServerOpen
  <2>2. up[s] = "none" /\ UNCHANGED <<socket, websocket, wire, published, heard>>
    BY <1>4 DEF ServerOpen, vars, pageVars
  <2>3. clients[s] = Absent /\ wire[s] = <<>> /\ who \in Identities
    BY <2>1, <2>2, ResolvesToSomeone DEF DeliveryInv, ServerInv
  <2>4. clients'[s] = who /\ \A r \in Sockets : r # s => clients'[r] = clients[r]
    BY <2>1 DEF Register, DeliveryInv, ServerInv
  <2>5. CASE Current /\ websocket = s
    <3>1. who # Absent
      BY <2>3, NamesApart, NamesAssumption DEF Identities
    <3>2. ServedAs = "not served" /\ OnTheWay = <<>> /\ ServedAs' = who /\ OnTheWay' = OnTheWay
      BY <2>2, <2>3, <2>4, <2>5, <3>1 DEF ServedAs, OnTheWay, Current
    <3>3. Channel!Serve(who)
      BY <2>2, <3>2 DEF Channel!Serve, Channel!NotServed
    <3>4. QED
      BY <2>3, <3>3 DEF Channel!Next, Channel!Identities, Identities
  <2>6. CASE ~(Current /\ websocket = s)
    BY <2>2, <2>4, <2>6 DEF ServedAs, OnTheWay, Current, DeliveryInv, ConnectionInv, TypeOK
  <2>7. QED
    BY <2>5, <2>6
<1>5. ASSUME NEW s \in Sockets, ServerClose(s) PROVE Channel!LetGo \/ Stutters
  <2>1. UNCHANGED <<socket, websocket, wire, published, heard>>
    BY <1>5 DEF ServerClose, vars, pageVars
  <2>2. \A r \in Sockets : clients'[r] = IF r = s THEN Absent ELSE clients[r]
    BY <1>5 DEF ServerClose, Unregister
  <2>3. CASE Current /\ websocket = s /\ clients[s] # Absent
    BY <2>1, <2>2, <2>3, IdentityIsServed DEF Channel!LetGo, Channel!NotServed, ServedAs, OnTheWay, Current
  <2>4. CASE ~(Current /\ websocket = s /\ clients[s] # Absent)
    BY <2>1, <2>2, <2>4 DEF ServedAs, OnTheWay, Current, DeliveryInv, ConnectionInv, TypeOK
  <2>5. QED
    BY <2>3, <2>4
<1>6. ASSUME NEW s \in Sockets, OnMessage(s) PROVE Channel!Hear
  <2>1. /\ socket[s] = "OPEN" /\ wire[s] # <<>>
        /\ heard' = Append(heard, Head(wire[s])) /\ wire' = [wire EXCEPT ![s] = Tail(wire[s])]
        /\ UNCHANGED <<socket, websocket, clients, published>>
    BY <1>6 DEF OnMessage, Reads, vars
  <2>2. Current /\ websocket = s
    BY <2>1, SocketsAssumption DEF Current, Live, DeliveryInv, ConnectionInv, OneLiveSocket
  <2>3. wire'[s] = Tail(wire[s])
    BY <2>1 DEF DeliveryInv, ServerInv
  <2>4. OnTheWay = wire[s] /\ OnTheWay' = Tail(wire[s]) /\ ServedAs' = ServedAs
    BY <2>1, <2>2, <2>3 DEF OnTheWay, ServedAs, Current
  <2>5. QED
    BY <2>1, <2>4 DEF Channel!Hear
<1>7. ASSUME NEW s \in Sockets, PageOnOpen(s) PROVE Stutters
  <2>1. UNCHANGED <<websocket, clients, wire, published, heard>>
    BY <1>7 DEF PageOnOpen, OnOpen, serverVars, pageVars
  <2>2. Current' <=> Current
    BY <1>7, <2>1 DEF PageOnOpen, OnOpen, Current, Live, DeliveryInv, ConnectionInv, TypeOK
  <2>3. QED
    BY <2>1, <2>2 DEF ServedAs, OnTheWay
<1>8. ASSUME NEW s \in Sockets, PageOnClose(s) PROVE Channel!Lose \/ Stutters
  <2>1. /\ socket' = [socket EXCEPT ![s] = IF s = websocket THEN "CLOSED" ELSE "unused"]
        /\ wire' = Unread
        /\ UNCHANGED <<websocket, clients, published, heard>>
    BY <1>8 DEF PageOnClose, OnClose, pageVars
  <2>2. CASE s = websocket
    <3>1. ~Current'
      BY <2>1, <2>2 DEF Current, Live, DeliveryInv, ConnectionInv, TypeOK
    <3>2. QED
      BY <2>1, <3>1, ReplacedIsLost
  <2>3. CASE s # websocket
    <3>1. Current' <=> Current
      BY <2>1, <2>3 DEF Current, DeliveryInv, ConnectionInv, TypeOK
    <3>2. Current => wire'[websocket] = wire[websocket]
      <4>1. ServerInv
        BY DEF DeliveryInv
      <4>2. Current => websocket \in Sockets /\ socket'[websocket] \in Live
        BY <2>1, <3>1 DEF Current, DeliveryInv, ConnectionInv, TypeOK
      <4>3. QED
        BY <2>1, <4>1, <4>2, UnreadIsRead
    <3>3. QED
      BY <2>1, <3>1, <3>2 DEF ServedAs, OnTheWay
  <2>4. QED
    BY <2>2, <2>3
<1>9. ASSUME NEW t \in Tokens, PageRunEffect(t) PROVE Channel!Lose
  <2>1. UNCHANGED <<published, heard>> /\ up'[websocket'] = "none"
    BY <1>9 DEF PageRunEffect, BuildsUrl
  <2>2. QED
    BY <2>1, ReplacedIsLost
<1>10. ASSUME NEW t \in Tokens, OtherTab(t) PROVE Stutters
  BY <1>10 DEF OtherTab, serverVars, ServedAs, OnTheWay, Current
<1>11. ASSUME PageOnTimeout PROVE Channel!Lose \/ Stutters
  <2>1. UNCHANGED <<up, clients, userClients, wire, published, heard>>
    BY <1>11 DEF PageOnTimeout, serverVars
  <2>2. CASE UNCHANGED <<socket, websocket>>
    BY <2>1, <2>2 DEF ServedAs, OnTheWay, Current
  <2>3. CASE up[websocket'] = "none"
    BY <2>1, <2>3, ReplacedIsLost
  <2>4. QED
    BY <1>11, <2>2, <2>3 DEF PageOnTimeout, BuildsUrl
<1>12. ASSUME UNCHANGED allVars PROVE Stutters
  BY <1>12 DEF allVars, vars, serverVars, pageVars, ServedAs, OnTheWay, Current
<1> HIDE DEF Stutters
<1>13. ASSUME NEW s \in Sockets,
              ServerOpen(s) \/ ServerClose(s) \/ PageOnOpen(s) \/ PageOnClose(s) \/ OnMessage(s)
       PROVE  Channel!Next \/ Stutters
  BY <1>13, <1>2, <1>4, <1>5, <1>6, <1>7, <1>8
<1>14. Channel!Next \/ Stutters
  BY <1>2, <1>3, <1>9, <1>10, <1>11, <1>12, <1>13 DEF DeliveryNext
<1>15. QED
  BY <1>1, <1>14

\* Safety of the refinement: whatever sockets drop, close and reconnect, the
\* page hears what the server sends it in order, once, without a gap, and
\* nothing meant for another user.
THEOREM DeliveryImplementsFeed == DeliverySpec => Channel!Init /\ [][Channel!Next]_(Channel!vars)
<1>1. DeliveryInit => Channel!Init
  BY FeedInit
<1>2. DeliveryInv /\ DeliveryInv' /\ [DeliveryNext]_allVars => [Channel!Next]_(Channel!vars)
  BY FeedStep
<1>3. QED
  BY <1>1, <1>2, DeliveryInvInit, DeliveryInvStep, PTL DEF DeliverySpec
=============================================================================
