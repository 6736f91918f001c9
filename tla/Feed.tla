-------------------------------- MODULE Feed --------------------------------
(***************************************************************************)
(* What the WebSocket path promises one page, whatever becomes of its      *)
(* sockets: while the server serves it under some identity, the page is    *)
(* sent everything published for that identity and nothing else, and it    *)
(* hears what it is sent in that order, once, without a gap.  A lost       *)
(* connection loses what was still on its way.                             *)
(***************************************************************************)
EXTENDS Sequences, Naturals

CONSTANTS Users, Anonymous, Everyone, MaxEvents

VARIABLES
    published,      \* the events so far, in order; an event is its audience
    as,             \* whom the server takes the page for, NotServed when it does not serve it
    sent,           \* indices of the events on their way to the page
    heard           \* indices of the events the page has got

vars == <<published, as, sent, heard>>

NotServed == "not served"
Identities == Users \cup {Anonymous}

For(audience, identity) == audience = Everyone \/ audience = identity

Init ==
    /\ published = <<>>
    /\ as = NotServed
    /\ sent = <<>>
    /\ heard = <<>>

Publish(audience) ==
    /\ Len(published) < MaxEvents
    /\ published' = Append(published, audience)
    /\ sent' = IF as # NotServed /\ For(audience, as)
               THEN Append(sent, Len(published) + 1) ELSE sent
    /\ UNCHANGED <<as, heard>>

\* The server takes the page on.
Serve(identity) ==
    /\ as = NotServed /\ sent = <<>>
    /\ as' = identity
    /\ UNCHANGED <<published, sent, heard>>

\* The server lets the page go; what is on its way may still arrive.
LetGo ==
    /\ as # NotServed
    /\ as' = NotServed
    /\ UNCHANGED <<published, sent, heard>>

\* The send of one event is refused, so the page is let go before it.
LetGoAt(audience) ==
    /\ Len(published) < MaxEvents
    /\ published' = Append(published, audience)
    /\ as # NotServed /\ For(audience, as)
    /\ as' = NotServed
    /\ UNCHANGED <<sent, heard>>

\* The connection is gone on the page's side.
Lose ==
    /\ as' = NotServed
    /\ sent' = <<>>
    /\ UNCHANGED <<published, heard>>

Hear ==
    /\ sent # <<>>
    /\ heard' = Append(heard, Head(sent))
    /\ sent' = Tail(sent)
    /\ UNCHANGED <<published, as>>

Next ==
    \/ \E audience \in Users \cup {Everyone} : Publish(audience) \/ LetGoAt(audience)
    \/ \E identity \in Identities : Serve(identity)
    \/ LetGo
    \/ Lose
    \/ Hear

\* What is on its way is heard, or lost with its connection.
Spec == Init /\ [][Next]_vars /\ WF_vars(Hear)
=============================================================================
