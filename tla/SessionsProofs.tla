--------------------------- MODULE SessionsProofs ---------------------------
(***************************************************************************)
(* Theorems about Accounts and Sessions for any number of tabs, emails,    *)
(* users and OAuth flows, and any number of restarts and failures.         *)
(***************************************************************************)
EXTENDS Sessions, FiniteSetTheorems, TLAPS

-----------------------------------------------------------------------------
(* What the pages do with the server is what Accounts allows; everything   *)
(* else they do leaves it alone.                                           *)

AccountsNext ==
    \/ BackgroundNext
    \/ \E c \in Clients, e \in Emails : Register(c, e) \/ Login(c, e)
    \/ \E c \in Clients, k \in StateKeys : Callback(c, k)
    \/ \E c \in Clients : Answer(c)
    \/ Restart

LEMMA SessionsStep == [SessionsNext]_sessionVars => [AccountsNext]_accountVars
<1> SUFFICES ASSUME [SessionsNext]_sessionVars PROVE [AccountsNext]_accountVars
  OBVIOUS
<1> USE DEF AccountsNext
<1>1. CASE BackgroundNext /\ UNCHANGED pages
  BY <1>1
<1>2. ASSUME NEW t \in Clients, NEW e \in Emails, SignUp(t, e) \/ SignIn(t, e)
      PROVE  AccountsNext
  BY <1>2 DEF SignUp, SignIn
<1>3. ASSUME NEW t \in Clients, NEW k \in StateKeys, ComeBack(t, k)
      PROVE  AccountsNext
  BY <1>3 DEF ComeBack
<1>4. ASSUME NEW t \in Clients, SignedIn(t)
      PROVE  AccountsNext
  BY <1>4 DEF SignedIn
<1>5. ASSUME NEW t \in Clients,
             Mount(t) \/ Logout(t) \/ ClickCancel(t) \/ LoadBalance(t) \/ Serve(t) \/ ShowOutcome(t)
      PROVE  UNCHANGED accountVars
  BY <1>5 DEF Mount, Logout, ClickCancel, LoadBalance, Asks, Serve, ShowOutcome
<1>6. ASSUME NEW t \in Clients, NEW form, SubmitOrder(t, form) \/ SubmitDeposit(t, form)
      PROVE  UNCHANGED accountVars
  BY <1>6 DEF SubmitOrder, SubmitDeposit, Asks
<1>7. CASE TokenExpires
  BY <1>7 DEF TokenExpires
<1>8. CASE ServerRestarts
  BY <1>8 DEF ServerRestarts
<1>9. CASE UNCHANGED sessionVars
  BY <1>9 DEF sessionVars
<1>10. QED
  BY <1>1, <1>2, <1>3, <1>4, <1>5, <1>6, <1>7, <1>8, <1>9 DEF SessionsNext

-----------------------------------------------------------------------------
(* OAuth flows                                                             *)

\* A state that has let a login through is gone.
FlowInv ==
    /\ oauthStates \in [StateKeys -> {"unknown", "fresh", "old", "gone"}]
    /\ logins \in [StateKeys -> Nat]
    /\ \A k \in StateKeys : logins[k] <= 1
    /\ \A k \in StateKeys : oauthStates[k] # "gone" => logins[k] = 0

LEMMA FlowInvStep == FlowInv /\ [AccountsNext]_accountVars => FlowInv'
<1> SUFFICES ASSUME FlowInv, [AccountsNext]_accountVars PROVE FlowInv'
  OBVIOUS
<1> USE DEF FlowInv
<1>1. ASSUME NEW k \in StateKeys, Initiate(k) \/ TenMinutesPass(k)
      PROVE  FlowInv'
  BY <1>1 DEF Initiate, TenMinutesPass
<1>2. ASSUME NEW c \in Clients, NEW k \in StateKeys, Callback(c, k)
      PROVE  FlowInv'
  BY <1>2 DEF Callback, Deleted
<1>3. CASE Restart
  BY <1>3 DEF Restart
<1>4. ASSUME NEW c \in Clients, CreateUser(c) \/ CreateWallet(c) \/ CreateWalletFails(c)
                                  \/ ProviderRefuses(c) \/ Answer(c)
      PROVE  FlowInv'
  BY <1>4 DEF CreateUser, CreateWallet, CreateWalletFails, ProviderRefuses, Answer
<1>5. ASSUME NEW c \in Clients, NEW e \in Emails, ProviderNames(c, e) \/ Register(c, e) \/ Login(c, e)
      PROVE  FlowInv'
  BY <1>5 DEF ProviderNames, Register, Login
<1>6. CASE UNCHANGED accountVars
  BY <1>6 DEF accountVars
<1>7. QED
  BY <1>1, <1>2, <1>3, <1>4, <1>5, <1>6 DEF AccountsNext, BackgroundNext

\* One OAuth flow logs in at most once, whatever calls of its callback overlap
\* or repeat, for any number of flows and restarts.
THEOREM FlowsLogInOnce == SessionsSpec => []OneLoginPerState
<1>1. SessionsInit => FlowInv
  BY DEF SessionsInit, AccountsInit, FlowInv
<1>2. FlowInv /\ [SessionsNext]_sessionVars => FlowInv'
  BY SessionsStep, FlowInvStep
<1>3. FlowInv => OneLoginPerState
  BY DEF FlowInv, OneLoginPerState
<1>4. QED
  BY <1>1, <1>2, <1>3, PTL DEF SessionsSpec

-----------------------------------------------------------------------------
(* Users and their calls                                                   *)

\* What holds of the calls and the index with either store; the ids are only
\* numbers here, not within the bound UserIds.
Calls == [step : {"idle", "exchange", "create", "wallet", "answer"},
          kind : {"none", "register", "login", "oauth"}, email : Emails, user : Nat]

CallsInv ==
    /\ call \in [Clients -> Calls]
    /\ byEmail \in [Emails -> Nat]
    /\ created \in Nat
    /\ \A u \in users : u.id \in Nat /\ u.id # NoUser
    /\ \A c \in Clients : At(c, "wallet") \/ At(c, "answer") => call[c].user # NoUser

LEMMA IdleIsACall == Idle \in Calls /\ Idle.step = "idle"
BY EmailsAssumption DEF Idle, Calls, NoUser

LEMMA CallsInvInit == SessionsInit => CallsInv
BY IdleIsACall DEF SessionsInit, AccountsInit, CallsInv, At, NoUser

LEMMA CallsInvStep == CallsInv /\ [AccountsNext]_accountVars => CallsInv'
<1> SUFFICES ASSUME CallsInv, [AccountsNext]_accountVars PROVE CallsInv'
  OBVIOUS
<1> USE IdleIsACall DEF CallsInv, At, NoUser
<1>1. ASSUME NEW k \in StateKeys, Initiate(k) \/ TenMinutesPass(k)
      PROVE  CallsInv'
  BY <1>1 DEF Initiate, TenMinutesPass, stores
<1>2. ASSUME NEW c \in Clients, NEW k \in StateKeys, Callback(c, k)
      PROVE  CallsInv'
  <2>1. [Idle EXCEPT !.step = "exchange", !.kind = "oauth"] \in Calls
    BY DEF Idle, Calls
  <2>2. [Idle EXCEPT !.step = "exchange", !.kind = "oauth"].step = "exchange"
    BY DEF Idle
  <2>3. QED
    BY <1>2, <2>1, <2>2 DEF Callback, stores
<1>3. CASE Restart
  BY <1>3 DEF Restart
<1>4. ASSUME NEW c \in Clients, CreateUser(c)
      PROVE  CallsInv'
  BY <1>4 DEF CreateUser, Calls, Goes, Ends, stores
<1>5. ASSUME NEW c \in Clients, CreateWallet(c)
      PROVE  CallsInv'
  BY <1>5 DEF CreateWallet, Calls
<1>6. ASSUME NEW c \in Clients, CreateWalletFails(c) \/ ProviderRefuses(c) \/ Answer(c)
      PROVE  CallsInv'
  BY <1>6 DEF CreateWalletFails, ProviderRefuses, Answer, Ends, stores
<1>7. ASSUME NEW c \in Clients, NEW e \in Emails, ProviderNames(c, e) \/ Register(c, e) \/ Login(c, e)
      PROVE  CallsInv'
  BY <1>7 DEF ProviderNames, Register, Login, Calls, Goes, stores
<1>8. CASE UNCHANGED accountVars
  BY <1>8 DEF accountVars
<1>9. QED
  BY <1>1, <1>2, <1>3, <1>4, <1>5, <1>6, <1>7, <1>8 DEF AccountsNext, BackgroundNext

-----------------------------------------------------------------------------
(* Wallets: WalletOrReason is inductive on top of CallsInv.                *)

LEMMA WalletStep == CallsInv /\ WalletOrReason /\ [AccountsNext]_accountVars => WalletOrReason'
<1> SUFFICES ASSUME CallsInv, WalletOrReason, [AccountsNext]_accountVars PROVE WalletOrReason'
  OBVIOUS
<1> USE IdleIsACall DEF CallsInv, WalletOrReason, At
<1>1. ASSUME NEW k \in StateKeys, Initiate(k) \/ TenMinutesPass(k)
      PROVE  WalletOrReason'
  BY <1>1 DEF Initiate, TenMinutesPass, stores
<1>2. ASSUME NEW c \in Clients, NEW k \in StateKeys, Callback(c, k)
      PROVE  WalletOrReason'
  BY <1>2 DEF Callback, stores
<1>3. CASE Restart
  BY <1>3 DEF Restart, Backfilled
<1>4. ASSUME NEW c \in Clients, CreateUser(c)
      PROVE  WalletOrReason'
  BY <1>4 DEF CreateUser, Goes, Ends, stores
<1>5. ASSUME NEW c \in Clients, CreateWallet(c)
      PROVE  WalletOrReason'
  BY <1>5 DEF CreateWallet, Calls
<1>6. ASSUME NEW c \in Clients, CreateWalletFails(c)
      PROVE  WalletOrReason'
  BY <1>6 DEF CreateWalletFails, Ends, stores
<1>7. ASSUME NEW c \in Clients, ProviderRefuses(c) \/ Answer(c)
      PROVE  WalletOrReason'
  BY <1>7 DEF ProviderRefuses, Answer, Ends, stores
<1>8. ASSUME NEW c \in Clients, NEW e \in Emails, ProviderNames(c, e) \/ Register(c, e) \/ Login(c, e)
      PROVE  WalletOrReason'
  BY <1>8 DEF ProviderNames, Register, Login, Goes, stores
<1>9. CASE UNCHANGED accountVars
  BY <1>9 DEF accountVars
<1>10. QED
  BY <1>1, <1>2, <1>3, <1>4, <1>5, <1>6, <1>7, <1>8, <1>9 DEF AccountsNext, BackgroundNext

\* Every user has a wallet, or its creation is under way, or its createWallet
\* failed since the server started: no crash leaves a user without one.
THEOREM WalletsAreThere == SessionsSpec => []WalletOrReason
<1> DEFINE Inv == CallsInv /\ WalletOrReason
<1>1. SessionsInit => Inv
  BY CallsInvInit DEF SessionsInit, AccountsInit, WalletOrReason
<1>2. Inv /\ [SessionsNext]_sessionVars => Inv'
  BY SessionsStep, CallsInvStep, WalletStep
<1>3. QED
  BY <1>1, <1>2, PTL DEF SessionsSpec

-----------------------------------------------------------------------------
(* Emails.  OneAccountPerEmail is not inductive: a token names the user of *)
(* the index because a call past createUser does, and no INSERT that the   *)
(* index lets through changes the entry of an email.                       *)

EmailInv ==
    useDb => /\ \A e \in Emails : \A u \in accounts[e] : u = byEmail[e] /\ u # NoUser
             /\ \A c \in Clients : At(c, "wallet") \/ At(c, "answer") =>
                   call[c].user = byEmail[call[c].email]

LEMMA EmailStep ==
    CallsInv /\ EmailInv /\ [AccountsNext]_accountVars /\ accounts \in [Emails -> SUBSET Nat]
      => EmailInv' /\ accounts' \in [Emails -> SUBSET Nat]
<1> SUFFICES ASSUME CallsInv, EmailInv, [AccountsNext]_accountVars, accounts \in [Emails -> SUBSET Nat]
             PROVE  EmailInv' /\ accounts' \in [Emails -> SUBSET Nat]
  OBVIOUS
<1> DEFINE Goal == EmailInv' /\ accounts' \in [Emails -> SUBSET Nat]
<1> USE IdleIsACall DEF CallsInv, EmailInv, At
<1>1. ASSUME NEW k \in StateKeys, Initiate(k) \/ TenMinutesPass(k)
      PROVE  Goal
  BY <1>1 DEF Initiate, TenMinutesPass, stores
<1>2. ASSUME NEW c \in Clients, NEW k \in StateKeys, Callback(c, k)
      PROVE  Goal
  <2>1. [Idle EXCEPT !.step = "exchange", !.kind = "oauth"].step = "exchange"
    BY DEF Idle
  <2>2. QED
    BY <1>2, <2>1 DEF Callback, stores
<1>3. CASE Restart
  BY <1>3 DEF Restart
<1>4. ASSUME NEW c \in Clients, CreateUser(c)
      PROVE  Goal
  BY <1>4 DEF CreateUser, RefusedByIndex, Goes, Ends, Calls, stores, NoUser
<1>5. ASSUME NEW c \in Clients, CreateWallet(c)
      PROVE  Goal
  BY <1>5 DEF CreateWallet, Calls
<1>6. ASSUME NEW c \in Clients, CreateWalletFails(c) \/ ProviderRefuses(c)
      PROVE  Goal
  BY <1>6 DEF CreateWalletFails, ProviderRefuses, Ends, stores
<1>7. ASSUME NEW c \in Clients, Answer(c)
      PROVE  Goal
  BY <1>7 DEF Answer, Ends, Calls, stores
<1>8. ASSUME NEW c \in Clients, NEW e \in Emails, ProviderNames(c, e) \/ Register(c, e) \/ Login(c, e)
      PROVE  Goal
  BY <1>8 DEF ProviderNames, Register, Login, Goes, stores
<1>9. CASE UNCHANGED accountVars
  BY <1>9 DEF accountVars
<1>10. QED
  BY <1>1, <1>2, <1>3, <1>4, <1>5, <1>6, <1>7, <1>8, <1>9 DEF AccountsNext, BackgroundNext

\* With Postgres all tokens ever answered for an email name one user, however
\* registrations and provider logins overlap, fail and are cut off by restarts.
THEOREM EmailsHaveOneAccount == SessionsSpec => []OneAccountPerEmail
<1> DEFINE Inv == CallsInv /\ EmailInv /\ accounts \in [Emails -> SUBSET Nat]
<1>1. SessionsInit => Inv
  BY CallsInvInit, IdleIsACall DEF SessionsInit, AccountsInit, EmailInv, At
<1>2. Inv /\ [SessionsNext]_sessionVars => Inv'
  BY SessionsStep, CallsInvStep, EmailStep
<1>3. Inv => OneAccountPerEmail
  BY DEF EmailInv, OneAccountPerEmail
<1>4. QED
  BY <1>1, <1>2, <1>3, PTL DEF SessionsSpec

-----------------------------------------------------------------------------
(* Pages                                                                   *)

Tokens   == [user : Nat, live : BOOLEAN]
Forms    == OrderForms \cup Amounts \cup {[userId |-> NoUser], 0}
Requests == [kind : {"none", "order", "deposit", "cancel", "balance"}, form : Forms,
             user : Nat, token : Tokens, status : Status]

\* What the pages hold is what CallsInv says of the calls that answered them.
PagesInv ==
    /\ stored \in Tokens
    /\ shown \in [Clients -> Nat]
    /\ request \in [Clients -> Requests]
    /\ \A t \in Clients : request[t].status = "sent" => request[t].kind # "none"

LEMMA NoRequestIsARequest == NoToken \in Tokens /\ NoRequest \in Requests /\ NoRequest.status = "none"
                             /\ NoRequest.kind = "none"
BY DEF NoToken, Tokens, NoRequest, Requests, Forms, NoUser, Status

LEMMA VerdictIsAStatus ==
    ASSUME NEW r \in Requests, r.kind # "none"
    PROVE  /\ Verdict(r) \in Status
           /\ Verdict(r) # "sent"
<1>1. CASE r.kind = "order"
  BY <1>1 DEF Verdict, Status
<1>2. CASE r.kind = "cancel"
  BY <1>2 DEF Verdict, Status
<1>3. CASE r.kind = "deposit"
  BY <1>3 DEF Verdict, Status, OfWallet
<1>4. CASE r.kind = "balance"
  BY <1>4 DEF Verdict, Status, OfWallet
<1>5. QED
  BY <1>1, <1>2, <1>3, <1>4 DEF Requests

LEMMA PagesStep == CallsInv /\ PagesInv /\ [SessionsNext]_sessionVars => PagesInv'
<1> SUFFICES ASSUME CallsInv, PagesInv, [SessionsNext]_sessionVars PROVE PagesInv'
  OBVIOUS
<1> USE NoRequestIsARequest DEF PagesInv
<1>1. CASE UNCHANGED pages
  BY <1>1 DEF pages
<1>2. ASSUME NEW t \in Clients, SignedIn(t)
      PROVE  PagesInv'
  <2>1. call[t].user \in Nat
    BY DEF CallsInv, Calls
  <2>2. stored.user \in Nat /\ [user |-> call[t].user, live |-> TRUE] \in Tokens
    BY <2>1 DEF Tokens
  <2>3. QED
    BY <1>2, <2>1, <2>2 DEF SignedIn
<1>3. ASSUME NEW t \in Clients, Mount(t) \/ Logout(t)
      PROVE  PagesInv'
  BY <1>3 DEF Mount, Logout, Tokens, NoUser
<1>4. ASSUME NEW t \in Clients, NEW kind \in {"order", "deposit", "cancel", "balance"}, NEW form \in Forms,
             NEW status \in {"sent", "stopped"}, Asks(t, kind, form, status)
      PROVE  PagesInv'
  <2> DEFINE r == [kind |-> kind, form |-> form, user |-> shown[t], token |-> stored, status |-> status]
  <2>1. r \in Requests
    BY DEF Requests, Status
  <2>2. request' = [request EXCEPT ![t] = r] /\ UNCHANGED <<stored, shown>>
    BY <1>4 DEF Asks
  <2>3. r.kind # "none"
    OBVIOUS
  <2> HIDE DEF r
  <2>4. QED
    BY <2>1, <2>2, <2>3
<1>5. ASSUME NEW t \in Clients, NEW form \in OrderForms, SubmitOrder(t, form)
      PROVE  PagesInv'
  BY <1>4, <1>5 DEF SubmitOrder, Forms
<1>6. ASSUME NEW t \in Clients, NEW amount \in Amounts, SubmitDeposit(t, amount)
      PROVE  PagesInv'
  BY <1>4, <1>6 DEF SubmitDeposit, Forms
<1>7. ASSUME NEW t \in Clients, ClickCancel(t) \/ LoadBalance(t)
      PROVE  PagesInv'
  BY <1>4, <1>7 DEF ClickCancel, LoadBalance, Forms
<1>8. ASSUME NEW t \in Clients, Serve(t)
      PROVE  PagesInv'
  <2> DEFINE r == request[t]
  <2> DEFINE answer == Verdict(r)
  <2>1. r \in Requests /\ r.kind # "none"
    BY <1>8 DEF Serve
  <2>2. answer \in Status /\ answer # "sent"
    BY <2>1, VerdictIsAStatus
  <2>3. request' = [request EXCEPT ![t].status = answer] /\ UNCHANGED <<stored, shown>>
    BY <1>8 DEF Serve
  <2> HIDE DEF answer
  <2>4. QED
    BY <2>1, <2>2, <2>3 DEF Requests
<1>9. ASSUME NEW t \in Clients, ShowOutcome(t)
      PROVE  PagesInv'
  BY <1>9 DEF ShowOutcome
<1>10. CASE TokenExpires
  BY <1>10 DEF TokenExpires, Tokens
<1>11. CASE ServerRestarts
  BY <1>11 DEF ServerRestarts
<1>12. CASE UNCHANGED sessionVars
  BY <1>1, <1>12 DEF sessionVars
<1>13. QED
  BY <1>1, <1>2, <1>3, <1>5, <1>6, <1>7, <1>8, <1>9, <1>10, <1>11, <1>12
     DEF SessionsNext, SignUp, SignIn, ComeBack

-----------------------------------------------------------------------------
(* Who is signed in.  A token is only made for a user that is there: the   *)
(* calls past createUser, the index and with Postgres every live token     *)
(* name one.                                                               *)

IsUser(id) == \E u \in users : u.id = id

HoldersInv ==
    /\ \A e \in Emails : byEmail[e] # NoUser => IsUser(byEmail[e])
    /\ \A c \in Clients : At(c, "wallet") \/ At(c, "answer") => IsUser(call[c].user)

NamesAUser(token) == token.live => IsUser(token.user)

TokensNameUsers ==
    useDb => NamesAUser(stored) /\ \A t \in Clients : NamesAUser(request[t].token)

LEMMA HoldersStep == CallsInv /\ HoldersInv /\ [AccountsNext]_accountVars => HoldersInv'
<1> SUFFICES ASSUME CallsInv, HoldersInv, [AccountsNext]_accountVars PROVE HoldersInv'
  OBVIOUS
<1> USE IdleIsACall DEF CallsInv, HoldersInv, IsUser, At
<1>1. ASSUME NEW k \in StateKeys, Initiate(k) \/ TenMinutesPass(k)
      PROVE  HoldersInv'
  BY <1>1 DEF Initiate, TenMinutesPass, stores
<1>2. ASSUME NEW c \in Clients, NEW k \in StateKeys, Callback(c, k)
      PROVE  HoldersInv'
  <2>1. [Idle EXCEPT !.step = "exchange", !.kind = "oauth"].step = "exchange"
    BY DEF Idle
  <2>2. \A d \in Clients : call'[d] = call[d] \/ call'[d].step = "exchange"
    BY <1>2, <2>1 DEF Callback
  <2>3. UNCHANGED <<users, byEmail>>
    BY <1>2 DEF Callback, stores
  <2>4. QED
    BY <2>2, <2>3
<1>3. CASE Restart
  BY <1>3 DEF Restart
<1>4. ASSUME NEW c \in Clients, CreateUser(c)
      PROVE  HoldersInv'
  <2>1. CASE RefusedByIndex(call[c].email) /\ Ends(c) /\ UNCHANGED stores
    BY <2>1 DEF Ends, stores
  <2>2. CASE /\ users' = users \cup {[id |-> created + 1, email |-> call[c].email,
                                      password |-> call[c].kind = "register"]}
             /\ byEmail' = [byEmail EXCEPT ![call[c].email] = created + 1]
             /\ Goes(c, "wallet", call[c].kind, call[c].email, created + 1)
    <3> DEFINE new == [id |-> created + 1, email |-> call[c].email,
                       password |-> call[c].kind = "register"]
               Named(id) == \E u \in users' : u.id = id
    <3>1. new.id = created + 1
      OBVIOUS
    <3>2. users' = users \cup {new}
      BY <2>2
    <3> HIDE DEF new
    <3>3. Named(created + 1) /\ \A id : (\E v \in users : v.id = id) => Named(id)
      BY <3>1, <3>2
    <3> HIDE DEF Named
    <3>4. \A e \in Emails : byEmail'[e] = byEmail[e] \/ byEmail'[e] = created + 1
      BY <2>2
    <3>5. \A d \in Clients : call'[d] = call[d] \/ call'[d].user = created + 1
      BY <2>2 DEF Goes
    <3>6. \A e \in Emails : byEmail'[e] # NoUser => Named(byEmail'[e])
      BY <3>3, <3>4
    <3>7. \A d \in Clients : call'[d].step \in {"wallet", "answer"} => Named(call'[d].user)
      BY <3>3, <3>5
    <3>8. QED
      BY <3>6, <3>7 DEF Named
  <2>3. QED
    BY <1>4, <2>1, <2>2 DEF CreateUser
<1>5. ASSUME NEW c \in Clients, CreateWallet(c)
      PROVE  HoldersInv'
  BY <1>5 DEF CreateWallet, Calls
<1>6. ASSUME NEW c \in Clients, CreateWalletFails(c) \/ ProviderRefuses(c) \/ Answer(c)
      PROVE  HoldersInv'
  BY <1>6 DEF CreateWalletFails, ProviderRefuses, Answer, Ends, stores
<1>7. ASSUME NEW c \in Clients, NEW e \in Emails, ProviderNames(c, e) \/ Register(c, e) \/ Login(c, e)
      PROVE  HoldersInv'
  BY <1>7 DEF ProviderNames, Register, Login, Goes, stores
<1>8. CASE UNCHANGED accountVars
  BY <1>8 DEF accountVars
<1>9. QED
  BY <1>1, <1>2, <1>3, <1>4, <1>5, <1>6, <1>7, <1>8 DEF AccountsNext, BackgroundNext

\* With Postgres a user that is there stays.
LEMMA UsersStay ==
    ASSUME [AccountsNext]_accountVars
    PROVE  useDb' = useDb /\ (useDb => users \subseteq users')
<1>1. ASSUME NEW k \in StateKeys, Initiate(k) \/ TenMinutesPass(k)
      PROVE  UNCHANGED <<useDb, users>>
  BY <1>1 DEF Initiate, TenMinutesPass, stores
<1>2. ASSUME NEW c \in Clients, NEW k \in StateKeys, Callback(c, k)
      PROVE  UNCHANGED <<useDb, users>>
  BY <1>2 DEF Callback, stores
<1>3. ASSUME NEW c \in Clients,
             CreateWallet(c) \/ CreateWalletFails(c) \/ ProviderRefuses(c) \/ Answer(c)
      PROVE  UNCHANGED <<useDb, users>>
  BY <1>3 DEF CreateWallet, CreateWalletFails, ProviderRefuses, Answer, stores
<1>4. ASSUME NEW c \in Clients, NEW e \in Emails, ProviderNames(c, e) \/ Register(c, e) \/ Login(c, e)
      PROVE  UNCHANGED <<useDb, users>>
  BY <1>4 DEF ProviderNames, Register, Login, stores
<1>5. ASSUME NEW c \in Clients, CreateUser(c)
      PROVE  useDb' = useDb /\ users \subseteq users'
  BY <1>5 DEF CreateUser, stores
<1>6. CASE Restart
  BY <1>6 DEF Restart
<1>7. CASE UNCHANGED accountVars
  BY <1>7 DEF accountVars
<1>8. QED
  BY <1>1, <1>2, <1>3, <1>4, <1>5, <1>6, <1>7 DEF AccountsNext, BackgroundNext

LEMMA TokensStep ==
    PagesInv /\ HoldersInv /\ TokensNameUsers /\ [SessionsNext]_sessionVars => TokensNameUsers'
<1> SUFFICES ASSUME PagesInv, HoldersInv, TokensNameUsers, [SessionsNext]_sessionVars, useDb'
             PROVE  NamesAUser(stored)' /\ \A t \in Clients : NamesAUser(request[t].token)'
  BY DEF TokensNameUsers
<1>1. useDb /\ users \subseteq users'
  BY SessionsStep, UsersStay
<1>2. NamesAUser(stored) /\ \A t \in Clients : NamesAUser(request[t].token)
  BY <1>1 DEF TokensNameUsers
<1> DEFINE Named(token) == token.live => \E u \in users' : u.id = token.user
<1>3. \A token : NamesAUser(token) => Named(token)
  BY <1>1 DEF NamesAUser, IsUser
<1>4. Named(NoToken) /\ NoRequest.token = NoToken
  BY DEF NoToken, NoRequest
<1>5. SUFFICES Named(stored') /\ \A t \in Clients : Named(request'[t].token)
  BY DEF NamesAUser, IsUser
<1>6. Named(stored) /\ \A t \in Clients : Named(request[t].token)
  BY <1>2, <1>3
<1> HIDE DEF Named
<1>7. CASE UNCHANGED pages \/ UNCHANGED sessionVars
  BY <1>6, <1>7 DEF pages, sessionVars
<1>8. ASSUME NEW t \in Clients, SignedIn(t)
      PROVE  Named(stored') /\ request' = request
  <2>1. IsUser(call[t].user)
    BY <1>8 DEF SignedIn, Answer, HoldersInv
  <2>2. Named([user |-> call[t].user, live |-> TRUE])
    BY <1>3, <2>1 DEF NamesAUser
  <2>3. QED
    BY <1>6, <1>8, <2>2 DEF SignedIn
<1>9. ASSUME NEW t \in Clients, Mount(t) \/ Logout(t)
      PROVE  Named(stored') /\ request' = request
  BY <1>4, <1>6, <1>9 DEF Mount, Logout
<1>10. CASE TokenExpires
  <2>1. request' = request /\ stored' = [stored EXCEPT !.live = FALSE] /\ stored \in Tokens
    BY <1>10 DEF TokenExpires, PagesInv
  <2>2. stored'.live = FALSE
    BY <2>1 DEF Tokens
  <2>3. Named(stored')
    BY <2>2 DEF Named
  <2>4. QED
    BY <1>6, <2>1, <2>3
<1>11. ASSUME NEW t \in Clients, NEW kind, NEW form, NEW status, Asks(t, kind, form, status)
       PROVE  stored' = stored /\ \A p \in Clients : Named(request'[p].token)
  <2>1. stored' = stored
    BY <1>11 DEF Asks
  <2>2. PICK r : r.token = stored /\ request' = [request EXCEPT ![t] = r]
    BY <1>11 DEF Asks
  <2>3. QED
    BY <1>6, <2>1, <2>2 DEF PagesInv
<1>12. ASSUME NEW t \in Clients, Serve(t)
       PROVE  stored' = stored /\ \A p \in Clients : request'[p].token = request[p].token
  <2>1. PICK answer : request' = [request EXCEPT ![t] = [request[t] EXCEPT !.status = answer]]
    BY <1>12 DEF Serve
  <2>2. request[t] \in Requests
    BY DEF PagesInv
  <2>3. [request[t] EXCEPT !.status = answer].token = request[t].token
    BY <2>2 DEF Requests
  <2>4. QED
    BY <1>12, <2>1, <2>3 DEF Serve, PagesInv
<1>13. ASSUME NEW t \in Clients, ShowOutcome(t)
       PROVE  stored' = stored /\ \A p \in Clients : Named(request'[p].token)
  BY <1>4, <1>6, <1>13 DEF ShowOutcome, PagesInv
<1>14. CASE ServerRestarts
  BY <1>4, <1>6, <1>14 DEF ServerRestarts
<1>15. ASSUME NEW t \in Clients, ClickCancel(t) \/ LoadBalance(t)
       PROVE  stored' = stored /\ \A p \in Clients : Named(request'[p].token)
  BY <1>11, <1>15 DEF ClickCancel, LoadBalance
<1>16. ASSUME NEW t \in Clients, NEW form, SubmitOrder(t, form) \/ SubmitDeposit(t, form)
       PROVE  stored' = stored /\ \A p \in Clients : Named(request'[p].token)
  BY <1>11, <1>16 DEF SubmitOrder, SubmitDeposit
<1>17. QED
  BY <1>6, <1>7, <1>8, <1>9, <1>10, <1>12, <1>13, <1>14, <1>15, <1>16
     DEF SessionsNext, SignUp, SignIn, ComeBack

\* What the middleware and the controller refuse with.
LEMMA RefusalsHaveReasons ==
    ASSUME NEW r \in Requests, r.kind # "none", WalletOrReason, useDb => NamesAUser(r.token)
    PROVE  /\ useDb /\ Verdict(r) = "unauthorized" => ~r.token.live
           /\ Verdict(r) = "notFound" =>
                WalletIsMissing(r.user) \/ (r.kind = "balance" /\ r.user # r.token.user)
<1>1. useDb /\ r.token.live => Authenticated(r.token)
  BY DEF Authenticated, NamesAUser, IsUser
<1>2. Authenticated(r.token) => Verdict(r) # "unauthorized"
  BY DEF Verdict, OfWallet, Requests
<1>3. ASSUME Verdict(r) = "notFound", r.kind # "balance" \/ r.user = r.token.user
      PROVE  WalletIsMissing(r.user)
  <2>1. Authenticated(r.token)
    BY <1>3 DEF Verdict
  <2>2. r.kind \in {"deposit", "balance"} /\ (r.kind = "deposit" => MayDeposit(r))
        /\ OfWallet(r) = "notFound"
    BY <1>3, <2>1 DEF Verdict, Requests
  <2>3. r.user = r.token.user /\ r.user \notin wallets
    BY <1>3, <2>2 DEF MayDeposit, OfWallet
  <2>4. PICK u \in users : u.id = r.user
    BY <2>1, <2>3 DEF Authenticated
  <2>5. QED
    BY <2>3, <2>4 DEF WalletOrReason, WalletIsMissing
<1>4. QED
  BY <1>1, <1>2, <1>3

\* A request that is under way is answered by the server or dropped, and only
\* Serve answers.
LEMMA OnlyServeAnswers ==
    ASSUME PagesInv, [SessionsNext]_sessionVars, NEW t \in Clients, request[t].status = "sent",
           request'[t].status \in {"unauthorized", "notFound"}
    PROVE  Serve(t)
<1> USE DEF PagesInv
<1>1. request'[t] # request[t] /\ request'[t] # NoRequest /\ request'[t].status # "none"
  BY NoRequestIsARequest
<1>2. ASSUME NEW p \in Clients, NEW kind, NEW form, NEW status, Asks(p, kind, form, status)
      PROVE  FALSE
  <2>1. p # t
    BY <1>2, NoRequestIsARequest DEF Asks, PageIsIdle
  <2>2. request'[t] = request[t]
    BY <1>2, <2>1 DEF Asks
  <2>3. QED
    BY <1>1, <2>2
<1>3. ASSUME NEW p \in Clients, ClickCancel(p) \/ LoadBalance(p)
      PROVE  FALSE
  BY <1>2, <1>3 DEF ClickCancel, LoadBalance
<1>4. ASSUME NEW p \in Clients, NEW form, SubmitOrder(p, form) \/ SubmitDeposit(p, form)
      PROVE  FALSE
  BY <1>2, <1>4 DEF SubmitOrder, SubmitDeposit
<1>5. ASSUME NEW p \in Clients, SignedIn(p) \/ Mount(p) \/ Logout(p)
      PROVE  FALSE
  BY <1>1, <1>5 DEF SignedIn, Mount, Logout
<1>6. ASSUME NEW p \in Clients, ShowOutcome(p)
      PROVE  FALSE
  BY <1>1, <1>6 DEF ShowOutcome
<1>7. ASSUME NEW p \in Clients, Serve(p), p # t
      PROVE  FALSE
  BY <1>1, <1>7 DEF Serve
<1>8. CASE ServerRestarts
  BY <1>1, <1>8 DEF ServerRestarts
<1>9. CASE UNCHANGED pages \/ TokenExpires \/ UNCHANGED sessionVars
  BY <1>1, <1>9 DEF pages, TokenExpires, sessionVars
<1>10. QED
  BY <1>3, <1>4, <1>5, <1>6, <1>7, <1>8, <1>9 DEF SessionsNext, SignUp, SignIn, ComeBack

\* Whoever is signed in is served, whatever overlapped, failed or was cut off
\* while the account was made: with Postgres only a token that is missing or
\* has expired is unauthorized, and a wallet that is not found is one that is
\* being created or could not be.
THEOREM SignedInIsAlwaysServed == SessionsSpec => SignedInIsServed
<1> DEFINE Inv == CallsInv /\ PagesInv /\ WalletOrReason /\ HoldersInv /\ TokensNameUsers
<1>1. SessionsInit => Inv
  <2> SUFFICES ASSUME SessionsInit PROVE Inv
    OBVIOUS
  <2>1. CallsInv /\ PagesInv
    BY CallsInvInit, NoRequestIsARequest DEF SessionsInit, PagesInv, NoUser
  <2>2. WalletOrReason
    BY DEF SessionsInit, AccountsInit, WalletOrReason
  <2>3. HoldersInv
    BY IdleIsACall DEF SessionsInit, AccountsInit, HoldersInv, At
  <2>4. TokensNameUsers
    BY DEF SessionsInit, TokensNameUsers, NamesAUser, NoToken, NoRequest
  <2>5. QED
    BY <2>1, <2>2, <2>3, <2>4
<1>2. Inv /\ [SessionsNext]_sessionVars => Inv'
  BY SessionsStep, CallsInvStep, PagesStep, WalletStep, HoldersStep, TokensStep
<1> DEFINE Reasoned(t) ==
      LET r == request[t]
          answer == request'[t].status
      IN  r.status = "sent" =>
            /\ useDb /\ answer = "unauthorized" => ~r.token.live
            /\ answer = "notFound" =>
                 \/ WalletIsMissing(r.user)
                 \/ r.kind = "balance" /\ r.user # r.token.user
<1>3. Inv /\ [SessionsNext]_sessionVars => [\A t \in Clients : Reasoned(t)]_sessionVars
  <2> SUFFICES ASSUME Inv, [SessionsNext]_sessionVars, NEW t \in Clients, request[t].status = "sent",
                      request'[t].status \in {"unauthorized", "notFound"}
               PROVE  Reasoned(t)
    OBVIOUS
  <2>1. Serve(t)
    BY OnlyServeAnswers
  <2>2. request[t] \in Requests /\ request[t].kind # "none" /\ (useDb => NamesAUser(request[t].token))
    BY DEF PagesInv, TokensNameUsers
  <2>3. request'[t].status = Verdict(request[t])
    BY <2>1, <2>2 DEF Serve, PagesInv, Requests
  <2>4. QED
    BY <2>2, <2>3, RefusalsHaveReasons
<1>4. QED
  BY <1>1, <1>2, <1>3, PTL DEF SessionsSpec, SignedInIsServed

-----------------------------------------------------------------------------
(* Forms.  The two copies of the limits agree on every form; what is under *)
(* way has passed its form, and what was stopped has not.                  *)

LEMMA LimitsAgree ==
    /\ ScreenLimits = ApiLimits
    /\ ApiLimits.minPrice \in Nat \ {0} /\ ApiLimits.maxPrice \in Nat
    /\ ApiLimits.maxQuantity \in Nat /\ ApiLimits.maxDeposit \in Nat
BY SMT DEF ScreenLimits, ApiLimits

LEMMA DepositLimitsAgree == \A amount \in Amounts : DepositFormAccepts(amount) <=> DepositIsValid(amount)
BY LimitsAgree DEF DepositFormAccepts, DepositIsValid

LEMMA OrderLimitsAgree ==
    ASSUME NEW form \in OrderForms, form.type = "LIMIT", form.symbol \in Pairs, NEW user, user # NoUser
    PROVE  /\ OrderFormAccepts(form) <=> OrderIsValid(OrderBody(form), user)
           /\ OrderFormAccepts(form) => BusinessRulesHold(OrderBody(form))
<1>1. form.price \in Nat /\ form.quantity \in Nat /\ form.type = "LIMIT"
  BY FormsAssumption
<1>2. OrderBody(form) = form /\ form.symbol # ""
  BY DEF OrderBody, Pairs
<1> DEFINE small == form.quantity <= ApiLimits.maxQuantity
           some  == form.quantity > 0
<1>3. PriceIsValid(form.price) <=>
        form.price > 0 /\ form.price >= ApiLimits.minPrice /\ form.price <= ApiLimits.maxPrice
  BY DEF PriceIsValid
<1>4. form.quantity \in 1..ApiLimits.maxQuantity <=> some /\ small
  BY <1>1, LimitsAgree
<1> HIDE DEF small, some
<1>5. OrderFormAccepts(form) <=> PriceIsValid(form.price) /\ some /\ small
  BY <1>1, <1>2, <1>3, <1>4, LimitsAgree DEF OrderFormAccepts
<1>6. OrderIsValid(form, user) <=> PriceIsValid(form.price) /\ some /\ small
  BY <1>1, <1>2 DEF OrderIsValid, some, small
<1>7. BusinessRulesHold(form) <=> PriceIsValid(form.price) /\ some /\ small
  BY DEF BusinessRulesHold, some, small
<1>8. QED
  BY <1>2, <1>5, <1>6, <1>7

\* What a request says of the form it was made from.
FormWasJudged(r) ==
    /\ r.kind # "none" => r.user # NoUser
    /\ r.kind = "deposit" => /\ r.form \in Amounts
                             /\ r.status = "stopped" <=> ~DepositFormAccepts(r.form)
                             /\ r.status # "bad"
    /\ r.kind = "order" => r.form \in OrderForms
    /\ r.kind = "order" /\ r.form.type = "LIMIT" /\ r.form.symbol \in Pairs =>
          /\ r.status = "stopped" <=> ~OrderFormAccepts(r.form)
          /\ r.status # "bad"

FormInv == \A t \in Clients : FormWasJudged(request[t])

LEMMA JudgedIsServed ==
    ASSUME NEW r \in Requests, r.kind # "none", r.status = "sent", FormWasJudged(r)
    PROVE  FormWasJudged([r EXCEPT !.status = Verdict(r)])
<1> DEFINE answer == Verdict(r)
           s == [r EXCEPT !.status = answer]
<1>1. s.kind = r.kind /\ s.form = r.form /\ s.user = r.user /\ s.status = answer
  BY DEF Requests
<1>2. answer # "stopped" /\ (r.kind = "deposit" => answer # "bad")
      /\ (r.kind = "order" /\ r.form.type = "LIMIT" /\ r.form.symbol \in Pairs => answer # "bad")
  <2>1. CASE r.kind = "deposit"
    BY <2>1, DepositLimitsAgree DEF Verdict, OfWallet, FormWasJudged
  <2>2. CASE r.kind = "order"
    BY <2>2, OrderLimitsAgree DEF Verdict, FormWasJudged
  <2>3. CASE r.kind = "cancel"
    BY <2>3 DEF Verdict
  <2>4. CASE r.kind = "balance"
    BY <2>4 DEF Verdict, OfWallet
  <2>5. QED
    BY <2>1, <2>2, <2>3, <2>4 DEF Requests
<1> HIDE DEF answer, s
<1>3. FormWasJudged(s)
  BY <1>1, <1>2 DEF FormWasJudged
<1>4. QED
  BY <1>3 DEF s, answer

LEMMA FormStep == PagesInv /\ FormInv /\ [SessionsNext]_sessionVars => FormInv'
<1> SUFFICES ASSUME PagesInv, FormInv, [SessionsNext]_sessionVars PROVE FormInv'
  OBVIOUS
<1>1. ASSUME UNCHANGED request PROVE FormInv'
  BY <1>1 DEF FormInv
<1>2. ASSUME NEW t \in Clients, NEW r, FormWasJudged(r), request' = [request EXCEPT ![t] = r]
      PROVE  FormInv'
  BY <1>2 DEF FormInv, PagesInv
<1>3. FormWasJudged(NoRequest)
  BY DEF FormWasJudged, NoRequest
<1>4. ASSUME NEW t \in Clients, NEW form \in OrderForms, SubmitOrder(t, form)
      PROVE  FormInv'
  <2> DEFINE r == [kind |-> "order", form |-> form, user |-> shown[t], token |-> stored,
                   status |-> IF OrderFormAccepts(form) THEN "sent" ELSE "stopped"]
  <2>1. FormWasJudged(r)
    BY <1>4 DEF FormWasJudged, SubmitOrder, Asks
  <2>2. request' = [request EXCEPT ![t] = r]
    BY <1>4 DEF SubmitOrder, Asks
  <2>3. QED
    BY <1>2, <2>1, <2>2
<1>5. ASSUME NEW t \in Clients, NEW amount \in Amounts, SubmitDeposit(t, amount)
      PROVE  FormInv'
  <2> DEFINE r == [kind |-> "deposit", form |-> amount, user |-> shown[t], token |-> stored,
                   status |-> IF DepositFormAccepts(amount) THEN "sent" ELSE "stopped"]
  <2>1. FormWasJudged(r)
    BY <1>5 DEF FormWasJudged, SubmitDeposit, Asks
  <2>2. request' = [request EXCEPT ![t] = r]
    BY <1>5 DEF SubmitDeposit, Asks
  <2>3. QED
    BY <1>2, <2>1, <2>2
<1>6. ASSUME NEW t \in Clients, ClickCancel(t)
      PROVE  FormInv'
  <2> DEFINE r == [kind |-> "cancel", form |-> [userId |-> NoUser], user |-> shown[t], token |-> stored,
                   status |-> "sent"]
  <2>1. FormWasJudged(r)
    BY <1>6 DEF FormWasJudged, ClickCancel, Asks
  <2>2. request' = [request EXCEPT ![t] = r]
    BY <1>6 DEF ClickCancel, Asks
  <2>3. QED
    BY <1>2, <2>1, <2>2
<1>7. ASSUME NEW t \in Clients, LoadBalance(t)
      PROVE  FormInv'
  <2> DEFINE r == [kind |-> "balance", form |-> 0, user |-> shown[t], token |-> stored, status |-> "sent"]
  <2>1. FormWasJudged(r)
    BY <1>7 DEF FormWasJudged, LoadBalance, Asks
  <2>2. request' = [request EXCEPT ![t] = r]
    BY <1>7 DEF LoadBalance, Asks
  <2>3. QED
    BY <1>2, <2>1, <2>2
<1>8. ASSUME NEW t \in Clients, Serve(t)
      PROVE  FormInv'
  <2>1. request[t] \in Requests /\ request[t].kind # "none" /\ request[t].status = "sent"
    BY <1>8 DEF Serve, PagesInv
  <2>2. FormWasJudged([request[t] EXCEPT !.status = Verdict(request[t])])
    BY <2>1, JudgedIsServed DEF FormInv
  <2>3. request' = [request EXCEPT ![t] = [request[t] EXCEPT !.status = Verdict(request[t])]]
    BY <1>8 DEF Serve
  <2>4. QED
    BY <1>2, <2>2, <2>3
<1>9. ASSUME NEW t \in Clients, ShowOutcome(t)
      PROVE  FormInv'
  BY <1>2, <1>3, <1>9 DEF ShowOutcome
<1>10. CASE ServerRestarts
  BY <1>3, <1>10 DEF ServerRestarts, FormInv
<1>11. ASSUME NEW t \in Clients, SignedIn(t) \/ Mount(t) \/ Logout(t)
       PROVE  FormInv'
  BY <1>1, <1>11 DEF SignedIn, Mount, Logout
<1>12. CASE UNCHANGED pages \/ TokenExpires \/ UNCHANGED sessionVars
  BY <1>1, <1>12 DEF pages, TokenExpires, sessionVars
<1>13. QED
  BY <1>4, <1>5, <1>6, <1>7, <1>8, <1>9, <1>10, <1>11, <1>12
     DEF SessionsNext, SignUp, SignIn, ComeBack

\* "so that API and UI agree on what is acceptable": for every amount and every
\* LIMIT order of a pair the form and the API give the same verdict.
THEOREM FormsAgreeWithApi == SessionsSpec => []FormMatchesApi
<1> DEFINE Inv == CallsInv /\ PagesInv /\ FormInv
<1>1. SessionsInit => Inv
  BY CallsInvInit, NoRequestIsARequest
     DEF SessionsInit, PagesInv, NoUser, FormInv, FormWasJudged, NoRequest
<1>2. Inv /\ [SessionsNext]_sessionVars => Inv'
  BY SessionsStep, CallsInvStep, PagesStep, FormStep
<1>3. Inv => FormMatchesApi
  <2> SUFFICES ASSUME FormInv, NEW t \in Clients
               PROVE  LET r == request[t] IN
                      /\ r.kind = "deposit" => /\ r.status = "stopped" => ~DepositIsValid(r.form)
                                               /\ r.status # "bad"
                      /\ r.kind = "order" /\ r.form.type = "LIMIT" /\ r.form.symbol \in Pairs =>
                           /\ r.status = "stopped" => ~OrderIsValid(OrderBody(r.form), r.user)
                           /\ r.status # "bad"
    BY DEF FormMatchesApi
  <2>1. FormWasJudged(request[t])
    BY DEF FormInv
  <2>2. QED
    BY <2>1, DepositLimitsAgree, OrderLimitsAgree DEF FormWasJudged
<1>4. QED
  BY <1>1, <1>2, <1>3, PTL DEF SessionsSpec

-----------------------------------------------------------------------------
(* Types.  The ids stay within UserIds because Room counts the calls that  *)
(* are about to create a user with those that were created.                *)

Creating == {c \in Clients : At(c, "create")}

AccountsInv ==
    /\ AccountsTypeOK
    /\ created \in Nat
    /\ created + Cardinality(Creating) <= Cardinality(UserIds)

LEMMA CreatingIsFinite ==
    /\ IsFiniteSet(Creating) /\ Cardinality(Creating) \in Nat
    /\ Cardinality(UserIds) \in Nat
    /\ \A n \in Nat : n \in UserIds <=> n >= 1 /\ n <= Cardinality(UserIds)
<1>1. IsFiniteSet(Creating)
  BY ClientsAssumption, FS_Subset DEF Creating
<1>2. Cardinality(Creating) \in Nat /\ Cardinality(UserIds) \in Nat
  BY <1>1, UserIdsAssumption, FS_CardinalityType
<1>3. QED
  BY <1>1, <1>2, UserIdsAssumption

LEMMA CallsInCall ==
    /\ Idle \in Call /\ Idle.step = "idle"
    /\ [Idle EXCEPT !.step = "exchange", !.kind = "oauth"] \in Call
    /\ [Idle EXCEPT !.step = "exchange", !.kind = "oauth"].step = "exchange"
    /\ \A x \in Call : x.step # "idle" =>
          /\ x.kind \in {"register", "login", "oauth"} /\ x.email \in Emails
          /\ x.user \in UserIds \cup {NoUser}
          /\ [x EXCEPT !.step = "answer"] \in Call /\ [x EXCEPT !.step = "answer"].step = "answer"
          /\ [x EXCEPT !.step = "answer"].user = x.user
<1>1. Idle.email \in Emails
  BY EmailsAssumption DEF Idle
<1>2. /\ Idle \in Call /\ Idle.step = "idle"
      /\ [Idle EXCEPT !.step = "exchange", !.kind = "oauth"] \in Call
      /\ [Idle EXCEPT !.step = "exchange", !.kind = "oauth"].step = "exchange"
  BY <1>1 DEF Idle, Call
<1>3. ASSUME NEW x \in Call, x.step # "idle"
      PROVE  x \in [step : {"exchange", "create", "wallet", "answer"}, kind : {"register", "login", "oauth"},
                    email : Emails, user : UserIds \cup {NoUser}]
  BY <1>2, <1>3 DEF Call
<1>4. ASSUME NEW x \in [step : {"exchange", "create", "wallet", "answer"},
                        kind : {"register", "login", "oauth"},
                        email : Emails, user : UserIds \cup {NoUser}]
      PROVE  /\ x.kind \in {"register", "login", "oauth"} /\ x.email \in Emails
             /\ x.user \in UserIds \cup {NoUser}
             /\ [x EXCEPT !.step = "answer"] \in Call /\ [x EXCEPT !.step = "answer"].step = "answer"
             /\ [x EXCEPT !.step = "answer"].user = x.user
  BY DEF Call
<1>5. QED
  BY <1>2, <1>3, <1>4

\* The room that is left says how many more calls may create a user.
LEMMA CreatingChanges ==
    /\ (\A c \in Clients : At(c, "create")' => At(c, "create")) =>
          Cardinality(Creating') <= Cardinality(Creating)
    /\ \A c \in Clients : (\A b \in Clients \ {c} : At(b, "create")' => At(b, "create")) =>
          Cardinality(Creating') <= Cardinality(Creating) + 1
    /\ \A c \in Clients : /\ At(c, "create") /\ ~At(c, "create")'
                          /\ \A b \in Clients \ {c} : At(b, "create")' => At(b, "create")
          => Cardinality(Creating') + 1 <= Cardinality(Creating)
    /\ Cardinality(Creating') \in Nat
<1> DEFINE After == {c \in Clients : At(c, "create")'}
<1>1. Creating' = After
  BY DEF Creating
<1>2. IsFiniteSet(After) /\ Cardinality(After) \in Nat /\ IsFiniteSet(Creating) /\ Cardinality(Creating) \in Nat
  BY ClientsAssumption, CreatingIsFinite, FS_Subset, FS_CardinalityType
<1> HIDE DEF After
<1>3. \A c \in Clients : c \in After <=> At(c, "create")'
  BY DEF After
<1>4. After \subseteq Clients /\ Creating \subseteq Clients
  BY DEF After, Creating
<1>5. \A c \in Clients : c \in Creating <=> At(c, "create")
  BY DEF Creating
<1>6. ASSUME \A c \in Clients : At(c, "create")' => At(c, "create")
      PROVE  Cardinality(After) <= Cardinality(Creating)
  <2>1. After \subseteq Creating
    BY <1>3, <1>4, <1>5, <1>6
  <2>2. QED
    BY <1>2, <2>1, FS_Subset
<1>7. ASSUME NEW c \in Clients, \A b \in Clients \ {c} : At(b, "create")' => At(b, "create")
      PROVE  Cardinality(After) <= Cardinality(Creating) + 1
  <2>1. After \subseteq Creating \cup {c}
    BY <1>3, <1>4, <1>5, <1>7
  <2>2. /\ IsFiniteSet(Creating \cup {c})
        /\ Cardinality(Creating \cup {c}) = IF c \in Creating THEN Cardinality(Creating)
                                                            ELSE Cardinality(Creating) + 1
    BY <1>2, FS_AddElement
  <2>3. Cardinality(After) <= Cardinality(Creating \cup {c})
    BY <2>1, <2>2, FS_Subset
  <2>4. QED
    BY <1>2, <2>2, <2>3
<1>8. ASSUME NEW c \in Clients, At(c, "create"), ~At(c, "create")',
             \A b \in Clients \ {c} : At(b, "create")' => At(b, "create")
      PROVE  Cardinality(After) + 1 <= Cardinality(Creating)
  <2>1. After \subseteq Creating \ {c}
    BY <1>3, <1>4, <1>5, <1>8
  <2>2. IsFiniteSet(Creating \ {c}) /\ Cardinality(Creating \ {c}) = Cardinality(Creating) - 1
    BY <1>2, <1>5, <1>8, FS_RemoveElement
  <2>3. Cardinality(After) <= Cardinality(Creating \ {c})
    BY <2>1, <2>2, FS_Subset
  <2>4. QED
    BY <1>2, <2>2, <2>3
<1>9. QED
  BY <1>1, <1>2, <1>6, <1>7, <1>8

\* A step that leaves created alone and sends nobody to create, or one call while
\* there is room.
LEMMA NobodyCreates ==
    ASSUME created \in Nat, created + Cardinality(Creating) <= Cardinality(UserIds),
           created' = created, \A c \in Clients : At(c, "create")' => At(c, "create")
    PROVE  created' \in Nat /\ created' + Cardinality(Creating') <= Cardinality(UserIds)
BY CreatingIsFinite, CreatingChanges

LEMMA OneMoreCreates ==
    ASSUME created \in Nat, Room, created' = created, NEW c \in Clients,
           \A b \in Clients \ {c} : At(b, "create")' => At(b, "create")
    PROVE  created' \in Nat /\ created' + Cardinality(Creating') <= Cardinality(UserIds)
<1>1. created + Cardinality(Creating) < Cardinality(UserIds)
  BY DEF Room, Creating
<1>2. Cardinality(Creating') <= Cardinality(Creating) + 1 /\ Cardinality(Creating') \in Nat
  BY CreatingChanges
<1>3. QED
  BY <1>1, <1>2, CreatingIsFinite

LEMMA OneWasCreated ==
    ASSUME created \in Nat, created + Cardinality(Creating) <= Cardinality(UserIds), created' = created + 1,
           NEW c \in Clients, At(c, "create"), ~At(c, "create")',
           \A b \in Clients \ {c} : At(b, "create")' => At(b, "create")
    PROVE  /\ created' \in Nat /\ created' + Cardinality(Creating') <= Cardinality(UserIds)
           /\ created' \in UserIds /\ created' # NoUser
<1>1. Cardinality(Creating') + 1 <= Cardinality(Creating) /\ Cardinality(Creating') \in Nat
  BY CreatingChanges
<1>2. created' \in Nat /\ created' + Cardinality(Creating') <= Cardinality(UserIds)
      /\ created' >= 1 /\ created' <= Cardinality(UserIds)
  BY <1>1, CreatingIsFinite
<1>3. QED
  BY <1>2, CreatingIsFinite DEF NoUser

\* One call goes on, as x says; a call past createUser has its user.
CallsTyped ==
    /\ call \in [Clients -> Call]
    /\ \A c \in Clients : At(c, "wallet") \/ At(c, "answer") => call[c].user # NoUser

LEMMA OneCallMoves ==
    ASSUME CallsTyped, NEW c \in Clients, NEW x \in Call, call' = [call EXCEPT ![c] = x],
           x.step \in {"wallet", "answer"} => x.user # NoUser
    PROVE  /\ CallsTyped'
           /\ call'[c] = x /\ \A b \in Clients \ {c} : call'[b] = call[b]
<1>1. /\ call' \in [Clients -> Call]
      /\ call'[c] = x /\ \A b \in Clients \ {c} : call'[b] = call[b]
  BY DEF CallsTyped
<1>2. ASSUME NEW b \in Clients, call'[b].step \in {"wallet", "answer"} PROVE call'[b].user # NoUser
  <2>1. CASE b = c
    BY <1>1, <1>2, <2>1
  <2>2. CASE b # c
    BY <1>1, <1>2, <2>2 DEF CallsTyped, At
  <2>3. QED
    BY <2>1, <2>2
<1>3. QED
  BY <1>1, <1>2 DEF CallsTyped, At

LEMMA AccountsInvStep == AccountsInv /\ [AccountsNext]_accountVars => AccountsInv'
<1> SUFFICES ASSUME AccountsInv, [AccountsNext]_accountVars PROVE AccountsInv'
  OBVIOUS
<1> DEFINE Counted == created' \in Nat /\ created' + Cardinality(Creating') <= Cardinality(UserIds)
<1> USE CallsInCall DEF AccountsInv, AccountsTypeOK, At
<1>0. CallsTyped /\ (CallsTyped' => /\ call' \in [Clients -> Call]
                                   /\ \A b \in Clients : At(b, "wallet")' \/ At(b, "answer")' => call'[b].user # NoUser)
  BY DEF CallsTyped
<1>1. ASSUME NEW k \in StateKeys, Initiate(k) \/ TenMinutesPass(k)
      PROVE  AccountsInv'
  <2>1. UNCHANGED <<users, byEmail, wallets, created, call>>
    BY <1>1 DEF Initiate, TenMinutesPass, stores
  <2>2. oauthStates' \in [StateKeys -> {"unknown", "fresh", "old", "gone"}]
    BY <1>1 DEF Initiate, TenMinutesPass
  <2>3. Counted
    BY <2>1, NobodyCreates
  <2>4. QED
    BY <2>1, <2>2, <2>3
<1>2. ASSUME NEW c \in Clients, NEW k \in StateKeys, Callback(c, k)
      PROVE  AccountsInv'
  <2>1. UNCHANGED <<users, byEmail, wallets, created>>
        /\ \/ UNCHANGED call
           \/ call' = [call EXCEPT ![c] = [Idle EXCEPT !.step = "exchange", !.kind = "oauth"]]
    BY <1>2 DEF Callback, stores
  <2>2. oauthStates' \in [StateKeys -> {"unknown", "fresh", "old", "gone"}]
    BY <1>2 DEF Callback, Deleted
  <2>3. CASE UNCHANGED call
    <3>1. Counted
      BY <2>1, <2>3, NobodyCreates
    <3>2. QED
      BY <2>1, <2>2, <2>3, <3>1
  <2>4. ASSUME call' = [call EXCEPT ![c] = [Idle EXCEPT !.step = "exchange", !.kind = "oauth"]]
        PROVE  AccountsInv'
    <3>1. PICK x \in Call : x = [Idle EXCEPT !.step = "exchange", !.kind = "oauth"] /\ x.step = "exchange"
      OBVIOUS
    <3>2. call' = [call EXCEPT ![c] = x]
      BY <2>4, <3>1
    <3>3. CallsTyped' /\ call'[c] = x /\ \A b \in Clients \ {c} : call'[b] = call[b]
      BY <1>0, <3>1, <3>2, OneCallMoves
    <3>4. Counted
      BY <2>1, <3>1, <3>3, NobodyCreates
    <3>5. QED
      BY <1>0, <2>1, <2>2, <3>3, <3>4
  <2>5. QED
    BY <2>1, <2>3, <2>4
<1>3. CASE Restart
  <2>1. /\ created' = created /\ call' = [c \in Clients |-> Idle]
        /\ oauthStates' \in [StateKeys -> {"unknown", "fresh", "old", "gone"}]
    BY <1>3 DEF Restart
  <2>2. Counted
    BY <2>1, NobodyCreates
  <2>3. /\ users' \subseteq [id : UserIds, email : Emails, password : BOOLEAN]
        /\ byEmail' \in [Emails -> UserIds \cup {NoUser}] /\ wallets' \subseteq UserIds
    BY <1>3 DEF Restart, Backfilled
  <2>4. QED
    BY <2>1, <2>2, <2>3
<1>4. ASSUME NEW c \in Clients, CreateUser(c)
      PROVE  AccountsInv'
  <2>1. call[c] \in Call /\ call[c].step = "create" /\ UNCHANGED <<wallets, oauthStates>>
    BY <1>4 DEF CreateUser, stores
  <2>2. CASE Ends(c) /\ UNCHANGED stores
    <3>1. Counted
      BY <2>2, NobodyCreates DEF Ends, stores
    <3>2. QED
      BY <2>1, <2>2, <3>1 DEF Ends, stores
  <2>3. CASE ~RefusedByIndex(call[c].email)
    <3>1. PICK id, x : /\ id = created + 1 /\ created' = id
                       /\ x = [step |-> "wallet", kind |-> call[c].kind, email |-> call[c].email, user |-> id]
                       /\ call' = [call EXCEPT ![c] = x]
      BY <1>4, <2>3 DEF CreateUser, Goes
    <3>2. x.step = "wallet" /\ x.user = id
      BY <3>1
    <3>3. \A b \in Clients \ {c} : call'[b] = call[b]
      BY <3>1
    <3>4. call'[c] = x
      BY <3>1
    <3>5. Counted /\ id \in UserIds /\ id # NoUser
      BY <2>1, <3>1, <3>2, <3>3, <3>4, OneWasCreated
    <3>6. x \in Call
      BY <2>1, <3>1, <3>5 DEF Call
    <3>7. /\ users' = users \cup {[id |-> id, email |-> call[c].email, password |-> call[c].kind = "register"]}
          /\ byEmail' = [byEmail EXCEPT ![call[c].email] = id]
      BY <1>4, <2>3, <3>1 DEF CreateUser
    <3>8. /\ users' \subseteq [id : UserIds, email : Emails, password : BOOLEAN]
          /\ byEmail' \in [Emails -> UserIds \cup {NoUser}]
      <4>1. (call[c].kind = "register") \in BOOLEAN /\ call[c].email \in Emails
        BY <2>1
      <4>2. [id |-> id, email |-> call[c].email, password |-> call[c].kind = "register"]
              \in [id : UserIds, email : Emails, password : BOOLEAN]
        BY <3>5, <4>1, Zenon
      <4>3. users' \subseteq [id : UserIds, email : Emails, password : BOOLEAN]
        BY <3>7, <4>2
      <4>4. byEmail' \in [Emails -> UserIds \cup {NoUser}]
        BY <3>5, <3>7
      <4>5. QED
        BY <4>3, <4>4
    <3>9. CallsTyped'
      BY <1>0, <3>1, <3>2, <3>5, <3>6, OneCallMoves
    <3>10. QED
      BY <1>0, <2>1, <3>5, <3>8, <3>9
  <2>4. QED
    BY <1>4, <2>2, <2>3 DEF CreateUser
<1>5. ASSUME NEW c \in Clients, CreateWallet(c)
      PROVE  AccountsInv'
  <2>1. /\ call[c] \in Call /\ call[c].step = "wallet" /\ call[c].user # NoUser
        /\ wallets' = wallets \cup {call[c].user}
        /\ call' = [call EXCEPT ![c] = [call[c] EXCEPT !.step = "answer"]]
        /\ UNCHANGED <<users, byEmail, created, oauthStates>>
    BY <1>5 DEF CreateWallet
  <2>2. PICK x : x = [call[c] EXCEPT !.step = "answer"]
    OBVIOUS
  <2>3. x \in Call /\ x.step = "answer" /\ x.user # NoUser
    <3>1. call[c] \in Call /\ call[c].step # "idle"
      BY <2>1
    <3>2. x \in Call /\ x.step = "answer" /\ x.user = call[c].user
      BY <2>2, <3>1
    <3>3. QED
      BY <2>1, <3>2
  <2>4. call' = [call EXCEPT ![c] = x]
    BY <2>1, <2>2
  <2>5. CallsTyped' /\ call'[c] = x /\ \A b \in Clients \ {c} : call'[b] = call[b]
    BY <1>0, <2>3, <2>4, OneCallMoves
  <2>6. Counted
    BY <2>1, <2>3, <2>5, NobodyCreates
  <2>7. wallets' \subseteq UserIds
    BY <2>1
  <2>8. QED
    BY <1>0, <2>1, <2>5, <2>6, <2>7
<1>6. ASSUME NEW c \in Clients, CreateWalletFails(c) \/ ProviderRefuses(c) \/ Answer(c)
      PROVE  AccountsInv'
  <2>1. UNCHANGED <<users, byEmail, wallets, created, oauthStates>> /\ call' = [call EXCEPT ![c] = Idle]
    BY <1>6 DEF CreateWalletFails, ProviderRefuses, Answer, Ends, stores
  <2>2. CallsTyped' /\ call'[c] = Idle /\ \A b \in Clients \ {c} : call'[b] = call[b]
    BY <1>0, <2>1, OneCallMoves
  <2>3. Counted
    BY <2>1, <2>2, NobodyCreates
  <2>4. QED
    BY <1>0, <2>1, <2>2, <2>3
<1>7. ASSUME NEW c \in Clients, NEW kind \in {"register", "login", "oauth"}, NEW e \in Emails,
             UNCHANGED <<users, byEmail, wallets, created, oauthStates>>,
             \/ byEmail[e] = NoUser /\ Room /\ Goes(c, "create", kind, e, NoUser)
             \/ byEmail[e] # NoUser /\ Goes(c, "answer", kind, e, byEmail[e])
             \/ UNCHANGED call
      PROVE  AccountsInv'
  <2>1. ASSUME NEW step \in {"create", "answer"}, NEW user \in UserIds \cup {NoUser},
               Goes(c, step, kind, e, user), step = "create" => Room, step = "answer" => user # NoUser
        PROVE  AccountsInv'
    <3>1. PICK x : /\ x = [step |-> step, kind |-> kind, email |-> e, user |-> user]
                   /\ call' = [call EXCEPT ![c] = x]
      BY <2>1 DEF Goes
    <3>2. x \in Call /\ x.step = step /\ x.user = user
      BY <3>1 DEF Call
    <3>3. CallsTyped' /\ call'[c] = x /\ \A b \in Clients \ {c} : call'[b] = call[b]
      BY <1>0, <2>1, <3>1, <3>2, OneCallMoves
    <3>4. Counted
      <4>1. CASE step = "create"
        BY <1>7, <2>1, <3>3, <4>1, OneMoreCreates
      <4>2. CASE step = "answer"
        BY <1>7, <3>2, <3>3, <4>2, NobodyCreates
      <4>3. QED
        BY <4>1, <4>2
    <3>5. QED
      BY <1>0, <1>7, <3>3, <3>4
  <2>2. CASE UNCHANGED call
    <3>1. Counted
      BY <1>7, <2>2, NobodyCreates
    <3>2. QED
      BY <1>7, <2>2, <3>1
  <2>3. QED
    BY <1>7, <2>1, <2>2
<1>8. ASSUME NEW c \in Clients, NEW e \in Emails, ProviderNames(c, e) \/ Register(c, e) \/ Login(c, e)
      PROVE  AccountsInv'
  <2>1. CASE ProviderNames(c, e)
    BY <1>7, <2>1 DEF ProviderNames, stores
  <2>2. CASE Register(c, e)
    BY <1>7, <2>2 DEF Register, stores
  <2>3. CASE Login(c, e)
    <3>1. byEmail[e] # NoUser
      <4>1. \A n \in UserIds : n # NoUser
        BY UserIdsAssumption, CreatingIsFinite DEF NoUser
      <4>2. QED
        BY <2>3, <4>1 DEF Login
    <3>2. QED
      BY <1>7, <2>3, <3>1 DEF Login, stores
  <2>4. QED
    BY <1>8, <2>1, <2>2, <2>3
<1>9. CASE UNCHANGED accountVars
  <2>1. UNCHANGED <<users, byEmail, wallets, created, oauthStates, call>>
    BY <1>9 DEF accountVars, stores
  <2>2. Counted
    BY <2>1, NobodyCreates
  <2>3. QED
    BY <2>1, <2>2
<1>10. QED
  BY <1>1, <1>2, <1>3, <1>4, <1>5, <1>6, <1>8, <1>9 DEF AccountsNext, BackgroundNext

TokensInv ==
    /\ stored \in Token
    /\ shown \in [Clients -> UserIds \cup {NoUser}]
    /\ \A t \in Clients : request[t].token \in Token

LEMMA TokensInvStep == PagesInv /\ TokensInv /\ AccountsInv /\ [SessionsNext]_sessionVars => TokensInv'
<1> SUFFICES ASSUME PagesInv, TokensInv, AccountsInv, [SessionsNext]_sessionVars PROVE TokensInv'
  OBVIOUS
<1> USE DEF TokensInv
<1>1. NoRequest.token \in Token /\ NoToken \in Token /\ stored.user \in UserIds \cup {NoUser}
  BY DEF NoRequest, Token, NoToken
<1>2. CASE UNCHANGED pages \/ UNCHANGED sessionVars
  BY <1>2 DEF pages, sessionVars
<1>3. ASSUME NEW t \in Clients, SignedIn(t)
      PROVE  TokensInv'
  <2>1. call[t].user \in UserIds
    BY <1>3, CallsInCall DEF SignedIn, Answer, AccountsInv, AccountsTypeOK, At
  <2>2. [user |-> call[t].user, live |-> TRUE] \in Token
    BY <2>1 DEF Token
  <2>3. QED
    BY <1>1, <1>3, <2>1, <2>2 DEF SignedIn
<1>4. ASSUME NEW t \in Clients, Mount(t) \/ Logout(t)
      PROVE  TokensInv'
  BY <1>1, <1>4 DEF Mount, Logout
<1>5. ASSUME NEW t \in Clients, NEW kind, NEW form, NEW status, Asks(t, kind, form, status)
      PROVE  TokensInv'
  <2>1. PICK r : r.token = stored /\ request' = [request EXCEPT ![t] = r]
    BY <1>5 DEF Asks
  <2>2. QED
    BY <1>5, <2>1 DEF Asks, PagesInv
<1>6. ASSUME NEW t \in Clients, Serve(t) \/ ShowOutcome(t)
      PROVE  TokensInv'
  <2>1. UNCHANGED <<stored, shown>>
    BY <1>6 DEF Serve, ShowOutcome
  <2>2. CASE Serve(t)
    <3>1. PICK answer : request' = [request EXCEPT ![t] = [request[t] EXCEPT !.status = answer]]
      BY <2>2 DEF Serve
    <3>2. request[t] \in Requests
      BY DEF PagesInv
    <3>3. [request[t] EXCEPT !.status = answer].token = request[t].token
      BY <3>2 DEF Requests
    <3>4. QED
      BY <2>1, <3>1, <3>3 DEF PagesInv
  <2>3. CASE ShowOutcome(t)
    BY <1>1, <2>1, <2>3 DEF ShowOutcome, PagesInv
  <2>4. QED
    BY <1>6, <2>2, <2>3
<1>7. CASE TokenExpires
  <2>1. stored # NoToken
    BY <1>7 DEF TokenExpires, NoToken
  <2>2. [stored EXCEPT !.live = FALSE] \in Token
    BY <2>1 DEF Token
  <2>3. QED
    BY <1>7, <2>2 DEF TokenExpires
<1>8. CASE ServerRestarts
  BY <1>1, <1>8 DEF ServerRestarts
<1>9. QED
  BY <1>2, <1>3, <1>4, <1>5, <1>6, <1>7, <1>8
     DEF SessionsNext, SignUp, SignIn, ComeBack, SubmitOrder, SubmitDeposit, ClickCancel, LoadBalance

\* Every token names a user that was created or nobody, no more users are made
\* than there is room for, and no request goes out from a page that shows nobody.
THEOREM SessionsAreWellTyped == SessionsSpec => []SessionsTypeOK
<1> DEFINE Inv == /\ CallsInv /\ PagesInv /\ FormInv
                  /\ AccountsInv /\ TokensInv
<1>1. SessionsInit => Inv
  <2> SUFFICES ASSUME SessionsInit PROVE Inv
    OBVIOUS
  <2>1. CallsInv /\ PagesInv /\ FormInv
    BY CallsInvInit, NoRequestIsARequest
       DEF SessionsInit, PagesInv, NoUser, FormInv, FormWasJudged, NoRequest
  <2>2. Creating = {}
    BY CallsInCall DEF SessionsInit, AccountsInit, Creating, At
  <2>3. created = 0 /\ created + Cardinality(Creating) <= Cardinality(UserIds)
    BY <2>2, CreatingIsFinite, FS_EmptySet DEF SessionsInit, AccountsInit
  <2>4. AccountsTypeOK
    BY CallsInCall DEF SessionsInit, AccountsInit, AccountsTypeOK, At
  <2>5. TokensInv
    BY DEF SessionsInit, TokensInv, Token, NoRequest
  <2>6. QED
    BY <2>1, <2>3, <2>4, <2>5 DEF AccountsInv
<1>2. Inv /\ [SessionsNext]_sessionVars => Inv'
  BY SessionsStep, CallsInvStep, PagesStep, FormStep, AccountsInvStep, TokensInvStep
<1>3. Inv => SessionsTypeOK
  BY DEF AccountsInv, TokensInv, PagesInv, FormInv, FormWasJudged, Requests, SessionsTypeOK
<1>4. QED
  BY <1>1, <1>2, <1>3, PTL DEF SessionsSpec
=============================================================================
