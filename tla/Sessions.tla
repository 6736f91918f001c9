------------------------------ MODULE Sessions ------------------------------
(***************************************************************************)
(* The pages of one browser and the API they call.  The pages of all tabs  *)
(* share the token in localStorage; the user each shows is React state of  *)
(* its own, set when it signs in or mounts.  A request carries the token   *)
(* read as it is sent and a body built from what the page shows.           *)
(*                                                                         *)
(* Prices, quantities and amounts are in thousandths; a blank field is 0,  *)
(* which both ends refuse.                                                 *)
(***************************************************************************)
EXTENDS Accounts

CONSTANTS
    OrderForms,     \* contents of the order form that are tried
    Amounts,        \* contents of the deposit form that are tried
    MaxRequests     \* a bound: requests under way at once

ASSUME FormsAssumption ==
    /\ OrderForms \subseteq [type : {"LIMIT", "MARKET"}, symbol : STRING, price : Nat, quantity : Nat]
    /\ Amounts \subseteq Nat

VARIABLES
    stored,         \* localStorage: the token, by the user it names
    shown,          \* the user each tab's page shows
    request         \* the request each tab's page has made

pages       == <<stored, shown, request>>
sessionVars == <<accountVars, pages>>

NoToken   == [user |-> NoUser, live |-> FALSE]
Token     == [user : UserIds, live : BOOLEAN] \cup {NoToken}
NoRequest == [kind |-> "none", form |-> 0, user |-> NoUser, token |-> NoToken, status |-> "none"]
Status    == {"none", "stopped", "sent", "ok", "bad", "unauthorized", "forbidden", "notFound"}

SessionsInit ==
    /\ AccountsInit
    /\ stored = NoToken
    /\ shown = [t \in Clients |-> NoUser]
    /\ request = [t \in Clients |-> NoRequest]

-----------------------------------------------------------------------------

\* schemas.ts and order-limits.ts, two copies of the same limits.
ScreenLimits == [minPrice |-> 10, maxPrice |-> 1000000000, maxQuantity |-> 100000, maxDeposit |-> 1000000000]
ApiLimits    == [minPrice |-> 10, maxPrice |-> 1000000000, maxQuantity |-> 100000, maxDeposit |-> 1000000000]

Pairs == {"BTC/USD"}

\* orderFormSchema: the price counts for a LIMIT order only.
OrderFormAccepts(form) ==
    /\ form.symbol # ""
    /\ form.quantity \in 1..ScreenLimits.maxQuantity
    /\ form.type = "LIMIT" => form.price > 0 /\ form.price >= ScreenLimits.minPrice
                                             /\ form.price <= ScreenLimits.maxPrice

DepositFormAccepts(amount) == amount > 0 /\ amount <= ScreenLimits.maxDeposit

\* onSubmit, placeLimitOrder and placeMarketOrder: a market order has price 0.
OrderBody(form) == IF form.type = "MARKET" THEN [form EXCEPT !.price = 0] ELSE form

\* Slip: the largest price the form takes is one the API refuses.
PriceIsValidBelow(price) == price >= ApiLimits.minPrice /\ price < ApiLimits.maxPrice

PriceIsValid(price) == price > 0 /\ price <= ApiLimits.maxPrice /\ price >= ApiLimits.minPrice

\* validateCreateOrder, whatever the type of the order.
OrderIsValid(body, user) ==
    /\ user # NoUser
    /\ body.symbol # ""
    /\ PriceIsValid(body.price)
    /\ body.quantity > 0 /\ body.quantity <= ApiLimits.maxQuantity
    /\ body.type \in {"LIMIT", "MARKET"}

\* validateBusinessRules: the same again, and a symbol with a slash.
BusinessRulesHold(body) ==
    /\ PriceIsValid(body.price)
    /\ body.quantity > 0 /\ body.quantity <= ApiLimits.maxQuantity
    /\ body.symbol \in Pairs

DepositIsValid(amount) == amount > 0 /\ amount <= ApiLimits.maxDeposit

-----------------------------------------------------------------------------

PageIsIdle(t) == At(t, "idle") /\ request[t] = NoRequest

\* The register and login pages: the form is disabled while its call runs.
SignUp(t, e) == PageIsIdle(t) /\ Register(t, e) /\ UNCHANGED pages
SignIn(t, e) == PageIsIdle(t) /\ Login(t, e) /\ UNCHANGED pages

\* The browser comes back from a provider.
ComeBack(t, k) == PageIsIdle(t) /\ Callback(t, k) /\ UNCHANGED pages

\* The answer of register and login is stored and shown.  That of a provider
\* login is a redirect to /auth/callback, which is no page: the tab mounts
\* there with whatever localStorage had, and the token is lost.
SignedIn(t) ==
    /\ Answer(t)
    /\ \/ /\ call[t].kind # "oauth"
          /\ stored' = [user |-> call[t].user, live |-> TRUE]
          /\ shown' = [shown EXCEPT ![t] = call[t].user]
       \/ /\ call[t].kind = "oauth"
          /\ shown' = [shown EXCEPT ![t] = stored.user]
          /\ UNCHANGED stored
    /\ UNCHANGED request

\* The page is opened again: AuthProvider believes the token it finds.
Mount(t) ==
    /\ PageIsIdle(t)
    /\ shown' = [shown EXCEPT ![t] = stored.user]
    /\ UNCHANGED <<accountVars, stored, request>>

Logout(t) ==
    /\ PageIsIdle(t) /\ shown[t] # NoUser
    /\ stored' = NoToken
    /\ shown' = [shown EXCEPT ![t] = NoUser]
    /\ UNCHANGED <<accountVars, request>>

\* Seven days pass.
TokenExpires ==
    /\ stored.live
    /\ stored' = [stored EXCEPT !.live = FALSE]
    /\ UNCHANGED <<accountVars, shown, request>>

-----------------------------------------------------------------------------

\* Slip: a page works without anyone signed in.
AsksAnyone(t, kind, form, status) ==
    /\ PageIsIdle(t)
    /\ Cardinality({u \in Clients : request[u] # NoRequest}) < MaxRequests
    /\ request' = [request EXCEPT ![t] =
            [kind |-> kind, form |-> form, user |-> shown[t], token |-> stored, status |-> status]]
    /\ UNCHANGED <<accountVars, stored, shown>>

\* A page that shows nobody sends the reader to /login instead.
Asks(t, kind, form, status) ==
    /\ PageIsIdle(t) /\ shown[t] # NoUser
    /\ Cardinality({u \in Clients : request[u] # NoRequest}) < MaxRequests
    /\ request' = [request EXCEPT ![t] =
            [kind |-> kind, form |-> form, user |-> shown[t], token |-> stored, status |-> status]]
    /\ UNCHANGED <<accountVars, stored, shown>>

SubmitOrder(t, form)     == Asks(t, "order", form, IF OrderFormAccepts(form) THEN "sent" ELSE "stopped")
SubmitDeposit(t, amount) == Asks(t, "deposit", amount, IF DepositFormAccepts(amount) THEN "sent" ELSE "stopped")

\* The Cancel button of an open order sends the order's id and nothing else.
ClickCancel(t)           == Asks(t, "cancel", [userId |-> NoUser], "sent")
LoadBalance(t)           == Asks(t, "balance", 0, "sent")

\* AuthMiddleware: a token that verifies, of a user that is still there.
Authenticated(token) == token.live /\ \E u \in users : u.id = token.user

\* Slip: a deposit goes to whichever wallet the body names.
MayDepositToAny(r) == TRUE

MayDeposit(r) == r.user = r.token.user

OfWallet(r) == IF r.user \in wallets THEN "ok" ELSE "notFound"

\* What the middleware and the controller answer, in the order of their checks.
Verdict(r) ==
    IF ~Authenticated(r.token) THEN "unauthorized"
    ELSE CASE r.kind = "order" ->
                IF OrderIsValid(OrderBody(r.form), r.user) /\ BusinessRulesHold(OrderBody(r.form))
                THEN "ok" ELSE "bad"
           [] r.kind = "cancel" -> IF r.form.userId = NoUser THEN "bad" ELSE "ok"
           [] r.kind = "deposit" ->
                IF ~MayDeposit(r) THEN "forbidden"
                ELSE IF ~DepositIsValid(r.form) THEN "bad" ELSE OfWallet(r)
           [] r.kind = "balance" -> OfWallet(r)

\* The route, the middleware and the controller.  Users and wallets go only with
\* the server, and the request with them, so their awaits are one step; a valid
\* order is the engine's from here.
Serve(t) ==
    LET r == request[t]
    IN  /\ r.status = "sent"
        /\ request' = [request EXCEPT ![t].status = Verdict(r)]
        /\ UNCHANGED <<accountVars, stored, shown>>

\* The page shows what came of it.
ShowOutcome(t) ==
    /\ request[t].status \notin {"none", "sent"}
    /\ request' = [request EXCEPT ![t] = NoRequest]
    /\ UNCHANGED <<accountVars, stored, shown>>

\* Every fetch under way rejects.
ServerRestarts ==
    /\ Restart
    /\ request' = [t \in Clients |-> IF request[t].status = "sent" THEN NoRequest ELSE request[t]]
    /\ UNCHANGED <<stored, shown>>

SessionsNext ==
    \/ BackgroundNext /\ UNCHANGED pages
    \/ \E t \in Clients, e \in Emails : SignUp(t, e) \/ SignIn(t, e)
    \/ \E t \in Clients, k \in StateKeys : ComeBack(t, k)
    \/ \E t \in Clients : SignedIn(t) \/ Mount(t) \/ Logout(t)
    \/ \E t \in Clients, form \in OrderForms : SubmitOrder(t, form)
    \/ \E t \in Clients, amount \in Amounts : SubmitDeposit(t, amount)
    \/ \E t \in Clients : ClickCancel(t) \/ LoadBalance(t) \/ Serve(t) \/ ShowOutcome(t)
    \/ TokenExpires
    \/ ServerRestarts

SessionsSpec == SessionsInit /\ [][SessionsNext]_sessionVars

-----------------------------------------------------------------------------

SessionsTypeOK ==
    /\ AccountsTypeOK
    /\ stored \in Token
    /\ shown \in [Clients -> UserIds \cup {NoUser}]
    /\ \A t \in Clients : /\ request[t].token \in Token
                          /\ request[t].status \in Status
                          /\ request[t].kind # "none" => request[t].user # NoUser

\* "so that API and UI agree on what is acceptable": what a form stops the API
\* would refuse, and what it lets through is not refused as malformed, for
\* deposits and for LIMIT orders of a pair.  (A MARKET order and a symbol without
\* a slash pass the form and are refused.)
FormMatchesApi ==
    \A t \in Clients :
        LET r == request[t] IN
        /\ r.kind = "deposit" => /\ r.status = "stopped" => ~DepositIsValid(r.form)
                                 /\ r.status # "bad"
        /\ r.kind = "order" /\ r.form.type = "LIMIT" /\ r.form.symbol \in Pairs =>
             /\ r.status = "stopped" => ~OrderIsValid(OrderBody(r.form), r.user)
             /\ r.status # "bad"

WalletIsMissing(user) ==
    user \in unfunded \/ \E c \in Clients : At(c, "wallet") /\ call[c].user = user

\* Whoever is signed in is served.  With Postgres "unauthorized" is the answer to a
\* token that is missing or has expired and to no other, whatever was cut off or
\* refused while it was made; and with either store "User not found" is the
\* answer only while the wallet is being created or after that has failed, or to
\* the balance of the user a page still shows when another tab has signed in as
\* someone else.  The server compares the two for deposits, so that a page left
\* open while the server forgot its user never deposits to a wallet that is gone.
SignedInIsServed ==
    [][\A t \in Clients :
         LET r      == request[t]
             answer == request'[t].status
         IN  r.status = "sent" =>
               /\ useDb /\ answer = "unauthorized" => ~r.token.live
               /\ answer = "notFound" =>
                    \/ WalletIsMissing(r.user)
                    \/ r.kind = "balance" /\ r.user # r.token.user]_sessionVars
=============================================================================
