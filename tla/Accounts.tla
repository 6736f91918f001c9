------------------------------ MODULE Accounts ------------------------------
(***************************************************************************)
(* AuthService over either user store: registering, logging in and logging *)
(* in through a provider, each a call of several awaits, any two of which  *)
(* may overlap and none of which survives a restart of the server.  The    *)
(* Maps of Inmemory_User and the users table are one set of users and one  *)
(* index by email; what differs is that the table refuses a second row of  *)
(* an email and outlives the process.                                      *)
(***************************************************************************)
EXTENDS Naturals, FiniteSets

CONSTANTS
    Clients,        \* whoever calls: one call at a time each
    Emails,
    UserIds,        \* a bound: users created in all, numbered as they are made
    StateKeys,      \* a bound: OAuth flows started in all
    MaxRestarts,    \* a bound
    MaxFailures     \* a bound: INSERTs of a wallet that fail

ASSUME ClientsAssumption == IsFiniteSet(Clients)
ASSUME EmailsAssumption  == Emails # {}
ASSUME UserIdsAssumption == IsFiniteSet(UserIds) /\ UserIds = 1..Cardinality(UserIds)

VARIABLES
    useDb,          \* USE_DB, read when the server starts
    users,          \* userById, or the rows of users
    byEmail,        \* userByEmail, or the UNIQUE index on email
    wallets,        \* the users that have balances
    call,           \* the call of each client
    oauthStates,    \* what became of each state key
    created, restarts, failures,
    accounts,       \* ghost: the users that tokens were answered for, by email
    logins,         \* ghost: the provider logins each state key let through
    unfunded        \* ghost: users whose createWallet failed since the server started

accountVars == <<useDb, users, byEmail, wallets, call, oauthStates, created, restarts, failures,
                 accounts, logins, unfunded>>

NoUser == 0
Idle   == [step |-> "idle", kind |-> "none", email |-> CHOOSE e \in Emails : TRUE, user |-> NoUser]
Call   == [step : {"exchange", "create", "wallet", "answer"}, kind : {"register", "login", "oauth"},
           email : Emails, user : UserIds \cup {NoUser}] \cup {Idle}

AccountsInit ==
    /\ useDb \in BOOLEAN
    /\ users = {} /\ byEmail = [e \in Emails |-> NoUser] /\ wallets = {}
    /\ call = [c \in Clients |-> Idle]
    /\ oauthStates = [k \in StateKeys |-> "unknown"]
    /\ created = 0 /\ restarts = 0 /\ failures = 0
    /\ accounts = [e \in Emails |-> {}] /\ logins = [k \in StateKeys |-> 0] /\ unfunded = {}

-----------------------------------------------------------------------------

stores == <<users, byEmail, wallets, created>>
bounds == <<restarts, failures>>

At(c, step) == call[c].step = step

Goes(c, step, kind, email, user) ==
    call' = [call EXCEPT ![c] = [step |-> step, kind |-> kind, email |-> email, user |-> user]]

Ends(c) == call' = [call EXCEPT ![c] = Idle]

Room == created + Cardinality({c \in Clients : At(c, "create")}) < Cardinality(UserIds)

\* register up to the hash: an email that is taken ends it.
Register(c, e) ==
    /\ At(c, "idle")
    /\ \/ byEmail[e] = NoUser /\ Room /\ Goes(c, "create", "register", e, NoUser)
       \/ byEmail[e] # NoUser /\ UNCHANGED call
    /\ UNCHANGED <<useDb, stores, oauthStates, bounds, accounts, logins, unfunded>>

\* login: no such user, a user of a provider and a wrong password are all refused.
Login(c, e) ==
    /\ At(c, "idle")
    /\ \E u \in users : u.id = byEmail[e] /\ u.password
    /\ Goes(c, "answer", "login", e, byEmail[e])
    /\ UNCHANGED <<useDb, stores, oauthStates, bounds, accounts, logins, unfunded>>

\* Slip: the table has no UNIQUE constraint on email.
RefusedByIndexNever(e) == FALSE

RefusedByIndex(e) == useDb /\ byEmail[e] # NoUser

\* createUser, after the hash or after the look-up of the provider's email.
CreateUser(c) ==
    LET e  == call[c].email
        id == created + 1
    IN  /\ At(c, "create")
        /\ \/ /\ RefusedByIndex(e)
              /\ Ends(c)
              /\ UNCHANGED stores
           \/ /\ ~RefusedByIndex(e)
              /\ created' = id
              /\ users' = users \cup {[id |-> id, email |-> e, password |-> call[c].kind = "register"]}
              /\ byEmail' = [byEmail EXCEPT ![e] = id]
              /\ Goes(c, "wallet", call[c].kind, e, id)
              /\ UNCHANGED wallets
        /\ UNCHANGED <<useDb, oauthStates, bounds, accounts, logins, unfunded>>

CreateWallet(c) ==
    /\ At(c, "wallet")
    /\ wallets' = wallets \cup {call[c].user}
    /\ call' = [call EXCEPT ![c].step = "answer"]
    /\ UNCHANGED <<useDb, users, byEmail, created, oauthStates, bounds, accounts, logins, unfunded>>

\* The INSERT fails: the call answers an error, and the user is there all the same.
CreateWalletFails(c) ==
    /\ At(c, "wallet") /\ useDb /\ failures < MaxFailures
    /\ failures' = failures + 1
    /\ unfunded' = unfunded \cup {call[c].user}
    /\ Ends(c)
    /\ UNCHANGED <<useDb, stores, oauthStates, restarts, accounts, logins>>

\* The token is signed and the call answers.
Answer(c) ==
    /\ At(c, "answer")
    /\ accounts' = [accounts EXCEPT ![call[c].email] = @ \cup {call[c].user}]
    /\ Ends(c)
    /\ UNCHANGED <<useDb, stores, oauthStates, bounds, logins, unfunded>>

-----------------------------------------------------------------------------

\* initiate: a key is a random UUID, never used twice.
Initiate(k) ==
    /\ oauthStates[k] = "unknown"
    /\ oauthStates' = [oauthStates EXCEPT ![k] = "fresh"]
    /\ UNCHANGED <<useDb, stores, call, bounds, accounts, logins, unfunded>>

TenMinutesPass(k) ==
    /\ oauthStates[k] = "fresh"
    /\ oauthStates' = [oauthStates EXCEPT ![k] = "old"]
    /\ UNCHANGED <<useDb, stores, call, bounds, accounts, logins, unfunded>>

\* Slip: a state is deleted only once it proved too old.
KeptUnlessOld(k) == [oauthStates EXCEPT ![k] = IF @ = "old" THEN "gone" ELSE @]

Deleted(k) == [oauthStates EXCEPT ![k] = "gone"]

\* callback: the state is deleted before its age is looked at, so a flow that
\* failed cannot be resumed.  (getAuthorizationUrl and initiate both put a state
\* into the URL; a provider that echoes the first is refused before the Map is
\* read, for want of an underscore.)
Callback(c, k) ==
    /\ At(c, "idle")
    /\ oauthStates[k] \in {"fresh", "old"}
    /\ oauthStates' = Deleted(k)
    /\ \/ /\ oauthStates[k] = "fresh"
          /\ logins' = [logins EXCEPT ![k] = @ + 1]
          /\ call' = [call EXCEPT ![c] = [Idle EXCEPT !.step = "exchange", !.kind = "oauth"]]
       \/ /\ oauthStates[k] = "old"
          /\ UNCHANGED <<call, logins>>
    /\ UNCHANGED <<useDb, stores, bounds, accounts, unfunded>>

\* exchangeCode and fetchUserProfile: the provider refuses, or names the email.
ProviderRefuses(c) ==
    /\ At(c, "exchange")
    /\ Ends(c)
    /\ UNCHANGED <<useDb, stores, oauthStates, bounds, accounts, logins, unfunded>>

ProviderNames(c, e) ==
    /\ At(c, "exchange")
    /\ \/ byEmail[e] = NoUser /\ Room /\ Goes(c, "create", "oauth", e, NoUser)
       \/ byEmail[e] # NoUser /\ Goes(c, "answer", "oauth", e, byEmail[e])
    /\ UNCHANGED <<useDb, stores, oauthStates, bounds, accounts, logins, unfunded>>

-----------------------------------------------------------------------------

\* Slip: migrate creates the tables and no more.
BackfilledNever == {}

\* The last statement of migrate: zero balances for users that have none.
Backfilled == {u.id : u \in users}

\* The server goes down with its calls, its oauthStates and, in memory, its stores.
Restart ==
    /\ restarts < MaxRestarts
    /\ restarts' = restarts + 1
    /\ call' = [c \in Clients |-> Idle]
    /\ oauthStates' = [k \in StateKeys |-> IF oauthStates[k] = "unknown" THEN "unknown" ELSE "gone"]
    /\ unfunded' = {}
    /\ \/ /\ useDb
          /\ wallets' = wallets \cup Backfilled
          /\ UNCHANGED <<users, byEmail>>
       \/ /\ ~useDb
          /\ users' = {} /\ wallets' = {}
          /\ byEmail' = [e \in Emails |-> NoUser]
    /\ UNCHANGED <<useDb, created, failures, accounts, logins>>

\* What happens to the server without regard to a page: the pages take part in
\* Register, Login, Answer and Restart.
BackgroundNext ==
    \/ \E c \in Clients : CreateUser(c) \/ CreateWallet(c) \/ CreateWalletFails(c) \/ ProviderRefuses(c)
    \/ \E c \in Clients, e \in Emails : ProviderNames(c, e)
    \/ \E k \in StateKeys : Initiate(k) \/ TenMinutesPass(k)

-----------------------------------------------------------------------------

AccountsTypeOK ==
    /\ users \subseteq [id : UserIds, email : Emails, password : BOOLEAN]
    /\ byEmail \in [Emails -> UserIds \cup {NoUser}]
    /\ wallets \subseteq UserIds
    /\ call \in [Clients -> Call]
    /\ oauthStates \in [StateKeys -> {"unknown", "fresh", "old", "gone"}]
    /\ \A c \in Clients : At(c, "wallet") \/ At(c, "answer") => call[c].user # NoUser

\* With Postgres every token ever answered for an email, by registrations and
\* provider logins that overlapped in their hashes and look-ups and across
\* restarts, names one and the same user.  (In memory two overlapping calls make
\* two users, and the first is then reached by its token only.)
OneAccountPerEmail == useDb => \A e \in Emails : \A x, y \in accounts[e] : x = y

\* A user without a wallet is one whose creation is still under way or whose
\* createWallet failed since the server started; a crash between createUser and
\* createWallet leaves none behind, as migrate gives it zero balances.
WalletOrReason ==
    \A u \in users :
        \/ u.id \in wallets
        \/ u.id \in unfunded
        \/ \E c \in Clients : At(c, "wallet") /\ call[c].user = u.id

\* One OAuth flow logs in at most once, however often and however concurrently
\* its callback is called (the get and the delete of callback are one step).
OneLoginPerState == \A k \in StateKeys : logins[k] <= 1
=============================================================================
