-------------------------------- MODULE Otp --------------------------------
(***************************************************************************)
(* One-time passwords: OTPService keeps at most one code per user, with    *)
(* the time it expires, and EmailService.sendOtpEmail generates a code,    *)
(* awaits the email provider and deletes the user's code when that fails.  *)
(* Requests of one user overlap during that await.  Verification and the   *)
(* timed cleanup each run in one piece.                                    *)
(***************************************************************************)
EXTENDS Naturals, FiniteSets

CONSTANTS
    Users,
    Codes,          \* what createOTP may draw: a code may come up again
    TTL,
    MaxTime,        \* bound on the clock
    MaxRequests     \* bound: requests in all

ASSUME OtpAssumption == {TTL, MaxTime, MaxRequests} \subseteq Nat

VARIABLES
    now,            \* Date.now()
    otpStore,       \* the entry of each user, or NoEntry
    request,        \* the requests made, in order; request[r].sent follows its email
    accepted,       \* how often the code of each request was accepted
    failedSince     \* ghost: users an email to whom failed since their latest request

vars == <<now, otpStore, request, accepted, failedSince>>

\* An entry also names the request that made it, which only the properties read.
Entry   == [otp : Codes, expiresAt : Nat, by : 1..MaxRequests]
NoEntry == [by |-> 0]
Request == [user : Users, at : 0..MaxTime, sent : {"pending", "sent", "failed", "lost"}]

Requests == DOMAIN request

\* An entry belongs to its user, and its email neither failed nor was lost.
TypeOK ==
    /\ now \in 0..MaxTime
    /\ otpStore \in [Users -> Entry \cup {NoEntry}]
    /\ failedSince \subseteq Users
    /\ \A r \in Requests : r \in 1..MaxRequests /\ request[r] \in Request /\ accepted[r] \in Nat
    /\ \A u \in Users : otpStore[u] # NoEntry =>
         request[otpStore[u].by].user = u /\ request[otpStore[u].by].sent \notin {"failed", "lost"}

Init ==
    /\ now = 0
    /\ otpStore = [u \in Users |-> NoEntry]
    /\ request = <<>>
    /\ accepted = <<>>
    /\ failedSince = {}

-----------------------------------------------------------------------------

\* sendOtpEmail up to the await of the provider.
GenerateOTP(u, code) ==
    LET r == Cardinality(Requests) + 1
    IN  /\ r <= MaxRequests
        /\ otpStore' = [otpStore EXCEPT ![u] =
             [otp |-> code, expiresAt |-> now + TTL, by |-> r]]
        /\ request' = [q \in 1..r |-> IF q = r THEN [user |-> u, at |-> now, sent |-> "pending"]
                                                ELSE request[q]]
        /\ accepted' = [q \in 1..r |-> IF q = r THEN 0 ELSE accepted[q]]
        /\ failedSince' = failedSince \ {u}
        /\ UNCHANGED now

EmailSent(r) ==
    /\ request[r].sent = "pending"
    /\ request' = [request EXCEPT ![r].sent = "sent"]
    /\ UNCHANGED <<now, otpStore, accepted, failedSince>>

\* deleteOTP goes by the user, whichever request made the entry.
Deleted(u) == otpStore' = [otpStore EXCEPT ![u] = NoEntry]

EmailFailed(r) ==
    /\ request[r].sent = "pending"
    /\ request' = [request EXCEPT ![r].sent = "failed"]
    /\ Deleted(request[r].user)
    /\ failedSince' = failedSince \cup {request[r].user}
    /\ UNCHANGED <<now, accepted>>

Expired(entry) == now > entry.expiresAt

\* Slip: a code that was accepted stays.
ConsumedNever(u) == otpStore[u]

Consumed(u) == NoEntry

VerifyOTP(u, code) ==
    /\ otpStore[u] # NoEntry
    /\ \/ /\ Expired(otpStore[u])
          /\ Deleted(u)
          /\ UNCHANGED accepted
       \/ /\ ~Expired(otpStore[u])
          /\ otpStore[u].otp = code
          /\ otpStore' = [otpStore EXCEPT ![u] = Consumed(u)]
          /\ accepted' = [accepted EXCEPT ![otpStore[u].by] = @ + 1]
    /\ UNCHANGED <<now, request, failedSince>>

\* Slip: cleanup deletes the entries that are still good.
CleanedUpEarly(entry) == entry.expiresAt <= now

CleanedUp(entry) == entry.expiresAt < now

\* Every 60 seconds.
CleanupExpired ==
    /\ otpStore' = [u \in Users |->
         IF otpStore[u] # NoEntry /\ CleanedUp(otpStore[u]) THEN NoEntry ELSE otpStore[u]]
    /\ UNCHANGED <<now, request, accepted, failedSince>>

\* The server restarts: its codes are gone, whatever became of their emails.
Restart ==
    /\ otpStore' = [u \in Users |-> NoEntry]
    /\ request' = [r \in Requests |-> [request[r] EXCEPT !.sent = "lost"]]
    /\ UNCHANGED <<now, accepted, failedSince>>

Tick == now < MaxTime /\ now' = now + 1 /\ UNCHANGED <<otpStore, request, accepted, failedSince>>

Next ==
    \/ \E u \in Users, code \in Codes : GenerateOTP(u, code) \/ VerifyOTP(u, code)
    \/ \E r \in Requests : EmailSent(r) \/ EmailFailed(r)
    \/ CleanupExpired
    \/ Restart
    \/ Tick

Spec == Init /\ [][Next]_vars

-----------------------------------------------------------------------------

Latest(r) == \A q \in Requests : request[q].user = request[r].user => q <= r

Fresh(r) == now <= request[r].at + TTL

\* A code is accepted at most once, within five minutes of its request, and
\* only while its user has asked for no other (README, "verify consumes it"),
\* however requests, failing emails, cleanups and attempts interleave.
AcceptsOnceAndInTime ==
    [][\A r \in Requests : accepted'[r] > accepted[r] =>
          accepted[r] = 0 /\ Latest(r) /\ Fresh(r)]_vars

\* The code of a user's latest request is there to be accepted until it is used
\* or expires or the server restarts, unless the failure of an email to that user
\* is handled after that request: a request made after a failure is as good as
\* any, and only a failure yet to come, be it of an older request's email, takes
\* its code away (deleteOTP goes by the user, the cleanup by the clock).
KeptUntilUsed ==
    \A r \in Requests :
        Latest(r) /\ Fresh(r) /\ accepted[r] = 0 /\ request[r].sent # "lost"
          /\ request[r].user \notin failedSince
            => otpStore[request[r].user].by = r
=============================================================================
