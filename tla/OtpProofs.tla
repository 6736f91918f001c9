------------------------------ MODULE OtpProofs ------------------------------
(***************************************************************************)
(* Theorems about Otp for any number of users, codes and requests, any     *)
(* lifetime of a code, and any number of restarts.                         *)
(***************************************************************************)
EXTENDS Otp, FiniteSetTheorems, TLAPS

-----------------------------------------------------------------------------

RequestRecord == [user : Users, at : Nat, sent : {"pending", "sent", "failed", "lost"}]

\* Requests are numbered as they are made, and each user's entry was made by
\* the latest of its requests, which nobody has used.
RequestsInv ==
    /\ \E n \in Nat : Requests = 1..n
    /\ DOMAIN accepted = Requests
    /\ \A r \in Requests : accepted[r] \in Nat /\ request[r] \in RequestRecord

MadeByLatest(u) ==
    LET r == otpStore[u].by
    IN  /\ r \in Requests
        /\ request[r].user = u
        /\ Latest(r)
        /\ accepted[r] = 0
        /\ otpStore[u].expiresAt = request[r].at + TTL

StoreInv ==
    /\ DOMAIN otpStore = Users
    /\ now \in Nat
    /\ \A u \in Users : otpStore[u] # NoEntry => MadeByLatest(u)

OtpInv == RequestsInv /\ StoreInv /\ KeptUntilUsed

LEMMA OtpInvInit == Init => OtpInv
<1> SUFFICES ASSUME Init PROVE OtpInv
  OBVIOUS
<1>1. Requests = {} /\ DOMAIN accepted = {}
  BY DEF Init, Requests
<1>2. Requests = 1..0
  BY <1>1
<1>3. RequestsInv
  BY <1>1, <1>2 DEF RequestsInv
<1>4. StoreInv
  <2>1. DOMAIN otpStore = Users /\ now \in Nat /\ \A u \in Users : otpStore[u] = NoEntry
    BY DEF Init
  <2>2. QED
    BY <2>1 DEF StoreInv
<1>5. KeptUntilUsed
  BY <1>1 DEF KeptUntilUsed
<1>6. QED
  BY <1>3, <1>4, <1>5 DEF OtpInv

\* The number GenerateOTP gives is the next one.
LEMMA NextRequest ==
    ASSUME NEW n \in Nat, Requests = 1..n
    PROVE  Cardinality(Requests) + 1 = n + 1
<1>1. Cardinality(1..n) = IF 1 <= n THEN n - 1 + 1 ELSE 0
  BY FS_Interval
<1>2. QED
  BY <1>1

LEMMA GenerateKeeps ==
    ASSUME OtpInv, NEW u \in Users, NEW code \in Codes, GenerateOTP(u, code)
    PROVE  OtpInv' /\ (\A r \in Requests : accepted'[r] = accepted[r])
<1>1. PICK n \in Nat : Requests = 1..n
  BY DEF OtpInv, RequestsInv
<1> DEFINE r == n + 1
<1>2. r = Cardinality(Requests) + 1
  BY <1>1, NextRequest
<1>3. /\ failedSince' = failedSince \ {u}
      /\ otpStore' = [otpStore EXCEPT ![u] = [otp |-> code, expiresAt |-> now + TTL, by |-> r]]
      /\ request' = [q \in 1..r |-> IF q = r THEN [user |-> u, at |-> now, sent |-> "pending"] ELSE request[q]]
      /\ accepted' = [q \in 1..r |-> IF q = r THEN 0 ELSE accepted[q]]
      /\ now' = now
  BY <1>2 DEF GenerateOTP
<1> HIDE DEF r
<1>4. r \in Nat /\ Requests' = 1..r /\ 1..r = Requests \cup {r} /\ r \notin Requests /\ (\A q \in Requests : q < r)
  BY <1>1, <1>3 DEF r, Requests
<1>5. request'[r] = [user |-> u, at |-> now, sent |-> "pending"] /\ accepted'[r] = 0
  BY <1>3, <1>4
<1>6. \A q \in Requests : request'[q] = request[q] /\ accepted'[q] = accepted[q]
  BY <1>3, <1>4
<1>7. RequestsInv'
  BY <1>3, <1>4, <1>5, <1>6 DEF OtpInv, RequestsInv, StoreInv, RequestRecord
<1>8. otpStore'[u].by = r /\ otpStore'[u].expiresAt = now + TTL
      /\ (\A v \in Users : v # u => otpStore'[v] = otpStore[v]) /\ DOMAIN otpStore' = Users
  BY <1>3 DEF OtpInv, StoreInv
<1>9. \A q \in Requests : request[q].user # u => (Latest(q)' <=> Latest(q))
  BY <1>4, <1>5, <1>6 DEF Latest
<1>10. Latest(r)' /\ \A q \in Requests : request[q].user = u => ~Latest(q)'
  <2>1. Latest(r)'
    BY <1>1, <1>4, <1>5, <1>6 DEF Latest
  <2>2. \A q \in Requests : q \in Nat
    BY <1>1
  <2>3. QED
    BY <1>4, <1>5, <1>6, <2>1, <2>2 DEF Latest
<1>11. StoreInv'
  <2>1. MadeByLatest(u)'
    BY <1>4, <1>5, <1>8, <1>10 DEF MadeByLatest
  <2>2. ASSUME NEW v \in Users, v # u, otpStore'[v] # NoEntry PROVE MadeByLatest(v)'
    BY <1>4, <1>6, <1>8, <1>9, <2>2 DEF MadeByLatest, OtpInv, StoreInv
  <2>3. QED
    BY <1>3, <1>8, <2>1, <2>2 DEF StoreInv, OtpInv
<1>12. KeptUntilUsed'
  <2>1. \A q \in Requests : request[q].user # u /\ request[q].user \notin failedSince' => request[q].user \notin failedSince
    BY <1>3
  <2>2. ASSUME NEW q \in Requests', Latest(q)', Fresh(q)', accepted'[q] = 0, request'[q].sent # "lost",
               request'[q].user \notin failedSince', q # r
        PROVE  otpStore'[request'[q].user].by = q
    <3>1. q \in Requests /\ request[q].user # u /\ request[q].user \in Users
      BY <1>4, <1>10, <2>2 DEF OtpInv, RequestsInv, RequestRecord
    <3>2. Latest(q) /\ Fresh(q) /\ accepted[q] = 0 /\ request[q].sent # "lost" /\ request[q].user \notin failedSince
      BY <1>3, <1>6, <1>9, <2>1, <2>2, <3>1 DEF Fresh
    <3>3. QED
      BY <1>6, <1>8, <3>1, <3>2 DEF OtpInv, KeptUntilUsed
  <2>3. ASSUME NEW q \in Requests', q # r PROVE request'[q].user = request[q].user
    BY <1>4, <1>6, <2>3
  <2>4. QED
    BY <1>5, <1>8, <2>2, <2>3 DEF KeptUntilUsed
<1>13. QED
  BY <1>6, <1>7, <1>11, <1>12 DEF OtpInv

\* Steps that make no request: what is kept of each is enough.
LEMMA OthersKeep ==
    ASSUME OtpInv, now' \in Nat, now <= now', Requests' = Requests, DOMAIN otpStore' = Users, DOMAIN accepted' = Requests,
           \A r \in Requests : /\ accepted'[r] \in Nat /\ accepted[r] <= accepted'[r]
                               /\ request'[r] \in RequestRecord
                               /\ request'[r].user = request[r].user /\ request'[r].at = request[r].at
                               /\ request[r].sent \in {"failed", "lost"} =>
                                      request'[r].sent \in {request[r].sent, "lost"},
           \A u \in Users : otpStore'[u] # NoEntry =>
               otpStore'[u] = otpStore[u] /\ accepted'[otpStore[u].by] = accepted[otpStore[u].by],
           \A r \in Requests : \* an entry goes only with its request's chance
               otpStore'[request[r].user] # otpStore[request[r].user] /\ otpStore[request[r].user].by = r =>
                   ~Fresh(r)' \/ accepted'[r] # 0 \/ request'[r].sent = "lost" \/ request[r].user \in failedSince',
           failedSince \subseteq failedSince'
    PROVE  OtpInv'
<1>1. RequestsInv'
  BY DEF OtpInv, RequestsInv
<1>2. \A r \in Requests : Latest(r)' <=> Latest(r)
  BY DEF Latest
<1>3. StoreInv'
  <2>1. ASSUME NEW u \in Users, otpStore'[u] # NoEntry PROVE MadeByLatest(u)'
    <3>1. otpStore[u] # NoEntry /\ MadeByLatest(u) /\ otpStore'[u] = otpStore[u]
      BY <2>1 DEF OtpInv, StoreInv
    <3>2. PICK r \in Requests : otpStore[u].by = r /\ request[r].user = u /\ Latest(r) /\ accepted[r] = 0
          /\ otpStore[u].expiresAt = request[r].at + TTL
      BY <3>1 DEF MadeByLatest
    <3>3. otpStore'[u].by = r /\ otpStore'[u].expiresAt = otpStore[u].expiresAt
      BY <3>1, <3>2
    <3>4. accepted'[r] = 0 /\ request'[r].user = u /\ request'[r].at = request[r].at /\ Latest(r)'
      BY <1>2, <2>1, <3>2
    <3>5. QED
      BY <3>2, <3>3, <3>4 DEF MadeByLatest
  <2>2. QED
    BY <2>1 DEF StoreInv
<1>4. KeptUntilUsed'
  <2>1. ASSUME NEW r \in Requests, Latest(r)', Fresh(r)', accepted'[r] = 0, request'[r].sent # "lost",
               request[r].user \notin failedSince'
        PROVE  otpStore'[request[r].user].by = r
    <3>1. Latest(r) /\ accepted[r] = 0 /\ request[r].user \in Users
      <4>1. request[r].user \in Users /\ accepted[r] \in Nat /\ accepted[r] <= 0
        BY <2>1 DEF OtpInv, RequestsInv, RequestRecord
      <4>2. QED
        BY <1>2, <2>1, <4>1
    <3>2. Fresh(r)
      <4>1. now \in Nat /\ request[r].at \in Nat /\ request'[r].at = request[r].at /\ TTL \in Nat
        BY OtpAssumption DEF OtpInv, RequestsInv, StoreInv, RequestRecord
      <4>2. QED
        BY <2>1, <4>1 DEF Fresh
    <3>3. request[r].user \notin failedSince
      BY <2>1
    <3>4. request[r].sent # "lost"
      BY <2>1
    <3>5. otpStore[request[r].user].by = r
      BY <3>1, <3>2, <3>3, <3>4 DEF OtpInv, KeptUntilUsed
    <3>6. QED
      BY <2>1, <3>5
  <2>2. QED
    BY <2>1 DEF KeptUntilUsed
<1>5. QED
  BY <1>1, <1>3, <1>4 DEF OtpInv

-----------------------------------------------------------------------------
(* Each step that makes no request                                         *)

\* What the record of a request keeps when its email is reported.
LEMMA RequestsReported ==
    ASSUME OtpInv, NEW r \in Requests, NEW result \in {"sent", "failed"}, request[r].sent = "pending",
           request' = [request EXCEPT ![r].sent = result]
    PROVE  /\ Requests' = Requests
           /\ request'[r].sent = result
           /\ \A q \in Requests : /\ request'[q] \in RequestRecord
                                  /\ request'[q].user = request[q].user /\ request'[q].at = request[q].at
                                  /\ q # r => request'[q].sent = request[q].sent
<1>1. \A q \in Requests : request[q] \in RequestRecord
  BY DEF OtpInv, RequestsInv
<1>2. QED
  BY <1>1 DEF RequestRecord, Requests

LEMMA EmailSentKeeps ==
    ASSUME OtpInv, NEW r \in Requests, EmailSent(r)
    PROVE  OtpInv' /\ accepted' = accepted
<1>1. /\ Requests' = Requests
      /\ request'[r].sent = "sent" /\ request[r].sent = "pending"
      /\ \A q \in Requests : /\ request'[q] \in RequestRecord
                             /\ request'[q].user = request[q].user /\ request'[q].at = request[q].at
                             /\ q # r => request'[q].sent = request[q].sent
  BY RequestsReported DEF EmailSent
<1>2. now' = now /\ otpStore' = otpStore /\ accepted' = accepted /\ failedSince' = failedSince
  BY DEF EmailSent
<1>3. now \in Nat /\ DOMAIN otpStore = Users /\ DOMAIN accepted = Requests /\ \A q \in Requests : accepted[q] \in Nat
  BY DEF OtpInv, RequestsInv, StoreInv
<1>4. QED
  BY <1>1, <1>2, <1>3, OthersKeep

LEMMA EmailFailedKeeps ==
    ASSUME OtpInv, NEW r \in Requests, EmailFailed(r)
    PROVE  OtpInv' /\ accepted' = accepted
<1>1. /\ Requests' = Requests
      /\ request'[r].sent = "failed" /\ request[r].sent = "pending"
      /\ \A q \in Requests : /\ request'[q] \in RequestRecord
                             /\ request'[q].user = request[q].user /\ request'[q].at = request[q].at
                             /\ q # r => request'[q].sent = request[q].sent
  BY RequestsReported DEF EmailFailed
<1>2. /\ now' = now /\ accepted' = accepted /\ otpStore' = [otpStore EXCEPT ![request[r].user] = NoEntry]
      /\ failedSince' = failedSince \cup {request[r].user}
  BY DEF EmailFailed, Deleted
<1>3. now \in Nat /\ DOMAIN otpStore = Users /\ DOMAIN accepted = Requests /\ \A q \in Requests : accepted[q] \in Nat
  BY DEF OtpInv, RequestsInv, StoreInv
<1>4. DOMAIN otpStore' = Users /\ \A u \in Users : u # request[r].user => otpStore'[u] = otpStore[u]
  BY <1>2, <1>3
<1>5. otpStore'[request[r].user] = NoEntry
  BY <1>1, <1>2, <1>3 DEF OtpInv, RequestsInv, RequestRecord
<1>6. \A q \in Requests : request[q].user \in Users
  BY DEF OtpInv, RequestsInv, RequestRecord
<1>7. \A q \in Requests : otpStore'[request[q].user] # otpStore[request[q].user] => request[q].user \in failedSince'
  BY <1>2, <1>4, <1>6
<1>8. \A u \in Users : otpStore'[u] # NoEntry => otpStore'[u] = otpStore[u]
  BY <1>4, <1>5
<1>9. QED
  BY <1>1, <1>2, <1>3, <1>4, <1>7, <1>8, OthersKeep

\* An entry that has expired is that of a request that is not fresh any more.
LEMMA ExpiredIsNotFresh ==
    ASSUME OtpInv, NEW u \in Users, otpStore[u] # NoEntry, now > otpStore[u].expiresAt
    PROVE  ~Fresh(otpStore[u].by)
<1>1. PICK r \in Requests : otpStore[u].by = r /\ otpStore[u].expiresAt = request[r].at + TTL
  BY DEF OtpInv, StoreInv, MadeByLatest
<1>2. now \in Nat /\ request[r].at \in Nat /\ TTL \in Nat
  BY OtpAssumption DEF OtpInv, RequestsInv, StoreInv, RequestRecord
<1>3. ~Fresh(r)
  BY <1>1, <1>2 DEF Fresh
<1>4. QED
  BY <1>1, <1>3

\* Steps that only empty entries and count what was accepted.
LEMMA EmptyingKeeps ==
    ASSUME OtpInv, UNCHANGED <<now, request, failedSince>>, DOMAIN otpStore' = Users, DOMAIN accepted' = Requests,
           \A r \in Requests : accepted'[r] \in Nat /\ accepted[r] <= accepted'[r],
           \A u \in Users : otpStore'[u] # NoEntry =>
               otpStore'[u] = otpStore[u] /\ accepted'[otpStore[u].by] = accepted[otpStore[u].by],
           \A u \in Users : otpStore'[u] # otpStore[u] =>
               ~Fresh(otpStore[u].by) \/ accepted'[otpStore[u].by] # 0
    PROVE  OtpInv'
<1>1. now' \in Nat /\ now <= now' /\ Requests' = Requests
  BY DEF OtpInv, StoreInv, Requests
<1>2. \A r \in Requests : request'[r] \in RequestRecord /\ request'[r] = request[r] /\ request[r].user \in Users
  BY DEF OtpInv, RequestsInv, RequestRecord
<1>3. failedSince \subseteq failedSince'
  OBVIOUS
<1>4. \A r \in Requests : Fresh(r)' <=> Fresh(r)
  BY DEF Fresh
<1>5. ASSUME NEW r \in Requests, otpStore'[request[r].user] # otpStore[request[r].user],
             otpStore[request[r].user].by = r
      PROVE  ~Fresh(r)' \/ accepted'[r] # 0
  BY <1>2, <1>4, <1>5
<1>6. QED
  BY <1>1, <1>2, <1>3, <1>5, OthersKeep

LEMMA VerifyKeeps ==
    ASSUME OtpInv, NEW u \in Users, NEW code \in Codes, VerifyOTP(u, code)
    PROVE  /\ OtpInv'
           /\ \A r \in Requests : accepted'[r] > accepted[r] => accepted[r] = 0 /\ Latest(r) /\ Fresh(r)
<1>1. PICK r \in Requests : /\ otpStore[u].by = r /\ request[r].user = u /\ Latest(r) /\ accepted[r] = 0
                            /\ otpStore[u].expiresAt = request[r].at + TTL
  BY DEF VerifyOTP, OtpInv, StoreInv, MadeByLatest
<1>2. DOMAIN otpStore = Users /\ DOMAIN accepted = Requests /\ (\A q \in Requests : accepted[q] \in Nat)
      /\ now \in Nat /\ request[r].at \in Nat /\ TTL \in Nat
  BY OtpAssumption DEF OtpInv, RequestsInv, StoreInv, RequestRecord
<1>3. otpStore' = [otpStore EXCEPT ![u] = NoEntry] /\ otpStore[u] # NoEntry /\ UNCHANGED <<now, request, failedSince>>
  BY DEF VerifyOTP, Deleted, Consumed
<1>4. DOMAIN otpStore' = Users /\ otpStore'[u] = NoEntry /\ \A v \in Users : v # u => otpStore'[v] = otpStore[v]
  BY <1>2, <1>3
<1>5. CASE Expired(otpStore[u]) /\ UNCHANGED accepted
  <2>1. ~Fresh(otpStore[u].by)
    BY <1>3, <1>5, ExpiredIsNotFresh DEF Expired
  <2>2. \A q \in Requests : accepted'[q] = accepted[q] /\ ~(accepted[q] > accepted[q]) /\ accepted[q] <= accepted[q]
    BY <1>2, <1>5
  <2>3. \A v \in Users : otpStore'[v] # NoEntry =>
          otpStore'[v] = otpStore[v] /\ accepted'[otpStore[v].by] = accepted[otpStore[v].by]
    BY <1>4, <1>5
  <2>4. \A v \in Users : otpStore'[v] # otpStore[v] => ~Fresh(otpStore[v].by)
    BY <1>4, <2>1
  <2>5. OtpInv'
    BY <1>2, <1>3, <1>4, <1>5, <2>2, <2>3, <2>4, EmptyingKeeps
  <2>6. QED
    BY <2>2, <2>5
<1>6. CASE ~Expired(otpStore[u]) /\ accepted' = [accepted EXCEPT ![r] = @ + 1]
  <2>1. DOMAIN accepted' = Requests /\ accepted'[r] = 1 /\ \A q \in Requests : q # r => accepted'[q] = accepted[q]
    BY <1>1, <1>2, <1>6
  <2>2. \A q \in Requests : accepted'[q] \in Nat /\ accepted[q] <= accepted'[q]
    BY <1>1, <1>2, <2>1
  <2>3. \A v \in Users : v # u /\ otpStore[v] # NoEntry => otpStore[v].by \in Requests \ {r}
    BY <1>1 DEF OtpInv, StoreInv, MadeByLatest
  <2>4. \A v \in Users : otpStore'[v] # NoEntry =>
          otpStore'[v] = otpStore[v] /\ accepted'[otpStore[v].by] = accepted[otpStore[v].by]
    BY <1>4, <2>1, <2>3
  <2>5. \A v \in Users : otpStore'[v] # otpStore[v] => accepted'[otpStore[v].by] # 0
    BY <1>1, <1>4, <2>1
  <2>6. OtpInv'
    BY <1>3, <1>4, <2>1, <2>2, <2>4, <2>5, EmptyingKeeps
  <2>7. Fresh(r)
    BY <1>1, <1>2, <1>6 DEF Expired, Fresh
  <2>8. \A q \in Requests : accepted'[q] > accepted[q] => q = r
    BY <1>2, <2>1
  <2>9. QED
    BY <1>1, <2>6, <2>7, <2>8
<1>7. QED
  BY <1>1, <1>5, <1>6 DEF VerifyOTP

LEMMA CleanupKeeps ==
    ASSUME OtpInv, CleanupExpired
    PROVE  OtpInv' /\ accepted' = accepted
<1>1. UNCHANGED <<now, request, accepted, failedSince>> /\ DOMAIN otpStore' = Users
  BY DEF CleanupExpired
<1>2. DOMAIN accepted = Requests /\ (\A q \in Requests : accepted[q] \in Nat /\ accepted[q] <= accepted[q]) /\ now \in Nat /\ TTL \in Nat
  BY OtpAssumption DEF OtpInv, RequestsInv, StoreInv
<1>3. \A u \in Users : otpStore'[u] # NoEntry => otpStore'[u] = otpStore[u]
  BY DEF CleanupExpired
<1>4. ASSUME NEW u \in Users, otpStore'[u] # otpStore[u] PROVE ~Fresh(otpStore[u].by)
  <2>1. otpStore[u] # NoEntry /\ otpStore[u].expiresAt < now
    BY <1>4 DEF CleanupExpired, CleanedUp
  <2>2. PICK r \in Requests : otpStore[u].expiresAt = request[r].at + TTL
    BY <2>1 DEF OtpInv, StoreInv, MadeByLatest
  <2>3. otpStore[u].expiresAt \in Nat
    BY <1>2, <2>2 DEF OtpInv, RequestsInv, RequestRecord
  <2>4. now > otpStore[u].expiresAt
    BY <1>2, <2>1, <2>3
  <2>5. QED
    BY <2>1, <2>4, ExpiredIsNotFresh
<1>5. QED
  BY <1>1, <1>2, <1>3, <1>4, EmptyingKeeps

LEMMA RestartKeeps ==
    ASSUME OtpInv, Restart
    PROVE  OtpInv' /\ accepted' = accepted
<1>1. now' = now /\ accepted' = accepted /\ failedSince' = failedSince /\ otpStore' = [u \in Users |-> NoEntry]
      /\ request' = [r \in Requests |-> [request[r] EXCEPT !.sent = "lost"]]
  BY DEF Restart
<1>2. now \in Nat /\ DOMAIN accepted = Requests /\ \A q \in Requests : accepted[q] \in Nat /\ request[q] \in RequestRecord
  BY DEF OtpInv, RequestsInv, StoreInv
<1>3. Requests' = Requests
  BY <1>1 DEF Requests
<1>4. \A q \in Requests : request'[q] \in RequestRecord /\ request'[q].sent = "lost"
                         /\ request'[q].user = request[q].user /\ request'[q].at = request[q].at
  BY <1>1, <1>2 DEF RequestRecord
<1>5. DOMAIN otpStore' = Users /\ \A u \in Users : otpStore'[u] = NoEntry
  BY <1>1
<1>6. QED
  BY <1>1, <1>2, <1>3, <1>4, <1>5, OthersKeep

\* The clock moves, or nothing does.
LEMMA IdleKeeps ==
    ASSUME OtpInv, UNCHANGED <<otpStore, request, accepted, failedSince>>, now' = now \/ now' = now + 1
    PROVE  OtpInv'
<1>1. now \in Nat /\ DOMAIN otpStore = Users /\ DOMAIN accepted = Requests
      /\ \A q \in Requests : accepted[q] \in Nat /\ accepted[q] <= accepted[q] /\ request[q] \in RequestRecord
  BY DEF OtpInv, RequestsInv, StoreInv
<1>2. now' \in Nat /\ now <= now'
  BY <1>1
<1>3. Requests' = Requests /\ failedSince \subseteq failedSince'
  BY DEF Requests
<1>4. QED
  BY <1>1, <1>2, <1>3, OthersKeep

-----------------------------------------------------------------------------

Acceptable(r) == accepted[r] = 0 /\ Latest(r) /\ Fresh(r)

\* The invariant is inductive, and every step accepts only what may be.
LEMMA OtpStep ==
    ASSUME OtpInv, [Next]_vars
    PROVE  OtpInv' /\ \A r \in Requests : accepted'[r] > accepted[r] => Acceptable(r)
<1>1. \A r \in Requests : accepted[r] \in Nat /\ ~(accepted[r] > accepted[r])
  BY DEF OtpInv, RequestsInv
<1>2. ASSUME NEW u \in Users, NEW code \in Codes, GenerateOTP(u, code)
      PROVE  OtpInv' /\ \A r \in Requests : accepted'[r] > accepted[r] => Acceptable(r)
  BY <1>1, <1>2, GenerateKeeps
<1>3. ASSUME NEW u \in Users, NEW code \in Codes, VerifyOTP(u, code)
      PROVE  OtpInv' /\ \A r \in Requests : accepted'[r] > accepted[r] => Acceptable(r)
  BY <1>3, VerifyKeeps DEF Acceptable
<1>4. ASSUME NEW r \in Requests, EmailSent(r) \/ EmailFailed(r)
      PROVE  OtpInv' /\ accepted' = accepted
  BY <1>4, EmailSentKeeps, EmailFailedKeeps
<1>5. CASE CleanupExpired
  BY <1>1, <1>5, CleanupKeeps
<1>6. CASE Restart
  BY <1>1, <1>6, RestartKeeps
<1>7. CASE Tick \/ UNCHANGED vars
  <2>1. UNCHANGED <<otpStore, request, accepted, failedSince>> /\ (now' = now \/ now' = now + 1)
    BY <1>7 DEF Tick, vars
  <2>2. QED
    BY <1>1, <2>1, IdleKeeps
<1>8. QED
  BY <1>1, <1>2, <1>3, <1>4, <1>5, <1>6, <1>7 DEF Next

LEMMA OtpInvHolds == Spec => []OtpInv
<1>1. OtpInv /\ [Next]_vars => OtpInv'
  BY OtpStep
<1>2. QED
  BY <1>1, OtpInvInit, PTL DEF Spec

\* A user's latest code stays acceptable until it is used or expires, the server
\* restarts, or an email to its user is found to have failed after that code was
\* made; what failed before does not matter (createOTP, deleteOTP and cleanup
\* against one another, for any number of users and requests).
THEOREM CodesAreKept == Spec => []KeptUntilUsed
<1>1. OtpInv => KeptUntilUsed
  BY DEF OtpInv
<1>2. QED
  BY <1>1, OtpInvHolds, PTL

\* However requests, failing emails, cleanups, restarts and attempts
\* interleave, verifyOTP accepts a code at most once, in time, and only the
\* latest of its user.
THEOREM AcceptedOnceInTime == Spec => AcceptsOnceAndInTime
<1>1. OtpInv /\ [Next]_vars =>
        [\A r \in Requests : accepted'[r] > accepted[r] => accepted[r] = 0 /\ Latest(r) /\ Fresh(r)]_vars
  BY OtpStep DEF Acceptable
<1>2. QED
  BY <1>1, OtpInvHolds, PTL DEF Spec, AcceptsOnceAndInTime
=============================================================================
