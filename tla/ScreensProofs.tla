--------------------------- MODULE ScreensProofs ---------------------------
(***************************************************************************)
(* Theorems about Screens for every set of users, orders and quantities,   *)
(* every Limit and any number of requests and lost connections: what each  *)
(* page shows once nothing is under way.                                   *)
(***************************************************************************)
EXTENDS Screens, DataProofs, SequenceTheorems

-----------------------------------------------------------------------------
(* The inductive invariant: the market's orders.                           *)

Known == {o \in OrderIds : terms[o] # NoTerms}
Mine  == {o \in Known : terms[o].user = Me}

Terms == [user : Users, side : Sides, price : Prices, size : Quantities,
          createdAt : Times, placedAt : OrderIds \cup {0}]

\* An order's units are asked for, traded, or for sale, until it is cancelled.
LifeFits(o) ==
    /\ o \notin Known => taking[o] = 0 /\ rest[o] = 0 /\ bought[o] = 0 /\ told[o] = {}
    /\ o \in Known => terms[o] \in Terms
    /\ o \in Known /\ terms[o].placedAt = 0 =>
        /\ rest[o] = 0 /\ bought[o] + taking[o] = terms[o].size
        /\ told[o] # {} => taking[o] = 0
        /\ "CANCELLED" \notin told[o]
    /\ o \in Known /\ terms[o].placedAt # 0 =>
        /\ taking[o] = 0
        /\ IF "CANCELLED" \in told[o] THEN rest[o] = 0 ELSE rest[o] + bought[o] = terms[o].size

LivesFit ==
    /\ DOMAIN terms = OrderIds
    /\ taking \in [OrderIds -> Nat] /\ rest \in [OrderIds -> Nat] /\ bought \in [OrderIds -> Nat]
    /\ DOMAIN told = OrderIds
    /\ \A o \in OrderIds : LifeFits(o)

-----------------------------------------------------------------------------
(* The trades, and what is on its way to the page.                         *)

\* Time does not run backwards.
TapeFits ==
    /\ tape \in Seq(Nat)
    /\ \A i, j \in DOMAIN tape : i <= j => tape[i] <= tape[j]

Event == [type : {"ORDER_PLACED", "ORDER_FILLED", "ORDER_CANCELLED"}, order : OrderIds]
            \cup [type : {"TRADE_EXECUTED"}, order : OrderIds, trade : Nat]

\* What the events of w say of which order.
Said(w) == {<<w[i].type, w[i].order>> : i \in DOMAIN w}

\* An event tells what has happened.
EventFits(e) ==
    /\ e.type = "ORDER_PLACED" => e.order \in Known /\ terms[e.order].placedAt # 0
    /\ e.type = "ORDER_CANCELLED" =>
        e.order \in Known /\ terms[e.order].placedAt # 0 /\ "CANCELLED" \in told[e.order]
    /\ e.type = "ORDER_FILLED" =>
        e.order \in Known /\ terms[e.order].placedAt = 0 /\ taking[e.order] = 0
    /\ e.type = "TRADE_EXECUTED" => e.trade \in DOMAIN tape

\* An order is placed before it is cancelled, and what its user has not heard
\* yet of the one is followed by the other.
OrderOfEvents(w) ==
    \A i, j \in DOMAIN w :
        i < j /\ w[i].type = "ORDER_CANCELLED" /\ w[j].type = "ORDER_PLACED" => w[i].order # w[j].order

CancelFollows ==
    \A o \in Mine : <<"ORDER_PLACED", o>> \in Said(wire) /\ "CANCELLED" \in told[o] =>
        <<"ORDER_CANCELLED", o>> \in Said(wire)

\* The latest trade on its way is the latest there is.
LatestComes(w, last) ==
    \A i \in DOMAIN w : w[i].type = "TRADE_EXECUTED" =>
        \E j \in DOMAIN w : i <= j /\ w[j].type = "TRADE_EXECUTED" /\ w[j].trade = last

WireFits ==
    /\ wire \in Seq(Event)
    /\ \A i \in DOMAIN wire : EventFits(wire[i])
    /\ OrderOfEvents(wire) /\ CancelFollows
    /\ LatestComes(wire, Len(tape))

-----------------------------------------------------------------------------
(* The pages.                                                              *)

\* An answer to a page's request.
DataFits(data) ==
    /\ page.name = "orders" => data \subseteq Mine
    /\ page.name = "trades" =>
        data \in Seq(DOMAIN tape) /\ Len(data) <= Limit

RequestsFit ==
    /\ request \in Seq(Elements(request))
    /\ \A r \in DOMAIN request : request[r].at \in {"asked", "answered", "failed", "done"}
    /\ \A r \in DOMAIN request : request[r].at = "answered" => DataFits(request[r].data)
    /\ ~page.mounted <=> request = <<>>

PageFits ==
    /\ page \in [name : Pages, mounted : BOOLEAN]
    /\ error \in BOOLEAN /\ liveArrived \in BOOLEAN /\ raced \in BOOLEAN /\ unannounced \in BOOLEAN
    /\ shownOrders \subseteq Mine
    /\ shownTrades \in Seq(DOMAIN tape) /\ Len(shownTrades) <= Limit
    /\ liveArrived => shownTrades # <<>>

\* What a list of orders will be once the page has heard what is on its way.
Becomes(shown) ==
    {o \in Mine : /\ <<"ORDER_CANCELLED", o>> \notin Said(wire)
                  /\ <<"ORDER_FILLED", o>> \notin Said(wire)
                  /\ <<"ORDER_PLACED", o>> \in Said(wire) \/ o \in shown}

\* That is the open orders, and some that were consumed.
Agrees(shown) ==
    \A o \in Mine : /\ o \in Book => o \in Becomes(shown)
                    /\ o \in Becomes(shown) => o \in Book \/ bought[o] = terms[o].size

\* The orders page agrees, or will when it has the answer it waits for.
OrdersPageFits ==
    page.name = "orders" =>
        /\ \A r, s \in Outstanding : r = s
        /\ page.mounted /\ ~raced =>
            /\ Outstanding = {} => Agrees(shownOrders)
            /\ \A r \in Outstanding : request[r].at = "answered" => Agrees(request[r].data)

\* The latest request is still to be answered, or its answer is the book.
LatestAnswer(r) ==
    \/ request[r].at \in {"asked", "failed"}
    \/ request[r].at = "answered" /\ request[r].data = Levels
    \/ request[r].at = "done" /\ shownLevels = Levels

\* The book page will be asked to load again, or its latest request sees to
\* it, or an answer is bound to overtake another.
BookPageFits ==
    page.name = "book" /\ page.mounted /\ ~raced /\ ~unannounced =>
        \/ \E i \in DOMAIN wire : RefreshesOn(wire[i])
        \/ \E r \in Outstanding : r # Len(request)
        \/ LatestAnswer(Len(request))

NewestOn(trades) == trades # <<>> /\ tape[trades[1]] = tape[Len(tape)]

TradesPageFits ==
    page.name = "trades" /\ page.mounted =>
        /\ Len(request) = 1
        /\ ~raced /\ tape # <<>> /\ (\A i \in DOMAIN wire : wire[i].type # "TRADE_EXECUTED") =>
            \/ liveArrived /\ NewestOn(shownTrades)
            \/ ~liveArrived /\ request[1].at \in {"asked", "failed"}
            \/ ~liveArrived /\ request[1].at = "answered" /\ NewestOn(request[1].data)
            \/ ~liveArrived /\ request[1].at = "done" /\ NewestOn(shownTrades)

UnmountedFits == ~page.mounted => ~liveArrived

SInv ==
    /\ LivesFit /\ TapeFits /\ WireFits /\ RequestsFit /\ PageFits
    /\ OrdersPageFits /\ BookPageFits /\ TradesPageFits /\ UnmountedFits

-----------------------------------------------------------------------------
(* Sequences.                                                              *)

\* v is w with e at its end.
Longer(w, e, v) ==
    /\ Len(w) \in Nat /\ Len(v) = Len(w) + 1
    /\ DOMAIN w = 1..Len(w) /\ DOMAIN v = 1..(Len(w) + 1)
    /\ \A i \in 1..Len(w) : v[i] = w[i]
    /\ v[Len(w) + 1] = e

LEMMA ElementsAreThose == ASSUME NEW S, NEW s \in Seq(S) PROVE s \in Seq(Elements(s))
<1>1. Len(s) \in Nat /\ DOMAIN s = 1..Len(s) /\ s = [i \in 1..Len(s) |-> s[i]]
  OBVIOUS
<1>2. \A i \in 1..Len(s) : s[i] \in Elements(s)
  BY <1>1 DEF Elements
<1>3. s \in [1..Len(s) -> Elements(s)]
  BY <1>1, <1>2
<1>4. QED
  BY <1>1, <1>3

LEMMA AppendIsLonger ==
    ASSUME NEW S, NEW w \in Seq(S), NEW e
    PROVE  /\ Longer(w, e, Append(w, e))
           /\ e \in S => Append(w, e) \in Seq(S)
           /\ Append(w, e) \in Seq(Elements(Append(w, e)))
<1> DEFINE T == S \cup {e}
           v == Append(w, e)
<1>1. w \in Seq(T)
  OBVIOUS
<1>2. /\ v \in Seq(T) /\ Len(v) = Len(w) + 1
      /\ \A i \in 1..Len(w) : v[i] = w[i]
      /\ v[Len(w) + 1] = e
  BY <1>1, AppendProperties
<1>3. Len(w) \in Nat /\ DOMAIN w = 1..Len(w) /\ DOMAIN v = 1..Len(v)
  BY <1>2
<1>4. v \in Seq(Elements(v))
  BY <1>2, <1>3, ElementsAreThose
<1>5. e \in S => v \in Seq(S)
  BY AppendProperties
<1>6. Longer(w, e, v)
  <2> HIDE DEF v
  <2>1. QED
    BY <1>2, <1>3 DEF Longer
<1>7. QED
  BY <1>4, <1>5, <1>6

\* v is w without its head.
Shorter(w, v) ==
    /\ Len(w) \in Nat \ {0} /\ Len(v) = Len(w) - 1
    /\ DOMAIN w = 1..Len(w) /\ DOMAIN v = 1..(Len(w) - 1)
    /\ \A i \in 1..(Len(w) - 1) : v[i] = w[i + 1]
    /\ Head(w) = w[1]

LEMMA TailIsShorter ==
    ASSUME NEW S, NEW w \in Seq(S), w # <<>>
    PROVE  Shorter(w, Tail(w)) /\ Tail(w) \in Seq(S) /\ Head(w) \in S
<1>1. /\ Head(w) \in S /\ Tail(w) \in Seq(S)
      /\ Len(Tail(w)) = Len(w) - 1
      /\ \A i \in 1..Len(Tail(w)) : Tail(w)[i] = w[i + 1]
  BY HeadTailProperties
<1>2. Len(w) \in Nat \ {0} /\ DOMAIN w = 1..Len(w) /\ Head(w) = w[1]
  BY EmptySeq
<1>3. DOMAIN Tail(w) = 1..Len(Tail(w))
  BY <1>1
<1>4. QED
  BY <1>1, <1>2, <1>3 DEF Shorter

\* v is s with x at r.
Changed(s, r, x, v) ==
    /\ Len(s) \in Nat /\ Len(v) = Len(s)
    /\ DOMAIN s = 1..Len(s) /\ DOMAIN v = 1..Len(s)
    /\ v[r] = x
    /\ \A i \in 1..Len(s) : i # r => v[i] = s[i]

LEMMA ExceptIsChanged ==
    ASSUME NEW S, NEW s \in Seq(S), NEW r \in DOMAIN s, NEW x
    PROVE  Changed(s, r, x, [s EXCEPT ![r] = x])
           /\ [s EXCEPT ![r] = x] \in Seq(Elements([s EXCEPT ![r] = x]))
<1> DEFINE v == [s EXCEPT ![r] = x]
           T == S \cup {x}
<1>1. Len(s) \in Nat /\ DOMAIN s = 1..Len(s) /\ s \in [1..Len(s) -> S]
  OBVIOUS
<1>2. DOMAIN v = 1..Len(s) /\ v[r] = x /\ \A i \in 1..Len(s) : i # r => v[i] = s[i]
  BY <1>1
<1>3. v \in [1..Len(s) -> T]
  BY <1>1
<1>4. v \in Seq(T) /\ Len(v) = Len(s)
  BY <1>1, <1>3
<1>5. v \in Seq(Elements(v))
  BY <1>4, ElementsAreThose
<1>6. Changed(s, r, x, v)
  <2> HIDE DEF v
  <2>1. QED
    BY <1>1, <1>2, <1>4 DEF Changed
<1>7. QED
  BY <1>5, <1>6

\* What is said after one more event, and after one is taken off.
LEMMA SaidWithOneMore ==
    ASSUME NEW w, NEW e, NEW v, Longer(w, e, v)
    PROVE  Said(v) = Said(w) \cup {<<e.type, e.order>>}
<1>1. \A i \in 1..(Len(w) + 1) : i \in 1..Len(w) \/ i = Len(w) + 1
  BY DEF Longer
<1>2. 1..Len(w) \subseteq 1..(Len(w) + 1) /\ Len(w) + 1 \in 1..(Len(w) + 1)
  BY DEF Longer
<1>3. QED
  BY <1>1, <1>2 DEF Longer, Said

LEMMA SaidWithOneLess ==
    ASSUME NEW w, NEW v, Shorter(w, v)
    PROVE  Said(w) = Said(v) \cup {<<w[1].type, w[1].order>>}
<1>1. \A i \in 1..Len(w) : i = 1 \/ (i - 1 \in 1..(Len(w) - 1) /\ v[i - 1] = w[i])
  BY DEF Shorter
<1>2. \A i \in 1..(Len(w) - 1) : i + 1 \in 1..Len(w) /\ v[i] = w[i + 1]
  BY DEF Shorter
<1>3. 1 \in 1..Len(w) /\ DOMAIN w = 1..Len(w) /\ DOMAIN v = 1..(Len(w) - 1)
  BY DEF Shorter
<1>4. Said(w) = {<<w[i].type, w[i].order>> : i \in 1..Len(w)}
  BY <1>3 DEF Said
<1>5. Said(v) = {<<v[i].type, v[i].order>> : i \in 1..(Len(w) - 1)}
  BY <1>3 DEF Said
<1>6. ASSUME NEW p \in Said(w) PROVE p \in Said(v) \cup {<<w[1].type, w[1].order>>}
  <2>1. PICK i \in 1..Len(w) : p = <<w[i].type, w[i].order>>
    BY <1>4
  <2>2. CASE i = 1
    BY <2>1, <2>2
  <2>3. CASE i # 1
    <3>1. i - 1 \in 1..(Len(w) - 1) /\ v[i - 1] = w[i]
      BY <1>1, <2>3
    <3>2. QED
      BY <1>5, <2>1, <3>1
  <2>4. QED
    BY <2>2, <2>3
<1>7. ASSUME NEW p \in Said(v) PROVE p \in Said(w)
  <2>1. PICK i \in 1..(Len(w) - 1) : p = <<v[i].type, v[i].order>>
    BY <1>5
  <2>2. i + 1 \in 1..Len(w) /\ v[i] = w[i + 1]
    BY <1>2
  <2>3. QED
    BY <1>4, <2>1, <2>2
<1>8. QED
  BY <1>3, <1>4, <1>6, <1>7

-----------------------------------------------------------------------------
(* The trades an answer has, and those a page keeps.                       *)

LEMMA UpToIsCounted == ASSUME NEW n \in Nat PROVE IsFiniteSet(1..n) /\ Cardinality(1..n) = n
<1>1. IsFiniteSet(1..n) /\ Cardinality(1..n) = IF 1 > n THEN 0 ELSE n - 1 + 1
  BY FS_Interval
<1>2. QED
  BY <1>1

\* An answer has trades of the tape, the newest on top.
LEMMA RecentFits ==
    ASSUME TapeFits, ScreensAssumption
    PROVE  /\ Recent \in Seq(DOMAIN tape) /\ Len(Recent) <= Limit
           /\ tape # <<>> => NewestOn(Recent)
<1> DEFINE D == DOMAIN tape
           N == Len(tape)
           R == NewestFirst
           n == LesserOf(Limit, N)
<1>1. N \in Nat /\ D = 1..N /\ \A i \in D : tape[i] \in Nat
  BY DEF TapeFits
<1>2. IsFiniteSet(D) /\ Cardinality(D) = N
  <2>1. PICK n0 \in Nat : n0 = N
    BY <1>1
  <2>2. IsFiniteSet(1..n0) /\ Cardinality(1..n0) = n0
    BY UpToIsCounted
  <2>3. QED
    BY <1>1, <2>1, <2>2
<1>3. \A i, j \in D : <<i, j>> \in R <=> tape[i] > tape[j] \/ (tape[i] = tape[j] /\ i <= j)
  BY DEF NewestFirst
<1>4. Linear(R, D)
  <2> HIDE DEF R, D
  <2>1. D \subseteq Nat
    BY <1>1
  <2>2. ASSUME NEW i \in D, NEW j \in D
        PROVE  /\ <<i, j>> \in R \/ <<j, i>> \in R
               /\ <<i, j>> \in R /\ <<j, i>> \in R => i = j
    <3>1. PICK a \in Nat, b \in Nat, x \in Nat, y \in Nat : a = i /\ b = j /\ x = tape[i] /\ y = tape[j]
      BY <1>1, <2>1
    <3>2. <<i, j>> \in R <=> x > y \/ (x = y /\ a <= b)
      BY <1>3, <3>1
    <3>3. <<j, i>> \in R <=> y > x \/ (y = x /\ b <= a)
      BY <1>3, <3>1
    <3>4. QED
      BY <3>1, <3>2, <3>3
  <2>3. ASSUME NEW i \in D, NEW j \in D, NEW k \in D, <<i, j>> \in R, <<j, k>> \in R
        PROVE  <<i, k>> \in R
    <3>1. PICK a \in Nat, b \in Nat, c \in Nat, x \in Nat, y \in Nat, z \in Nat :
            a = i /\ b = j /\ c = k /\ x = tape[i] /\ y = tape[j] /\ z = tape[k]
      BY <1>1, <2>1
    <3>2. (x > y \/ (x = y /\ a <= b)) /\ (y > z \/ (y = z /\ b <= c))
      BY <1>3, <2>3, <3>1
    <3>3. x > z \/ (x = z /\ a <= c)
      BY <3>2
    <3>4. QED
      BY <1>3, <3>1, <3>3
  <2>4. QED
    BY <2>2, <2>3 DEF Linear
<1>5. /\ \A k \in 1..N : Position(k, D, R) \in D
      /\ \A i \in D : \E k \in 1..N : Position(k, D, R) = i
      /\ \A k, l \in 1..N : k < l => <<Position(k, D, R), Position(l, D, R)>> \in R
  BY <1>2, <1>4, PositionsAreOrdered
<1>6. n \in Nat /\ n <= Limit /\ n <= N /\ (N # 0 => n >= 1)
  BY <1>1 DEF LesserOf, ScreensAssumption
<1>7. Recent = [k \in 1..n |-> Position(k, D, R)]
  BY DEF Recent
<1> HIDE DEF D, R, n
<1>8. Recent \in [1..n -> D]
  <2>1. ASSUME NEW k \in 1..n PROVE k \in 1..N
    BY <1>1, <1>6
  <2>2. QED
    BY <1>5, <1>7, <2>1
<1>9. Recent \in Seq(D) /\ Len(Recent) = n
  BY <1>6, <1>8
<1>10. ASSUME tape # <<>> PROVE NewestOn(Recent)
  <2>1. N # 0
    BY <1>10, EmptySeq DEF TapeFits
  <2>2. N \in D /\ 1 \in 1..N /\ 1 \in 1..n
    BY <1>1, <1>6, <2>1
  <2>3. PICK i \in D : i = Position(1, D, R)
    BY <1>5, <2>2
  <2>4. PICK k \in 1..N : Position(k, D, R) = N
    BY <1>5, <2>2
  <2>5. k = 1 \/ 1 < k
    BY <1>1
  <2>6. i = N \/ <<i, N>> \in R
    BY <1>5, <2>2, <2>3, <2>4, <2>5
  <2>7. tape[i] >= tape[N]
    BY <1>1, <1>3, <2>2, <2>6
  <2>8. tape[i] <= tape[N]
    BY <1>1 DEF TapeFits, D
  <2>9. tape[i] = tape[N]
    BY <1>1, <2>2, <2>7, <2>8
  <2>10. Recent # <<>>
    BY <1>6, <1>9, <2>1, <1>1
  <2>11. Recent[1] = i
    BY <1>7, <2>2, <2>3
  <2>12. QED
    BY <2>9, <2>10, <2>11 DEF NewestOn
<1>11. QED
  BY <1>6, <1>9, <1>10 DEF D

\* A page that has heard of a trade has it on top of those it had, of which
\* the oldest may be gone.
OnTopOf(t, s, v) ==
    /\ Len(v) <= Limit /\ v # <<>> /\ v[1] = t
    /\ Len(v) \in {Len(s), Len(s) + 1}
    /\ Tail(v) = SubSeq(s, 1, Len(v) - 1)

LEMMA PrependedFits ==
    ASSUME ScreensAssumption, NEW S, NEW s \in Seq(S), NEW t \in S, Len(s) <= Limit,
           NEW v, v = WithinLimit(<<t>> \o s)
    PROVE  v \in Seq(S) /\ OnTopOf(t, s, v)
<1>1. PICK k \in Nat : k = Len(s) /\ DOMAIN s = 1..k
  OBVIOUS
<1>2. PICK w \in Seq(S) : /\ w = <<t>> \o s /\ Len(w) = k + 1
                          /\ \A i \in 1..(k + 1) : w[i] = IF i <= 1 THEN t ELSE s[i - 1]
  <2>1. <<t>> \in Seq(S) /\ Len(<<t>>) = 1 /\ <<t>>[1] = t
    OBVIOUS
  <2>2. /\ <<t>> \o s \in Seq(S) /\ Len(<<t>> \o s) = 1 + k
        /\ \A i \in 1..(1 + k) : (<<t>> \o s)[i] = IF i <= 1 THEN <<t>>[i] ELSE s[i - 1]
    BY <1>1, <2>1, ConcatProperties
  <2>3. 1 + k = k + 1 /\ \A i \in 1..(k + 1) : i <= 1 => i = 1
    OBVIOUS
  <2>4. QED
    BY <2>1, <2>2, <2>3
<1>3. PICK n \in Nat : n = LesserOf(Limit, k + 1)
  BY <1>1 DEF LesserOf, ScreensAssumption
<1>4. /\ n # 0 /\ n <= Limit /\ n <= k + 1 /\ n - 1 <= k
      /\ n = k \/ n = k + 1
  <2>1. PICK limit \in Nat : limit = Limit /\ limit # 0 /\ k <= limit
    BY <1>1 DEF ScreensAssumption
  <2>2. n = IF limit <= k + 1 THEN limit ELSE k + 1
    BY <1>3, <2>1 DEF LesserOf
  <2>3. QED
    BY <2>1, <2>2
<1>5. v = SubSeq(w, 1, n)
  BY <1>2, <1>3 DEF WithinLimit
<1>6. v \in Seq(S) /\ Len(v) = n /\ \A i \in 1..n : v[i] = w[i]
  <2>1. /\ SubSeq(w, 1, n) \in Seq(S)
        /\ Len(SubSeq(w, 1, n)) = IF 1 <= n THEN n - 1 + 1 ELSE 0
        /\ \A i \in 1..(n - 1 + 1) : SubSeq(w, 1, n)[i] = w[1 + i - 1]
    <3>1. \A i \in 1..n : i \in 1..(k + 1)
      BY <1>4
    <3>2. \A i \in 1..n : w[i] \in S
      BY <1>2, <3>1
    <3>3. 1 \in Int /\ n \in Int
      OBVIOUS
    <3>4. QED
      BY <3>2, <3>3, SubSeqProperties
  <2>2. n - 1 + 1 = n /\ 1 <= n /\ \A i \in 1..n : 1 + i - 1 = i
    BY <1>4
  <2>3. QED
    BY <1>5, <2>1, <2>2
<1>7. 1 \in 1..n /\ 1 \in 1..(k + 1)
  BY <1>4
<1>8. v # <<>> /\ v[1] = t
  <2>1. v[1] = w[1] /\ w[1] = t
    BY <1>2, <1>6, <1>7
  <2>2. Len(v) # 0
    BY <1>4, <1>6
  <2>3. QED
    BY <1>6, <2>1, <2>2, EmptySeq
<1>9. Tail(v) \in Seq(S) /\ Len(Tail(v)) = n - 1 /\ \A i \in 1..(n - 1) : Tail(v)[i] = v[i + 1]
  <2>1. /\ Tail(v) \in Seq(S) /\ Len(Tail(v)) = Len(v) - 1
        /\ \A i \in 1..Len(Tail(v)) : Tail(v)[i] = v[i + 1]
    BY <1>6, <1>8, HeadTailProperties
  <2>2. Len(Tail(v)) = n - 1
    BY <1>6, <2>1
  <2>3. QED
    BY <2>1, <2>2
<1>10. /\ SubSeq(s, 1, n - 1) \in Seq(S) /\ Len(SubSeq(s, 1, n - 1)) = n - 1
       /\ \A i \in 1..(n - 1) : SubSeq(s, 1, n - 1)[i] = s[i]
  <2>1. PICK m \in Nat : m = n - 1 /\ m <= k
    BY <1>4
  <2>2. \A i \in 1..m : i \in 1..k /\ s[i] \in S
    BY <1>1, <2>1
  <2>3. /\ SubSeq(s, 1, m) \in Seq(S)
        /\ Len(SubSeq(s, 1, m)) = IF 1 <= m THEN m - 1 + 1 ELSE 0
        /\ \A i \in 1..(m - 1 + 1) : SubSeq(s, 1, m)[i] = s[1 + i - 1]
    BY <2>2, SubSeqProperties
  <2>4. m - 1 + 1 = m /\ (~(1 <= m) => m = 0) /\ \A i \in 1..m : 1 + i - 1 = i
    OBVIOUS
  <2>5. QED
    BY <2>1, <2>3, <2>4
<1>11. \A i \in 1..(n - 1) : v[i + 1] = s[i]
  <2> SUFFICES ASSUME NEW i \in 1..(n - 1) PROVE v[i + 1] = s[i]
    OBVIOUS
  <2>1. i + 1 \in 1..n /\ i + 1 \in 1..(k + 1) /\ ~(i + 1 <= 1) /\ (i + 1) - 1 = i
    BY <1>4
  <2>2. QED
    BY <1>2, <1>6, <2>1
<1>12. Tail(v) = SubSeq(s, 1, n - 1)
  <2>1. \A i \in 1..(n - 1) : Tail(v)[i] = SubSeq(s, 1, n - 1)[i]
    BY <1>9, <1>10, <1>11
  <2>2. PICK x \in Seq(S) : x = Tail(v) /\ Len(x) = n - 1
    BY <1>9
  <2>3. PICK y \in Seq(S) : y = SubSeq(s, 1, n - 1) /\ Len(y) = n - 1
    BY <1>10
  <2>4. \A i \in 1..Len(x) : x[i] = y[i]
    BY <2>1, <2>2, <2>3
  <2>5. QED
    BY <2>2, <2>3, <2>4, SeqEqual
<1>13. QED
  BY <1>1, <1>4, <1>6, <1>8, <1>12 DEF OnTopOf

-----------------------------------------------------------------------------
(* The market's steps, by what they do to the orders.                      *)

\* A changed record of an order's terms is one.
LEMMA TermsPlaced ==
    ASSUME NEW t \in Terms, NEW p \in OrderIds, NEW u, u = [t EXCEPT !.placedAt = p]
    PROVE  /\ u \in Terms /\ u.placedAt = p
           /\ u.user = t.user /\ u.side = t.side /\ u.size = t.size
BY DEF Terms

LEMMA TermsAreNotNone ==
    ASSUME ScreensAssumption, NEW t \in Terms
    PROVE  t # NoTerms /\ t.size \in Nat \ {0}
<1>1. t.size \in Quantities
  BY DEF Terms
<1>2. NoTerms.size = 0
  BY DEF NoTerms
<1>3. QED
  BY <1>1, <1>2 DEF ScreensAssumption

\* A new order: all of it is being taken.
LEMMA SubmitAsks ==
    ASSUME ScreensAssumption, LivesFit,
           NEW o \in OrderIds, NEW u \in Users, NEW s \in Sides, NEW q \in Quantities, Submit(o, u, s, q)
    PROVE  /\ o \notin Known /\ Known' = Known \cup {o}
           /\ DOMAIN terms' = OrderIds /\ terms'[o] \in Terms
           /\ terms'[o].placedAt = 0 /\ terms'[o].size = q /\ q \in Nat
           /\ \A x \in OrderIds : x # o => terms'[x] = terms[x]
           /\ taking' \in [OrderIds -> Nat] /\ taking'[o] = q
           /\ \A x \in OrderIds : x # o => taking'[x] = taking[x]
           /\ UNCHANGED <<rest, bought, told>>
<1>1. PICK price \in Prices, t \in Times : Ask(o, u, s, price, q, t)
  BY DEF Submit
<1>2. PICK r : r = [user |-> u, side |-> s, price |-> price, size |-> q, createdAt |-> t, placedAt |-> 0]
  OBVIOUS
<1>3. r \in Terms /\ r.placedAt = 0 /\ r.size = q
  BY <1>2 DEF Terms
<1>4. r # NoTerms /\ q \in Nat
  BY <1>3, TermsAreNotNone DEF ScreensAssumption
<1>5. terms[o] = NoTerms /\ terms' = [terms EXCEPT ![o] = r] /\ taking' = [taking EXCEPT ![o] = q]
      /\ UNCHANGED <<rest, bought, told>>
  BY <1>1, <1>2 DEF Ask
<1>6. DOMAIN terms = OrderIds /\ taking \in [OrderIds -> Nat]
  BY DEF LivesFit
<1>7. /\ DOMAIN terms' = OrderIds /\ terms'[o] = r
      /\ \A x \in OrderIds : x # o => terms'[x] = terms[x]
  BY <1>5, <1>6
<1>8. /\ taking' \in [OrderIds -> Nat] /\ taking'[o] = q
      /\ \A x \in OrderIds : x # o => taking'[x] = taking[x]
  BY <1>4, <1>5, <1>6
<1>9. o \notin Known /\ Known' = Known \cup {o}
  BY <1>4, <1>5, <1>7 DEF Known
<1>10. QED
  BY <1>3, <1>4, <1>5, <1>7, <1>8, <1>9

\* A deal: its units leave what the taker may take and what the other sells.
LEMMA TradeDeals ==
    ASSUME ScreensAssumption, LivesFit,
           NEW o \in OrderIds, NEW later \in {0, 1}, Trade(o, later)
    PROVE  \E m \in Book, q \in Nat :
             /\ o \in Known /\ m \in Known /\ o \notin Book /\ m # o /\ q # 0
             /\ q <= taking[o] /\ q <= rest[m] /\ taking[o] # 0
             /\ taking' \in [OrderIds -> Nat] /\ taking'[o] = taking[o] - q
             /\ \A x \in OrderIds : x # o => taking'[x] = taking[x]
             /\ rest' \in [OrderIds -> Nat] /\ rest'[m] = rest[m] - q
             /\ \A x \in OrderIds : x # m => rest'[x] = rest[x]
             /\ bought' \in [OrderIds -> Nat] /\ bought'[o] = bought[o] + q /\ bought'[m] = bought[m] + q
             /\ \A x \in OrderIds : x # o /\ x # m => bought'[x] = bought[x]
             /\ UNCHANGED <<terms, told>>
<1>1. PICK m \in Counterparties(o) : Deal(o, m)
  BY DEF Trade
<1>2. m \in Book /\ m \in OrderIds
  BY DEF Counterparties, Book
<1>3. /\ taking \in [OrderIds -> Nat] /\ rest \in [OrderIds -> Nat] /\ bought \in [OrderIds -> Nat]
      /\ LifeFits(o) /\ LifeFits(m)
  BY <1>2 DEF LivesFit
<1>4. taking[o] # 0 /\ rest[m] # 0 /\ taking[o] \in Nat /\ rest[m] \in Nat
  BY <1>2, <1>3 DEF Book, Trade
<1>5. o \in Known /\ m \in Known /\ rest[o] = 0
  BY <1>3, <1>4 DEF LifeFits
<1>6. o \notin Book /\ m # o
  BY <1>4, <1>5 DEF Book
<1>7. PICK q \in Nat : q = LesserOf(taking[o], rest[m]) /\ q # 0 /\ q <= taking[o] /\ q <= rest[m]
  BY <1>4 DEF LesserOf
<1>8. /\ taking' = [taking EXCEPT ![o] = @ - q] /\ rest' = [rest EXCEPT ![m] = @ - q]
      /\ bought' = [bought EXCEPT ![o] = @ + q, ![m] = @ + q]
      /\ UNCHANGED <<terms, told>>
  BY <1>1, <1>7 DEF Deal
<1>9. taking[o] - q \in Nat /\ rest[m] - q \in Nat /\ bought[o] + q \in Nat /\ bought[m] + q \in Nat
  BY <1>2, <1>3, <1>4, <1>7
<1>10. /\ taking' \in [OrderIds -> Nat] /\ taking'[o] = taking[o] - q
       /\ \A x \in OrderIds : x # o => taking'[x] = taking[x]
  BY <1>3, <1>8, <1>9
<1>11. /\ rest' \in [OrderIds -> Nat] /\ rest'[m] = rest[m] - q
       /\ \A x \in OrderIds : x # m => rest'[x] = rest[x]
  BY <1>2, <1>3, <1>8, <1>9
<1>12. /\ bought' \in [OrderIds -> Nat] /\ bought'[o] = bought[o] + q /\ bought'[m] = bought[m] + q
       /\ \A x \in OrderIds : x # o /\ x # m => bought'[x] = bought[x]
  BY <1>2, <1>3, <1>6, <1>8, <1>9
<1>13. QED
  BY <1>2, <1>4, <1>5, <1>6, <1>7, <1>8, <1>10, <1>11, <1>12

\* The remainder of an order is for sale.
LEMMA RestsInBook ==
    ASSUME ScreensAssumption, LivesFit, NEW o \in OrderIds, Rests(o)
    PROVE  /\ o \in Known /\ taking[o] # 0 /\ terms[o].placedAt = 0 /\ Known' = Known
           /\ DOMAIN terms' = OrderIds /\ terms'[o] \in Terms
           /\ terms'[o].placedAt = o /\ o # 0
           /\ terms'[o].user = terms[o].user /\ terms'[o].side = terms[o].side /\ terms'[o].size = terms[o].size
           /\ \A x \in OrderIds : x # o => terms'[x] = terms[x]
           /\ taking' \in [OrderIds -> Nat] /\ taking'[o] = 0
           /\ \A x \in OrderIds : x # o => taking'[x] = taking[x]
           /\ rest' \in [OrderIds -> Nat] /\ rest'[o] = taking[o]
           /\ \A x \in OrderIds : x # o => rest'[x] = rest[x]
           /\ DOMAIN told' = OrderIds /\ told'[o] = told[o] \cup {"PARTIALLY_FILLED"}
           /\ \A x \in OrderIds : x # o => told'[x] = told[x]
           /\ UNCHANGED bought
<1>1. /\ DOMAIN terms = OrderIds /\ DOMAIN told = OrderIds
      /\ taking \in [OrderIds -> Nat] /\ rest \in [OrderIds -> Nat]
      /\ LifeFits(o)
  BY DEF LivesFit
<1>2. taking[o] # 0 /\ taking[o] \in Nat
  BY <1>1 DEF Rests
<1>3. o \in Known /\ terms[o] \in Terms /\ terms[o].placedAt = 0
  BY <1>1, <1>2 DEF LifeFits
<1>4. PICK r : r = [terms[o] EXCEPT !.placedAt = o]
  OBVIOUS
<1>5. /\ r \in Terms /\ r.placedAt = o
      /\ r.user = terms[o].user /\ r.side = terms[o].side /\ r.size = terms[o].size
  BY <1>3, <1>4, TermsPlaced
<1>6. r # NoTerms /\ o # 0
  BY <1>5, TermsAreNotNone DEF ScreensAssumption
<1>7. /\ terms' = [terms EXCEPT ![o] = r]
      /\ rest' = [rest EXCEPT ![o] = taking[o]] /\ taking' = [taking EXCEPT ![o] = 0]
      /\ told' = [told EXCEPT ![o] = @ \cup {"PARTIALLY_FILLED"}]
      /\ UNCHANGED bought
  BY <1>1, <1>4 DEF Rests, ComesToRest, Says
<1>8. /\ DOMAIN terms' = OrderIds /\ terms'[o] = r
      /\ \A x \in OrderIds : x # o => terms'[x] = terms[x]
  BY <1>1, <1>7
<1>9. /\ taking' \in [OrderIds -> Nat] /\ taking'[o] = 0
      /\ \A x \in OrderIds : x # o => taking'[x] = taking[x]
  BY <1>1, <1>7
<1>10. /\ rest' \in [OrderIds -> Nat] /\ rest'[o] = taking[o]
       /\ \A x \in OrderIds : x # o => rest'[x] = rest[x]
  BY <1>1, <1>2, <1>7
<1>11. /\ DOMAIN told' = OrderIds /\ told'[o] = told[o] \cup {"PARTIALLY_FILLED"}
       /\ \A x \in OrderIds : x # o => told'[x] = told[x]
  BY <1>1, <1>7
<1>12. Known' = Known
  BY <1>3, <1>6, <1>8 DEF Known
<1>13. QED
  BY <1>2, <1>3, <1>5, <1>6, <1>7, <1>8, <1>9, <1>10, <1>11, <1>12

\* Nothing but what is said of the order changes when it is filled.
LEMMA FillsSays ==
    ASSUME ScreensAssumption, LivesFit, NEW o \in OrderIds, Fills(o)
    PROVE  /\ o \in Known /\ terms[o].placedAt = 0 /\ taking[o] = 0 /\ o \notin Book
           /\ DOMAIN told' = OrderIds /\ told'[o] = told[o] \cup {"FILLED"}
           /\ \A x \in OrderIds : x # o => told'[x] = told[x]
           /\ UNCHANGED <<terms, taking, rest, bought>>
<1>1. DOMAIN told = OrderIds /\ LifeFits(o) /\ taking[o] \in Nat /\ bought[o] \in Nat
  BY DEF LivesFit
<1>2. o \in Known /\ terms[o].placedAt = 0 /\ bought[o] = terms[o].size
      /\ told' = [told EXCEPT ![o] = @ \cup {"FILLED"}]
      /\ UNCHANGED <<terms, taking, rest, bought>>
  BY DEF Fills, Unsaid, FilledOnArrival, Says, Known
<1>3. bought[o] + taking[o] = bought[o] /\ rest[o] = 0
  BY <1>1, <1>2 DEF LifeFits
<1>4. taking[o] = 0 /\ o \notin Book
  BY <1>1, <1>3 DEF Book
<1>5. /\ DOMAIN told' = OrderIds /\ told'[o] = told[o] \cup {"FILLED"}
      /\ \A x \in OrderIds : x # o => told'[x] = told[x]
  BY <1>1, <1>2
<1>6. QED
  BY <1>2, <1>4, <1>5

\* A cancelled order is for sale no more.
LEMMA CancelsWithdraws ==
    ASSUME ScreensAssumption, LivesFit, NEW o \in OrderIds, Cancels(o)
    PROVE  /\ o \in Known /\ terms[o].placedAt # 0 /\ taking[o] = 0 /\ o \in Book
           /\ rest' \in [OrderIds -> Nat] /\ rest'[o] = 0
           /\ \A x \in OrderIds : x # o => rest'[x] = rest[x]
           /\ DOMAIN told' = OrderIds /\ told'[o] = told[o] \cup {"CANCELLED"}
           /\ \A x \in OrderIds : x # o => told'[x] = told[x]
           /\ UNCHANGED <<terms, taking, bought>>
<1>1. DOMAIN told = OrderIds /\ rest \in [OrderIds -> Nat] /\ LifeFits(o)
  BY DEF LivesFit
<1>2. o \in Book /\ rest' = [rest EXCEPT ![o] = 0]
      /\ told' = [told EXCEPT ![o] = @ \cup {"CANCELLED"}]
      /\ UNCHANGED <<terms, taking, bought>>
  BY DEF Cancels, Withdraw, Says
<1>3. rest[o] # 0
  BY <1>1, <1>2 DEF Book
<1>4. o \in Known /\ terms[o].placedAt # 0 /\ taking[o] = 0
  BY <1>1, <1>3 DEF LifeFits
<1>5. /\ rest' \in [OrderIds -> Nat] /\ rest'[o] = 0
      /\ \A x \in OrderIds : x # o => rest'[x] = rest[x]
  BY <1>1, <1>2
<1>6. /\ DOMAIN told' = OrderIds /\ told'[o] = told[o] \cup {"CANCELLED"}
      /\ \A x \in OrderIds : x # o => told'[x] = told[x]
  BY <1>1, <1>2
<1>7. QED
  BY <1>2, <1>4, <1>5, <1>6

-----------------------------------------------------------------------------
(* Orders keep to their lives.                                             *)

\* An order that a step does not touch.
LEMMA LifeGoesOn ==
    ASSUME NEW x \in OrderIds, LifeFits(x), x \in Known' <=> x \in Known,
           terms'[x] = terms[x], taking'[x] = taking[x], rest'[x] = rest[x],
           bought'[x] = bought[x], told'[x] = told[x]
    PROVE  LifeFits(x)'
BY DEF LifeFits

LEMMA SubmitLives ==
    ASSUME ScreensAssumption, LivesFit,
           NEW o \in OrderIds, NEW u \in Users, NEW s \in Sides, NEW q \in Quantities, Submit(o, u, s, q)
    PROVE  LivesFit'
<1>1. /\ o \notin Known /\ Known' = Known \cup {o}
      /\ DOMAIN terms' = OrderIds /\ terms'[o] \in Terms
      /\ terms'[o].placedAt = 0 /\ terms'[o].size = q /\ q \in Nat
      /\ \A x \in OrderIds : x # o => terms'[x] = terms[x]
      /\ taking' \in [OrderIds -> Nat] /\ taking'[o] = q
      /\ \A x \in OrderIds : x # o => taking'[x] = taking[x]
      /\ UNCHANGED <<rest, bought, told>>
  BY SubmitAsks
<1>2. /\ rest \in [OrderIds -> Nat] /\ bought \in [OrderIds -> Nat] /\ DOMAIN told = OrderIds
      /\ \A x \in OrderIds : LifeFits(x)
  BY DEF LivesFit
<1>3. ASSUME NEW x \in OrderIds, x # o PROVE LifeFits(x)'
  <2>1. LifeFits(x)
    BY <1>2
  <2>2. QED
    BY <1>1, <1>3, <2>1, LifeGoesOn
<1>4. LifeFits(o)'
  <2>1. rest[o] = 0 /\ bought[o] = 0 /\ told[o] = {}
    BY <1>1, <1>2 DEF LifeFits
  <2>2. QED
    BY <1>1, <2>1 DEF LifeFits
<1>5. \A x \in OrderIds : LifeFits(x)'
  BY <1>3, <1>4
<1>6. QED
  BY <1>1, <1>2, <1>5 DEF LivesFit

LEMMA TradeLives ==
    ASSUME ScreensAssumption, LivesFit, NEW o \in OrderIds, NEW later \in {0, 1}, Trade(o, later)
    PROVE  LivesFit'
<1>1. PICK m \in Book, q \in Nat :
        /\ o \in Known /\ m \in Known /\ o \notin Book /\ m # o /\ q # 0
        /\ q <= taking[o] /\ q <= rest[m] /\ taking[o] # 0
        /\ taking' \in [OrderIds -> Nat] /\ taking'[o] = taking[o] - q
        /\ \A x \in OrderIds : x # o => taking'[x] = taking[x]
        /\ rest' \in [OrderIds -> Nat] /\ rest'[m] = rest[m] - q
        /\ \A x \in OrderIds : x # m => rest'[x] = rest[x]
        /\ bought' \in [OrderIds -> Nat] /\ bought'[o] = bought[o] + q /\ bought'[m] = bought[m] + q
        /\ \A x \in OrderIds : x # o /\ x # m => bought'[x] = bought[x]
        /\ UNCHANGED <<terms, told>>
  BY TradeDeals
<1>2. /\ taking \in [OrderIds -> Nat] /\ rest \in [OrderIds -> Nat] /\ bought \in [OrderIds -> Nat]
      /\ DOMAIN terms = OrderIds /\ DOMAIN told = OrderIds
      /\ \A x \in OrderIds : LifeFits(x)
  BY DEF LivesFit
<1>3. Known' = Known /\ m \in OrderIds
  BY <1>1 DEF Known
<1>4. ASSUME NEW x \in OrderIds, x # o, x # m PROVE LifeFits(x)'
  <2>1. LifeFits(x) /\ taking'[x] = taking[x] /\ rest'[x] = rest[x] /\ bought'[x] = bought[x]
    BY <1>1, <1>2, <1>4
  <2>2. QED
    BY <1>1, <1>3, <2>1, LifeGoesOn
<1>5. LifeFits(o)'
  <2>1. PICK tk \in Nat, bo \in Nat : tk = taking[o] /\ bo = bought[o] /\ q <= tk /\ tk # 0
    BY <1>1, <1>2
  <2>2. /\ terms[o] \in Terms /\ terms[o].placedAt = 0 /\ rest[o] = 0
        /\ bo + tk = terms[o].size /\ told[o] = {}
    BY <1>1, <1>2, <2>1 DEF LifeFits
  <2>3. rest'[o] = 0 /\ taking'[o] = tk - q /\ bought'[o] = bo + q
    BY <1>1, <2>1, <2>2
  <2>4. (bo + q) + (tk - q) = bo + tk
    BY <2>1
  <2>5. QED
    BY <1>1, <1>3, <2>2, <2>3, <2>4 DEF LifeFits
<1>6. LifeFits(m)'
  <2>1. PICK re \in Nat, bo \in Nat : re = rest[m] /\ bo = bought[m] /\ q <= re /\ re # 0
    BY <1>1, <1>2, <1>3
  <2>2. /\ terms[m] \in Terms /\ terms[m].placedAt # 0 /\ taking[m] = 0
        /\ re + bo = terms[m].size /\ "CANCELLED" \notin told[m]
    BY <1>1, <1>2, <1>3, <2>1 DEF LifeFits
  <2>3. rest'[m] = re - q /\ taking'[m] = 0 /\ bought'[m] = bo + q
    BY <1>1, <1>3, <2>1, <2>2
  <2>4. (re - q) + (bo + q) = re + bo
    BY <2>1
  <2>5. QED
    BY <1>1, <1>3, <2>2, <2>3, <2>4 DEF LifeFits
<1>7. \A x \in OrderIds : LifeFits(x)'
  BY <1>4, <1>5, <1>6
<1>8. QED
  BY <1>1, <1>2, <1>7 DEF LivesFit

LEMMA RestsLives ==
    ASSUME ScreensAssumption, LivesFit, NEW o \in OrderIds, Rests(o)
    PROVE  LivesFit'
<1>1. /\ o \in Known /\ taking[o] # 0 /\ terms[o].placedAt = 0 /\ Known' = Known
      /\ DOMAIN terms' = OrderIds /\ terms'[o] \in Terms
      /\ terms'[o].placedAt = o /\ o # 0
      /\ terms'[o].user = terms[o].user /\ terms'[o].side = terms[o].side /\ terms'[o].size = terms[o].size
      /\ \A x \in OrderIds : x # o => terms'[x] = terms[x]
      /\ taking' \in [OrderIds -> Nat] /\ taking'[o] = 0
      /\ \A x \in OrderIds : x # o => taking'[x] = taking[x]
      /\ rest' \in [OrderIds -> Nat] /\ rest'[o] = taking[o]
      /\ \A x \in OrderIds : x # o => rest'[x] = rest[x]
      /\ DOMAIN told' = OrderIds /\ told'[o] = told[o] \cup {"PARTIALLY_FILLED"}
      /\ \A x \in OrderIds : x # o => told'[x] = told[x]
      /\ UNCHANGED bought
  BY RestsInBook
<1>2. /\ taking \in [OrderIds -> Nat] /\ bought \in [OrderIds -> Nat]
      /\ \A x \in OrderIds : LifeFits(x)
  BY DEF LivesFit
<1>3. ASSUME NEW x \in OrderIds, x # o PROVE LifeFits(x)'
  <2>1. LifeFits(x) /\ taking'[x] = taking[x] /\ rest'[x] = rest[x] /\ told'[x] = told[x] /\ terms'[x] = terms[x]
    BY <1>1, <1>2, <1>3
  <2>2. QED
    BY <1>1, <2>1, LifeGoesOn
<1>4. LifeFits(o)'
  <2>1. PICK tk \in Nat, bo \in Nat : tk = taking[o] /\ bo = bought[o]
    BY <1>2
  <2>2. bo + tk = terms[o].size /\ told[o] = {}
    BY <1>1, <1>2, <2>1 DEF LifeFits
  <2>3. tk + bo = bo + tk
    OBVIOUS
  <2>4. QED
    BY <1>1, <2>1, <2>2, <2>3 DEF LifeFits
<1>5. \A x \in OrderIds : LifeFits(x)'
  BY <1>3, <1>4
<1>6. QED
  BY <1>1, <1>2, <1>5 DEF LivesFit

LEMMA FillsLives ==
    ASSUME ScreensAssumption, LivesFit, NEW o \in OrderIds, Fills(o)
    PROVE  LivesFit'
<1>1. /\ o \in Known /\ terms[o].placedAt = 0 /\ taking[o] = 0 /\ o \notin Book
      /\ DOMAIN told' = OrderIds /\ told'[o] = told[o] \cup {"FILLED"}
      /\ \A x \in OrderIds : x # o => told'[x] = told[x]
      /\ UNCHANGED <<terms, taking, rest, bought>>
  BY FillsSays
<1>2. \A x \in OrderIds : LifeFits(x)
  BY DEF LivesFit
<1>3. Known' = Known
  BY <1>1 DEF Known
<1>4. ASSUME NEW x \in OrderIds, x # o PROVE LifeFits(x)'
  <2>1. LifeFits(x) /\ told'[x] = told[x]
    BY <1>1, <1>2, <1>4
  <2>2. QED
    BY <1>1, <1>3, <2>1, LifeGoesOn
<1>5. LifeFits(o)'
  BY <1>1, <1>2, <1>3 DEF LifeFits
<1>6. \A x \in OrderIds : LifeFits(x)'
  BY <1>4, <1>5
<1>7. QED
  BY <1>1, <1>6 DEF LivesFit

LEMMA CancelsLives ==
    ASSUME ScreensAssumption, LivesFit, NEW o \in OrderIds, Cancels(o)
    PROVE  LivesFit'
<1>1. /\ o \in Known /\ terms[o].placedAt # 0 /\ taking[o] = 0 /\ o \in Book
      /\ rest' \in [OrderIds -> Nat] /\ rest'[o] = 0
      /\ \A x \in OrderIds : x # o => rest'[x] = rest[x]
      /\ DOMAIN told' = OrderIds /\ told'[o] = told[o] \cup {"CANCELLED"}
      /\ \A x \in OrderIds : x # o => told'[x] = told[x]
      /\ UNCHANGED <<terms, taking, bought>>
  BY CancelsWithdraws
<1>2. \A x \in OrderIds : LifeFits(x)
  BY DEF LivesFit
<1>3. Known' = Known
  BY <1>1 DEF Known
<1>4. ASSUME NEW x \in OrderIds, x # o PROVE LifeFits(x)'
  <2>1. LifeFits(x) /\ told'[x] = told[x] /\ rest'[x] = rest[x]
    BY <1>1, <1>2, <1>4
  <2>2. QED
    BY <1>1, <1>3, <2>1, LifeGoesOn
<1>5. LifeFits(o)'
  BY <1>1, <1>2, <1>3 DEF LifeFits
<1>6. \A x \in OrderIds : LifeFits(x)'
  BY <1>4, <1>5
<1>7. QED
  BY <1>1, <1>6 DEF LivesFit

-----------------------------------------------------------------------------
(* What is said of an order stays true.                                    *)

\* What no step undoes.
OrdersMove ==
    /\ Known \subseteq Known'
    /\ \A x \in Known :
        /\ terms'[x].user = terms[x].user
        /\ terms[x].placedAt # 0 => terms'[x].placedAt # 0
        /\ terms[x].placedAt = 0 /\ taking[x] = 0 => terms'[x].placedAt = 0 /\ taking'[x] = 0
        /\ "CANCELLED" \in told[x] => "CANCELLED" \in told'[x]
    /\ DOMAIN tape \subseteq DOMAIN tape'

LEMMA KnownAreOrders == \A x \in Known : x \in OrderIds
BY DEF Known

LEMMA SubmitMoves ==
    ASSUME ScreensAssumption, LivesFit,
           NEW o \in OrderIds, NEW u \in Users, NEW s \in Sides, NEW q \in Quantities, Submit(o, u, s, q)
    PROVE  OrdersMove
<1>1. /\ o \notin Known /\ Known' = Known \cup {o}
      /\ \A x \in OrderIds : x # o => terms'[x] = terms[x]
      /\ \A x \in OrderIds : x # o => taking'[x] = taking[x]
      /\ UNCHANGED <<rest, bought, told>>
  BY SubmitAsks
<1>2. tape' = tape
  BY DEF Submit
<1>3. QED
  BY <1>1, <1>2, KnownAreOrders DEF OrdersMove

\* The tape after a trade: one longer, and no earlier at its end.
LEMMA TradeOnTape ==
    ASSUME TapeFits, NEW o \in OrderIds, NEW later \in {0, 1}, Trade(o, later)
    PROVE  /\ TapeFits' /\ tape' # <<>>
           /\ Len(tape') = Len(tape) + 1 /\ Len(tape) \in Nat
           /\ DOMAIN tape = 1..Len(tape) /\ DOMAIN tape' = 1..(Len(tape) + 1)
           /\ \A i \in DOMAIN tape : tape'[i] = tape[i]
<1>1. PICK v \in Seq(Nat) : v = tape /\ \A i, j \in DOMAIN v : i <= j => v[i] <= v[j]
  BY DEF TapeFits
<1>2. PICK n \in Nat : n = Len(v) /\ DOMAIN v = 1..n
  OBVIOUS
<1>3. PICK t : t = (IF tape = <<>> THEN 0 ELSE Last(tape) + later)
  OBVIOUS
<1>4. t \in Nat /\ \A i \in 1..n : v[i] <= t
  <2>1. CASE tape = <<>>
    BY <1>1, <1>2, <1>3, <2>1
  <2>2. CASE tape # <<>>
    <3>1. n # 0
      BY <1>1, <1>2, <2>2
    <3>2. n \in 1..n /\ v[n] \in Nat
      BY <1>2, <3>1
    <3>3. t = v[n] + later
      BY <1>1, <1>2, <1>3, <2>2 DEF Last
    <3>4. later \in Nat
      OBVIOUS
    <3>5. \A i \in 1..n : v[i] \in Nat /\ v[i] <= v[n]
      BY <1>1, <1>2, <3>2
    <3>6. QED
      BY <3>2, <3>3, <3>4, <3>5
  <2>3. QED
    BY <2>1, <2>2
<1>5. tape' = Append(v, t)
  BY <1>1, <1>3 DEF Trade
<1>6. PICK w \in Seq(Nat) : w = tape' /\ Longer(v, t, w)
  BY <1>4, <1>5, AppendIsLonger
<1>7. /\ DOMAIN w = 1..(n + 1) /\ Len(w) = n + 1 /\ w[n + 1] = t
      /\ \A i \in 1..n : w[i] = v[i]
  BY <1>2, <1>6 DEF Longer
<1>8. ASSUME NEW i \in 1..(n + 1), NEW j \in 1..(n + 1), i <= j PROVE w[i] <= w[j]
  <2>1. CASE j = n + 1 /\ i = n + 1
    BY <1>4, <1>7, <2>1
  <2>2. CASE j = n + 1 /\ i # n + 1
    <3>1. i \in 1..n
      BY <2>2
    <3>2. QED
      BY <1>4, <1>7, <2>2, <3>1
  <2>3. CASE j # n + 1
    <3>1. i \in 1..n /\ j \in 1..n
      BY <1>8, <2>3
    <3>2. QED
      BY <1>1, <1>2, <1>7, <1>8, <3>1
  <2>4. QED
    BY <2>1, <2>2, <2>3
<1>9. TapeFits'
  BY <1>6, <1>7, <1>8 DEF TapeFits
<1>10. tape' # <<>>
  BY <1>6, <1>7
<1>11. QED
  BY <1>1, <1>2, <1>6, <1>7, <1>9, <1>10

LEMMA TradeMoves ==
    ASSUME ScreensAssumption, LivesFit, TapeFits,
           NEW o \in OrderIds, NEW later \in {0, 1}, Trade(o, later)
    PROVE  OrdersMove
<1>1. PICK m \in Book, q \in Nat :
        /\ o \in Known /\ m \in Known /\ o \notin Book /\ m # o /\ q # 0
        /\ q <= taking[o] /\ q <= rest[m] /\ taking[o] # 0
        /\ taking' \in [OrderIds -> Nat] /\ taking'[o] = taking[o] - q
        /\ \A x \in OrderIds : x # o => taking'[x] = taking[x]
        /\ rest' \in [OrderIds -> Nat] /\ rest'[m] = rest[m] - q
        /\ \A x \in OrderIds : x # m => rest'[x] = rest[x]
        /\ bought' \in [OrderIds -> Nat] /\ bought'[o] = bought[o] + q /\ bought'[m] = bought[m] + q
        /\ \A x \in OrderIds : x # o /\ x # m => bought'[x] = bought[x]
        /\ UNCHANGED <<terms, told>>
  BY TradeDeals
<1>2. \A x \in OrderIds : taking[x] = 0 => taking'[x] = 0
  BY <1>1
<1>3. Known' = Known
  BY <1>1 DEF Known
<1>4. DOMAIN tape \subseteq DOMAIN tape'
  <2>1. Len(tape) \in Nat /\ DOMAIN tape = 1..Len(tape) /\ DOMAIN tape' = 1..(Len(tape) + 1)
    BY TradeOnTape
  <2>2. QED
    BY <2>1
<1>5. QED
  BY <1>1, <1>2, <1>3, <1>4, KnownAreOrders DEF OrdersMove

LEMMA RestsMoves ==
    ASSUME ScreensAssumption, LivesFit, NEW o \in OrderIds, Rests(o)
    PROVE  OrdersMove
<1>1. /\ o \in Known /\ taking[o] # 0 /\ terms[o].placedAt = 0 /\ Known' = Known
      /\ terms'[o].placedAt = o /\ o # 0
      /\ terms'[o].user = terms[o].user
      /\ \A x \in OrderIds : x # o => terms'[x] = terms[x]
      /\ \A x \in OrderIds : x # o => taking'[x] = taking[x]
      /\ told'[o] = told[o] \cup {"PARTIALLY_FILLED"}
      /\ \A x \in OrderIds : x # o => told'[x] = told[x]
  BY RestsInBook
<1>2. tape' = tape
  BY DEF Rests
<1>3. QED
  BY <1>1, <1>2, KnownAreOrders DEF OrdersMove

LEMMA FillsMoves ==
    ASSUME ScreensAssumption, LivesFit, NEW o \in OrderIds, Fills(o)
    PROVE  OrdersMove
<1>1. /\ told'[o] = told[o] \cup {"FILLED"}
      /\ \A x \in OrderIds : x # o => told'[x] = told[x]
      /\ UNCHANGED <<terms, taking, rest, bought>>
  BY FillsSays
<1>2. tape' = tape
  BY DEF Fills
<1>3. Known' = Known
  BY <1>1 DEF Known
<1>4. QED
  BY <1>1, <1>2, <1>3, KnownAreOrders DEF OrdersMove

LEMMA CancelsMoves ==
    ASSUME ScreensAssumption, LivesFit, NEW o \in OrderIds, Cancels(o)
    PROVE  OrdersMove
<1>1. /\ told'[o] = told[o] \cup {"CANCELLED"}
      /\ \A x \in OrderIds : x # o => told'[x] = told[x]
      /\ UNCHANGED <<terms, taking, bought>>
  BY CancelsWithdraws
<1>2. tape' = tape
  BY DEF Cancels
<1>3. Known' = Known
  BY <1>1 DEF Known
<1>4. QED
  BY <1>1, <1>2, <1>3, KnownAreOrders DEF OrdersMove

LEMMA StayingMoves == ASSUME UNCHANGED <<marketVars, tape>> PROVE OrdersMove
<1>1. UNCHANGED <<terms, taking, told>> /\ tape' = tape
  BY DEF marketVars
<1>2. Known' = Known
  BY <1>1 DEF Known
<1>3. QED
  BY <1>1, <1>2 DEF OrdersMove

-----------------------------------------------------------------------------
(* Events on their way.                                                    *)

LEMMA EventsStillFit ==
    ASSUME OrdersMove, NEW e, EventFits(e)
    PROVE  EventFits(e)'
BY DEF OrdersMove, EventFits

LEMMA AllStillFit ==
    ASSUME NEW w, wire' = w, \A i \in DOMAIN w : EventFits(w[i])'
    PROVE  (\A i \in DOMAIN wire : EventFits(wire[i]))'
BY DEF EventFits

LEMMA OrderOfMore ==
    ASSUME NEW w, NEW e, NEW v, Longer(w, e, v), OrderOfEvents(w),
           e.type = "ORDER_PLACED" => <<"ORDER_CANCELLED", e.order>> \notin Said(w)
    PROVE  OrderOfEvents(v)
<1> SUFFICES ASSUME NEW i \in DOMAIN v, NEW j \in DOMAIN v, i < j,
                    v[i].type = "ORDER_CANCELLED", v[j].type = "ORDER_PLACED"
             PROVE  v[i].order # v[j].order
  BY DEF OrderOfEvents
<1>1. PICK n \in Nat : /\ n = Len(w) /\ DOMAIN w = 1..n /\ DOMAIN v = 1..(n + 1) /\ v[n + 1] = e
                       /\ \A k \in 1..n : v[k] = w[k]
  BY DEF Longer
<1>2. i \in 1..n /\ (j \in 1..n \/ j = n + 1)
  BY <1>1
<1>3. CASE j \in 1..n
  BY <1>1, <1>2, <1>3 DEF OrderOfEvents
<1>4. CASE j = n + 1
  <2>1. <<w[i].type, w[i].order>> \in Said(w)
    BY <1>1, <1>2 DEF Said
  <2>2. QED
    BY <1>1, <1>2, <1>4, <2>1
<1>5. QED
  BY <1>2, <1>3, <1>4

LEMMA OrderOfLess ==
    ASSUME NEW w, NEW v, Shorter(w, v), OrderOfEvents(w)
    PROVE  /\ OrderOfEvents(v)
           /\ w[1].type = "ORDER_CANCELLED" => <<"ORDER_PLACED", w[1].order>> \notin Said(v)
<1>1. PICK n \in Nat : /\ n + 1 = Len(w) /\ DOMAIN w = 1..(n + 1) /\ DOMAIN v = 1..n
                       /\ \A k \in 1..n : v[k] = w[k + 1]
  <2>1. PICK n \in Nat : n + 1 = Len(w) /\ Len(w) - 1 = n
    BY DEF Shorter
  <2>2. QED
    BY <2>1 DEF Shorter
<1>2. \A k \in 1..n : k + 1 \in 1..(n + 1)
  OBVIOUS
<1>3. OrderOfEvents(v)
  <2> SUFFICES ASSUME NEW i \in 1..n, NEW j \in 1..n, i < j,
                      v[i].type = "ORDER_CANCELLED", v[j].type = "ORDER_PLACED"
               PROVE  v[i].order # v[j].order
    BY <1>1 DEF OrderOfEvents
  <2>1. i + 1 \in 1..(n + 1) /\ j + 1 \in 1..(n + 1) /\ i + 1 < j + 1
    OBVIOUS
  <2>2. v[i] = w[i + 1] /\ v[j] = w[j + 1]
    BY <1>1
  <2>3. QED
    BY <1>1, <2>1, <2>2 DEF OrderOfEvents
<1>4. ASSUME w[1].type = "ORDER_CANCELLED", <<"ORDER_PLACED", w[1].order>> \in Said(v) PROVE FALSE
  <2>1. PICK j \in 1..n : v[j].type = "ORDER_PLACED" /\ v[j].order = w[1].order
    BY <1>1, <1>4 DEF Said
  <2>2. 1 \in 1..(n + 1) /\ j + 1 \in 1..(n + 1) /\ 1 < j + 1 /\ v[j] = w[j + 1]
    BY <1>1
  <2>3. QED
    BY <1>1, <1>4, <2>1, <2>2 DEF OrderOfEvents
<1>5. QED
  BY <1>3, <1>4

LEMMA LatestWithOneMore ==
    ASSUME NEW w, NEW e, NEW v, Longer(w, e, v), NEW last, LatestComes(w, last),
           e.type # "TRADE_EXECUTED"
    PROVE  LatestComes(v, last)
<1>1. PICK n \in Nat : /\ n = Len(w) /\ DOMAIN w = 1..n /\ DOMAIN v = 1..(n + 1) /\ v[n + 1] = e
                       /\ \A k \in 1..n : v[k] = w[k]
  BY DEF Longer
<1> SUFFICES ASSUME NEW i \in DOMAIN v, v[i].type = "TRADE_EXECUTED"
             PROVE  \E j \in DOMAIN v : i <= j /\ v[j].type = "TRADE_EXECUTED" /\ v[j].trade = last
  BY DEF LatestComes
<1>2. i \in 1..n
  BY <1>1
<1>3. PICK j \in 1..n : i <= j /\ w[j].type = "TRADE_EXECUTED" /\ w[j].trade = last
  BY <1>1, <1>2 DEF LatestComes
<1>4. j \in DOMAIN v /\ v[j] = w[j]
  BY <1>1
<1>5. QED
  BY <1>3, <1>4

LEMMA LatestIsTheLast ==
    ASSUME NEW w, NEW e, NEW v, Longer(w, e, v), NEW last,
           e.type = "TRADE_EXECUTED", e.trade = last
    PROVE  LatestComes(v, last)
<1>1. PICK n \in Nat : DOMAIN v = 1..(n + 1) /\ v[n + 1] = e
  BY DEF Longer
<1>2. \A i \in DOMAIN v : i <= n + 1 /\ n + 1 \in DOMAIN v
  BY <1>1
<1>3. QED
  BY <1>1, <1>2 DEF LatestComes

LEMMA LatestWithOneLess ==
    ASSUME NEW w, NEW v, Shorter(w, v), NEW last, LatestComes(w, last)
    PROVE  /\ LatestComes(v, last)
           /\ w[1].type = "TRADE_EXECUTED" /\ (\A i \in DOMAIN v : v[i].type # "TRADE_EXECUTED") =>
                w[1].trade = last
<1>1. PICK n \in Nat : /\ DOMAIN w = 1..(n + 1) /\ DOMAIN v = 1..n
                       /\ \A k \in 1..n : v[k] = w[k + 1]
  <2>1. PICK n \in Nat : n + 1 = Len(w) /\ Len(w) - 1 = n
    BY DEF Shorter
  <2>2. QED
    BY <2>1 DEF Shorter
<1>2. ASSUME NEW i \in 1..n, v[i].type = "TRADE_EXECUTED"
      PROVE  \E j \in 1..n : i <= j /\ v[j].type = "TRADE_EXECUTED" /\ v[j].trade = last
  <2>1. i + 1 \in 1..(n + 1) /\ v[i] = w[i + 1]
    BY <1>1
  <2>2. PICK j \in 1..(n + 1) : i + 1 <= j /\ w[j].type = "TRADE_EXECUTED" /\ w[j].trade = last
    BY <1>1, <1>2, <2>1 DEF LatestComes
  <2>3. j - 1 \in 1..n /\ i <= j - 1 /\ (j - 1) + 1 = j
    BY <2>2
  <2>4. v[j - 1] = w[j]
    BY <1>1, <2>3
  <2>5. QED
    BY <2>2, <2>3, <2>4
<1>3. ASSUME w[1].type = "TRADE_EXECUTED", \A i \in DOMAIN v : v[i].type # "TRADE_EXECUTED"
      PROVE  w[1].trade = last
  <2>1. PICK j \in 1..(n + 1) : w[j].type = "TRADE_EXECUTED" /\ w[j].trade = last
    <3>1. 1 \in 1..(n + 1)
      OBVIOUS
    <3>2. QED
      BY <1>1, <1>3, <3>1 DEF LatestComes
  <2>2. CASE j = 1
    BY <2>1, <2>2
  <2>3. CASE j # 1
    <3>1. j - 1 \in 1..n /\ (j - 1) + 1 = j
      BY <2>3
    <3>2. QED
      BY <1>1, <1>3, <2>1, <3>1
  <2>4. QED
    BY <2>2, <2>3
<1>4. QED
  BY <1>1, <1>2, <1>3 DEF LatestComes

\* An event is sent, and everything on its way still fits.
LEMMA WireSent ==
    ASSUME WireFits, OrdersMove, NEW e \in Event, wire' = Append(wire, e), EventFits(e)',
           e.type = "ORDER_PLACED" => <<"ORDER_CANCELLED", e.order>> \notin Said(wire),
           IF e.type = "TRADE_EXECUTED" THEN e.trade = Len(tape') ELSE tape' = tape,
           CancelFollows'
    PROVE  WireFits'
<1>1. PICK w \in Seq(Event) : w = wire
  BY DEF WireFits
<1>2. PICK v \in Seq(Event) : v = wire' /\ Longer(w, e, v)
  BY <1>1, AppendIsLonger
<1>3. PICK n \in Nat : /\ DOMAIN w = 1..n /\ DOMAIN v = 1..(n + 1) /\ v[n + 1] = e
                       /\ \A k \in 1..n : v[k] = w[k]
  BY <1>2 DEF Longer
<1>4. ASSUME NEW i \in 1..(n + 1) PROVE EventFits(v[i])'
  <2>1. CASE i = n + 1
    BY <1>3, <2>1
  <2>2. CASE i # n + 1
    <3>1. i \in 1..n
      BY <2>2
    <3>2. EventFits(w[i])
      BY <1>1, <1>3, <3>1 DEF WireFits
    <3>3. EventFits(w[i])'
      BY <3>2, EventsStillFit
    <3>4. QED
      BY <1>3, <3>1, <3>3
  <2>3. QED
    BY <2>1, <2>2
<1>5. OrderOfEvents(v)
  <2>1. OrderOfEvents(w) /\ (e.type = "ORDER_PLACED" => <<"ORDER_CANCELLED", e.order>> \notin Said(w))
    BY <1>1 DEF WireFits
  <2>2. QED
    BY <1>2, <2>1, OrderOfMore
<1>6. PICK last : last = Len(tape')
  OBVIOUS
<1>7. LatestComes(v, last)
  <2>1. CASE e.type = "TRADE_EXECUTED"
    BY <1>2, <1>6, <2>1, LatestIsTheLast
  <2>2. CASE e.type # "TRADE_EXECUTED"
    <3>1. last = Len(tape)
      BY <1>6, <2>2
    <3>2. LatestComes(w, last)
      BY <1>1, <3>1 DEF WireFits
    <3>3. QED
      BY <1>2, <2>2, <3>2, LatestWithOneMore
  <2>3. QED
    BY <2>1, <2>2
<1>8. (\A i \in DOMAIN wire : EventFits(wire[i]))'
  BY <1>2, <1>3, <1>4, AllStillFit
<1>9. wire' \in Seq(Event) /\ OrderOfEvents(wire') /\ LatestComes(wire', Len(tape'))
  BY <1>2, <1>5, <1>6, <1>7
<1>10. QED
  BY <1>8, <1>9 DEF WireFits

\* Nothing is sent.
LEMMA WireStays ==
    ASSUME WireFits, OrdersMove, wire' = wire, tape' = tape, CancelFollows'
    PROVE  WireFits'
<1>1. PICK w \in Seq(Event) : w = wire /\ wire' = w
  BY DEF WireFits
<1>2. ASSUME NEW i \in DOMAIN w PROVE EventFits(w[i])'
  <2>1. EventFits(w[i])
    BY <1>1 DEF WireFits
  <2>2. QED
    BY <2>1, EventsStillFit
<1>3. (\A i \in DOMAIN wire : EventFits(wire[i]))'
  BY <1>1, <1>2, AllStillFit
<1>4. QED
  BY <1>1, <1>3 DEF WireFits

LEMMA QuietWire == ASSUME WireFits, UNCHANGED <<marketVars, tape, wire>> PROVE WireFits'
<1>1. OrdersMove
  BY StayingMoves
<1>2. CancelFollows'
  BY DEF WireFits, CancelFollows, Mine, Known, marketVars
<1>3. QED
  BY <1>1, <1>2, WireStays

\* Nothing on its way speaks of an order that nobody has asked for.
LEMMA SaidOfKnown ==
    ASSUME WireFits, NEW o
    PROVE  /\ <<"ORDER_PLACED", o>> \in Said(wire) => o \in Known /\ terms[o].placedAt # 0
           /\ <<"ORDER_CANCELLED", o>> \in Said(wire) =>
                o \in Known /\ terms[o].placedAt # 0 /\ "CANCELLED" \in told[o]
           /\ <<"ORDER_FILLED", o>> \in Said(wire) =>
                o \in Known /\ terms[o].placedAt = 0 /\ taking[o] = 0
<1>1. \A i \in DOMAIN wire : EventFits(wire[i])
  BY DEF WireFits
<1>2. \A t : <<t, o>> \in Said(wire) => \E i \in DOMAIN wire : wire[i].type = t /\ wire[i].order = o
  BY DEF Said
<1>3. QED
  BY <1>1, <1>2 DEF EventFits

LEMMA SubmitWire ==
    ASSUME ScreensAssumption, LivesFit, WireFits,
           NEW o \in OrderIds, NEW u \in Users, NEW s \in Sides, NEW q \in Quantities, Submit(o, u, s, q)
    PROVE  WireFits'
<1>1. /\ o \notin Known /\ Known' = Known \cup {o}
      /\ \A x \in OrderIds : x # o => terms'[x] = terms[x]
      /\ UNCHANGED <<rest, bought, told>>
  BY SubmitAsks
<1>2. OrdersMove /\ tape' = tape /\ wire' = wire
  BY SubmitMoves DEF Submit
<1>3. <<"ORDER_PLACED", o>> \notin Said(wire)
  BY <1>1, SaidOfKnown
<1>4. CancelFollows'
  <2> SUFFICES ASSUME NEW x \in Mine', <<"ORDER_PLACED", x>> \in Said(wire), "CANCELLED" \in told[x]
               PROVE  <<"ORDER_CANCELLED", x>> \in Said(wire)
    BY <1>1, <1>2 DEF CancelFollows
  <2>1. x # o /\ x \in Mine
    BY <1>1, <1>3, KnownAreOrders DEF Mine
  <2>2. QED
    BY <2>1 DEF WireFits, CancelFollows
<1>5. QED
  BY <1>2, <1>4, WireStays

LEMMA TradeWire ==
    ASSUME ScreensAssumption, LivesFit, TapeFits, WireFits,
           NEW o \in OrderIds, NEW later \in {0, 1}, Trade(o, later)
    PROVE  WireFits'
<1>1. PICK m \in Book, q \in Nat : UNCHANGED <<terms, told>>
  BY TradeDeals
<1>2. OrdersMove
  BY TradeMoves
<1>3. PICK n \in Nat : Len(tape) = n /\ Len(tape') = n + 1 /\ DOMAIN tape' = 1..(n + 1)
  BY TradeOnTape
<1>4. PICK e : e = [type |-> "TRADE_EXECUTED", order |-> o, trade |-> n + 1]
  OBVIOUS
<1>5. e \in Event /\ e.type = "TRADE_EXECUTED" /\ e.trade = n + 1
  BY <1>4 DEF Event
<1>6. wire' = Append(wire, e)
  BY <1>3, <1>4 DEF Trade, Sends
<1>7. EventFits(e)'
  BY <1>3, <1>5 DEF EventFits
<1>8. Said(wire') = Said(wire) \cup {<<"TRADE_EXECUTED", e.order>>}
  <2>1. Longer(wire, e, wire')
    BY <1>6, AppendIsLonger DEF WireFits
  <2>2. QED
    BY <1>5, <2>1, SaidWithOneMore
<1>9. CancelFollows'
  BY <1>1, <1>8 DEF WireFits, CancelFollows, Mine, Known
<1>10. QED
  BY <1>2, <1>3, <1>5, <1>6, <1>7, <1>9, WireSent

\* An event other than a trade is sent: what is said then.
LEMMA SentIsSaid ==
    ASSUME WireFits, NEW type \in {"ORDER_PLACED", "ORDER_FILLED", "ORDER_CANCELLED"}, NEW o \in OrderIds,
           Sends([type |-> type, order |-> o])
    PROVE  \E e \in Event : /\ e.type = type /\ e.order = o
                            /\ wire' = Append(wire, e) /\ Longer(wire, e, wire')
                            /\ Said(wire') = Said(wire) \cup {<<type, o>>}
<1>1. PICK e : e = [type |-> type, order |-> o]
  OBVIOUS
<1>2. e \in Event /\ e.type = type /\ e.order = o
  BY <1>1 DEF Event
<1>3. wire' = Append(wire, e)
  BY <1>1 DEF Sends
<1>4. Longer(wire, e, wire')
  BY <1>3, AppendIsLonger DEF WireFits
<1>5. Said(wire') = Said(wire) \cup {<<type, o>>}
  BY <1>2, <1>4, SaidWithOneMore
<1>6. QED
  BY <1>2, <1>3, <1>4, <1>5

LEMMA RestsWire ==
    ASSUME ScreensAssumption, LivesFit, WireFits, NEW o \in OrderIds, Rests(o)
    PROVE  WireFits'
<1>1. /\ o \in Known /\ taking[o] # 0 /\ terms[o].placedAt = 0 /\ Known' = Known
      /\ terms'[o].placedAt = o /\ o # 0
      /\ terms'[o].user = terms[o].user
      /\ \A x \in OrderIds : x # o => terms'[x] = terms[x]
      /\ told'[o] = told[o] \cup {"PARTIALLY_FILLED"}
      /\ \A x \in OrderIds : x # o => told'[x] = told[x]
  BY RestsInBook
<1>2. OrdersMove /\ tape' = tape /\ Sends([type |-> "ORDER_PLACED", order |-> o])
  BY RestsMoves DEF Rests
<1>3. PICK e \in Event : /\ e.type = "ORDER_PLACED" /\ e.order = o
                         /\ wire' = Append(wire, e)
                         /\ Said(wire') = Said(wire) \cup {<<"ORDER_PLACED", o>>}
  BY <1>2, SentIsSaid
<1>4. EventFits(e)'
  BY <1>1, <1>3 DEF EventFits
<1>5. <<"ORDER_CANCELLED", o>> \notin Said(wire)
  BY <1>1, SaidOfKnown
<1>6. "CANCELLED" \notin told'[o]
  BY <1>1 DEF LivesFit, LifeFits
<1>7. CancelFollows'
  <2> SUFFICES ASSUME NEW x \in Mine', <<"ORDER_PLACED", x>> \in Said(wire'), "CANCELLED" \in told'[x]
               PROVE  <<"ORDER_CANCELLED", x>> \in Said(wire')
    BY DEF CancelFollows
  <2>1. x # o /\ x \in Mine
    BY <1>1, <1>6, KnownAreOrders DEF Mine
  <2>2. <<"ORDER_PLACED", x>> \in Said(wire) /\ "CANCELLED" \in told[x]
    BY <1>1, <1>3, <2>1, KnownAreOrders DEF Mine
  <2>3. QED
    BY <1>3, <2>1, <2>2 DEF WireFits, CancelFollows
<1>8. QED
  BY <1>2, <1>3, <1>4, <1>5, <1>7, WireSent

LEMMA FillsWire ==
    ASSUME ScreensAssumption, LivesFit, WireFits, NEW o \in OrderIds, Fills(o)
    PROVE  WireFits'
<1>1. /\ o \in Known /\ terms[o].placedAt = 0 /\ taking[o] = 0
      /\ told'[o] = told[o] \cup {"FILLED"}
      /\ \A x \in OrderIds : x # o => told'[x] = told[x]
      /\ UNCHANGED <<terms, taking, rest, bought>>
  BY FillsSays
<1>2. OrdersMove /\ tape' = tape /\ SendsToOwner(o, [type |-> "ORDER_FILLED", order |-> o])
  BY FillsMoves DEF Fills
<1>3. Mine' = Mine /\ Known' = Known /\ \A x \in Mine : "CANCELLED" \in told'[x] => "CANCELLED" \in told[x]
  <2>1. Mine' = Mine /\ Known' = Known
    BY <1>1 DEF Mine, Known
  <2>2. ASSUME NEW x \in Mine, "CANCELLED" \in told'[x] PROVE "CANCELLED" \in told[x]
    <3>1. x \in OrderIds
      BY DEF Mine, Known
    <3>2. told'[x] = told[x] \/ told'[x] = told[x] \cup {"FILLED"}
      BY <1>1, <3>1
    <3>3. QED
      BY <2>2, <3>2
  <2>3. QED
    BY <2>1, <2>2
<1>4. CASE terms[o].user = Me
  <2>1. PICK e \in Event : /\ e.type = "ORDER_FILLED" /\ e.order = o
                           /\ wire' = Append(wire, e)
                           /\ Said(wire') = Said(wire) \cup {<<"ORDER_FILLED", o>>}
    BY <1>2, <1>4, SentIsSaid DEF SendsToOwner
  <2>2. EventFits(e)'
    BY <1>1, <1>3, <2>1 DEF EventFits
  <2>3. CancelFollows'
    BY <1>3, <2>1 DEF WireFits, CancelFollows
  <2>4. QED
    BY <1>2, <2>1, <2>2, <2>3, WireSent
<1>5. CASE terms[o].user # Me
  <2>1. wire' = wire
    BY <1>2, <1>5 DEF SendsToOwner
  <2>2. CancelFollows'
    BY <1>3, <2>1 DEF WireFits, CancelFollows
  <2>3. QED
    BY <1>2, <2>1, <2>2, WireStays
<1>6. QED
  BY <1>4, <1>5

LEMMA CancelsWire ==
    ASSUME ScreensAssumption, LivesFit, WireFits, NEW o \in OrderIds, Cancels(o)
    PROVE  WireFits'
<1>1. /\ o \in Known /\ terms[o].placedAt # 0 /\ taking[o] = 0
      /\ told'[o] = told[o] \cup {"CANCELLED"}
      /\ \A x \in OrderIds : x # o => told'[x] = told[x]
      /\ UNCHANGED <<terms, taking, bought>>
  BY CancelsWithdraws
<1>2. OrdersMove /\ tape' = tape /\ SendsToOwner(o, [type |-> "ORDER_CANCELLED", order |-> o])
  BY CancelsMoves DEF Cancels
<1>3. /\ Mine' = Mine /\ Known' = Known
      /\ \A x \in Mine : x # o /\ "CANCELLED" \in told'[x] => "CANCELLED" \in told[x]
  BY <1>1, KnownAreOrders DEF Mine, Known
<1>4. CASE terms[o].user = Me
  <2>1. PICK e \in Event : /\ e.type = "ORDER_CANCELLED" /\ e.order = o
                           /\ wire' = Append(wire, e)
                           /\ Said(wire') = Said(wire) \cup {<<"ORDER_CANCELLED", o>>}
    BY <1>2, <1>4, SentIsSaid DEF SendsToOwner
  <2>2. EventFits(e)'
    BY <1>1, <1>3, <2>1 DEF EventFits
  <2>3. CancelFollows'
    BY <1>3, <2>1 DEF WireFits, CancelFollows
  <2>4. QED
    BY <1>2, <2>1, <2>2, <2>3, WireSent
<1>5. CASE terms[o].user # Me
  <2>1. wire' = wire
    BY <1>2, <1>5 DEF SendsToOwner
  <2>2. o \notin Mine
    BY <1>5 DEF Mine
  <2>3. CancelFollows'
    BY <1>3, <2>1, <2>2 DEF WireFits, CancelFollows
  <2>4. QED
    BY <1>2, <2>1, <2>3, WireStays
<1>6. QED
  BY <1>4, <1>5

LEMMA DropWire == ASSUME WireFits, Drop PROVE WireFits'
<1>1. wire' = <<>> /\ tape' = tape
  BY DEF Drop
<1>2. <<>> \in Seq(Event) /\ DOMAIN <<>> = {}
  OBVIOUS
<1>3. Said(<<>>) = {}
  BY <1>2 DEF Said
<1>4. CancelFollows'
  BY <1>1, <1>3 DEF CancelFollows
<1>5. OrderOfEvents(<<>>) /\ \A last : LatestComes(<<>>, last)
  BY <1>2 DEF OrderOfEvents, LatestComes
<1>6. QED
  BY <1>1, <1>2, <1>4, <1>5 DEF WireFits

\* What the page hears is taken off.
LEMMA HearTakes ==
    ASSUME WireFits, Hear
    PROVE  /\ wire # <<>> /\ Shorter(wire, wire') /\ wire' \in Seq(Event)
           /\ wire[1] \in Event /\ Head(wire) = wire[1] /\ EventFits(wire[1])
           /\ Said(wire) = Said(wire') \cup {<<wire[1].type, wire[1].order>>}
           /\ UNCHANGED <<marketVars, tape>>
<1>1. wire # <<>> /\ wire' = Tail(wire) /\ UNCHANGED <<marketVars, tape>>
  BY DEF Hear
<1>2. wire \in Seq(Event)
  BY DEF WireFits
<1>3. Shorter(wire, wire') /\ wire' \in Seq(Event) /\ Head(wire) \in Event
  BY <1>1, <1>2, TailIsShorter
<1>4. Head(wire) = wire[1] /\ DOMAIN wire = 1..Len(wire) /\ Len(wire) \in Nat \ {0}
  BY <1>3 DEF Shorter
<1>5. 1 \in DOMAIN wire
  BY <1>4
<1>6. EventFits(wire[1])
  BY <1>5 DEF WireFits
<1>7. QED
  BY <1>1, <1>3, <1>4, <1>6, SaidWithOneLess

LEMMA HearWire == ASSUME WireFits, Hear PROVE WireFits'
<1>1. /\ wire # <<>> /\ Shorter(wire, wire') /\ wire' \in Seq(Event)
      /\ Said(wire) = Said(wire') \cup {<<wire[1].type, wire[1].order>>}
      /\ UNCHANGED <<marketVars, tape>>
  BY HearTakes
<1>2. PICK w, v : w = wire /\ v = wire'
  OBVIOUS
<1>3. PICK last : last = Len(tape)
  OBVIOUS
<1>4. OrderOfEvents(v) /\ (w[1].type = "ORDER_CANCELLED" => <<"ORDER_PLACED", w[1].order>> \notin Said(v))
  BY <1>1, <1>2, OrderOfLess DEF WireFits
<1>5. LatestComes(v, last)
  BY <1>1, <1>2, <1>3, LatestWithOneLess DEF WireFits
<1>6. ASSUME NEW i \in DOMAIN v PROVE EventFits(v[i])'
  <2>1. i + 1 \in DOMAIN w /\ v[i] = w[i + 1]
    BY <1>1, <1>2 DEF Shorter
  <2>2. EventFits(v[i])
    BY <1>2, <2>1 DEF WireFits
  <2>3. OrdersMove
    BY <1>1, StayingMoves
  <2>4. QED
    BY <2>2, <2>3, EventsStillFit
<1>7. Mine' = Mine /\ told' = told
  BY <1>1 DEF Mine, Known, marketVars
<1>8. CancelFollows'
  <2> SUFFICES ASSUME NEW x \in Mine, <<"ORDER_PLACED", x>> \in Said(v), "CANCELLED" \in told[x]
               PROVE  <<"ORDER_CANCELLED", x>> \in Said(v)
    BY <1>2, <1>7 DEF CancelFollows
  <2>1. <<"ORDER_CANCELLED", x>> \in Said(w)
    BY <1>1, <1>2 DEF WireFits, CancelFollows
  <2>2. QED
    BY <1>1, <1>2, <1>4, <2>1
<1>9. (\A i \in DOMAIN wire : EventFits(wire[i]))'
  BY <1>2, <1>6, AllStillFit
<1>10. QED
  BY <1>1, <1>2, <1>3, <1>4, <1>5, <1>8, <1>9 DEF WireFits

-----------------------------------------------------------------------------
(* Requests and their answers.                                             *)

LEMMA MineStaysMine == ASSUME OrdersMove PROVE Mine \subseteq Mine'
BY DEF OrdersMove, Mine

LEMMA SequencesWiden == ASSUME NEW S, NEW T, S \subseteq T, NEW s \in Seq(S) PROVE s \in Seq(T)
<1>1. Len(s) \in Nat /\ DOMAIN s = 1..Len(s) /\ s \in [1..Len(s) -> S]
  OBVIOUS
<1>2. s \in [1..Len(s) -> T]
  BY <1>1
<1>3. QED
  BY <1>1, <1>2

LEMMA DataStillFits ==
    ASSUME OrdersMove, page'.name = page.name, NEW data, DataFits(data)
    PROVE  DataFits(data)'
<1>1. Mine \subseteq Mine' /\ DOMAIN tape \subseteq DOMAIN tape'
  BY MineStaysMine DEF OrdersMove
<1>2. ASSUME data \in Seq(DOMAIN tape) PROVE data \in Seq(DOMAIN tape')
  <2>1. PICK S, T : S = DOMAIN tape /\ T = DOMAIN tape' /\ S \subseteq T
    BY <1>1
  <2>2. data \in Seq(S)
    BY <1>2, <2>1
  <2>3. data \in Seq(T)
    BY <2>1, <2>2, SequencesWiden
  <2>4. QED
    BY <2>1, <2>3
<1>3. QED
  BY <1>1, <1>2 DEF DataFits

\* The requests after a step, all of them or all but one as they were.
LEMMA RequestsFitAgain ==
    ASSUME NEW q, request' = q, q \in Seq(Elements(q)),
           \A r \in DOMAIN q : q[r].at \in {"asked", "answered", "failed", "done"},
           \A r \in DOMAIN q : q[r].at = "answered" => DataFits(q[r].data)',
           ~page'.mounted <=> q = <<>>
    PROVE  RequestsFit'
<1>1. (\A r \in DOMAIN request : request[r].at = "answered" => DataFits(request[r].data))'
  BY DEF DataFits
<1>2. QED
  BY <1>1 DEF RequestsFit

LEMMA RequestsStay ==
    ASSUME RequestsFit, OrdersMove, UNCHANGED <<page, request>>
    PROVE  RequestsFit'
<1>1. PICK q : q = request /\ request' = q
  OBVIOUS
<1>2. ASSUME NEW r \in DOMAIN q, q[r].at = "answered" PROVE DataFits(q[r].data)'
  <2>1. PICK d : d = q[r].data
    OBVIOUS
  <2>2. DataFits(d)
    BY <1>1, <1>2, <2>1 DEF RequestsFit, DataFits
  <2>3. DataFits(d)'
    BY <2>2, DataStillFits
  <2>4. QED
    BY <2>1, <2>3
<1>3. /\ q \in Seq(Elements(q))
      /\ \A r \in DOMAIN q : q[r].at \in {"asked", "answered", "failed", "done"}
      /\ ~page'.mounted <=> q = <<>>
  BY <1>1 DEF RequestsFit
<1>4. QED
  BY <1>1, <1>2, <1>3, RequestsFitAgain

LEMMA RequestsAsk ==
    ASSUME RequestsFit, OrdersMove, Asks, page'.name = page.name, page'.mounted
    PROVE  /\ RequestsFit'
           /\ \E e : e.at = "asked" /\ Longer(request, e, request')
<1>1. PICK e : e = [at |-> "asked"]
  OBVIOUS
<1>2. e.at = "asked"
  BY <1>1
<1>3. PICK q, v : q = request /\ v = request'
  OBVIOUS
<1>4. q \in Seq(Elements(q)) /\ v = Append(q, e)
  BY <1>1, <1>3 DEF RequestsFit, Asks
<1>5. Longer(q, e, v) /\ v \in Seq(Elements(v))
  BY <1>4, AppendIsLonger
<1>6. PICK n \in Nat : /\ DOMAIN q = 1..n /\ DOMAIN v = 1..(n + 1) /\ v[n + 1] = e
                       /\ \A k \in 1..n : v[k] = q[k]
  BY <1>5 DEF Longer
<1>7. ASSUME NEW r \in 1..(n + 1)
      PROVE  /\ v[r].at \in {"asked", "answered", "failed", "done"}
             /\ v[r].at = "answered" => DataFits(v[r].data)'
  <2>1. CASE r = n + 1
    BY <1>2, <1>6, <2>1
  <2>2. CASE r # n + 1
    <3>1. r \in 1..n
      BY <2>2
    <3>2. PICK x : x = q[r] /\ x = v[r]
      BY <1>6, <3>1
    <3>3. x.at \in {"asked", "answered", "failed", "done"}
      BY <1>3, <1>6, <3>1, <3>2 DEF RequestsFit
    <3>4. PICK d : d = x.data
      OBVIOUS
    <3>5. ASSUME x.at = "answered" PROVE DataFits(d)'
      <4>1. DataFits(d)
        BY <1>3, <1>6, <3>1, <3>2, <3>4, <3>5 DEF RequestsFit, DataFits
      <4>2. QED
        BY <4>1, DataStillFits
    <3>6. QED
      BY <3>2, <3>3, <3>4, <3>5
  <2>3. QED
    BY <2>1, <2>2
<1>8. v # <<>>
  BY <1>6
<1>9. RequestsFit'
  BY <1>3, <1>5, <1>6, <1>7, <1>8, RequestsFitAgain
<1>10. QED
  BY <1>2, <1>3, <1>5, <1>9

LEMMA RequestsChange ==
    ASSUME RequestsFit, OrdersMove, page' = page,
           NEW r \in DOMAIN request, NEW x, request' = [request EXCEPT ![r] = x],
           x.at \in {"asked", "answered", "failed", "done"},
           x.at = "answered" => DataFits(x.data)'
    PROVE  RequestsFit' /\ Changed(request, r, x, request')
<1>1. PICK q, v : q = request /\ v = request'
  OBVIOUS
<1>2. q \in Seq(Elements(q)) /\ v = [q EXCEPT ![r] = x] /\ r \in DOMAIN q
  BY <1>1 DEF RequestsFit
<1>3. Changed(q, r, x, v) /\ v \in Seq(Elements(v))
  BY <1>2, ExceptIsChanged
<1>4. PICK n \in Nat : /\ DOMAIN q = 1..n /\ DOMAIN v = 1..n /\ v[r] = x
                       /\ \A k \in 1..n : k # r => v[k] = q[k]
  BY <1>3 DEF Changed
<1>5. ASSUME NEW s \in 1..n
      PROVE  /\ v[s].at \in {"asked", "answered", "failed", "done"}
             /\ v[s].at = "answered" => DataFits(v[s].data)'
  <2>1. CASE s = r
    BY <1>4, <2>1
  <2>2. CASE s # r
    <3>2. PICK y : y = q[s] /\ y = v[s]
      BY <1>4, <2>2
    <3>3. y.at \in {"asked", "answered", "failed", "done"}
      BY <1>1, <1>4, <3>2 DEF RequestsFit
    <3>4. PICK d : d = y.data
      OBVIOUS
    <3>5. ASSUME y.at = "answered" PROVE DataFits(d)'
      <4>1. DataFits(d)
        BY <1>1, <1>4, <3>2, <3>4, <3>5 DEF RequestsFit, DataFits
      <4>2. QED
        BY <4>1, DataStillFits
    <3>6. QED
      BY <3>2, <3>3, <3>4, <3>5
  <2>3. QED
    BY <2>1, <2>2
<1>6. q # <<>> /\ v # <<>> /\ page.mounted
  BY <1>1, <1>2, <1>4 DEF RequestsFit
<1>7. RequestsFit'
  BY <1>1, <1>3, <1>4, <1>5, <1>6, RequestsFitAgain
<1>8. QED
  BY <1>1, <1>3, <1>7

LEMMA BookHasPlaced ==
    ASSUME LivesFit
    PROVE  \A o \in Book : o \in Known /\ terms[o].placedAt # 0 /\ "CANCELLED" \notin told[o]
<1> SUFFICES ASSUME NEW o \in Book PROVE o \in Known /\ terms[o].placedAt # 0 /\ "CANCELLED" \notin told[o]
  OBVIOUS
<1>1. o \in OrderIds /\ rest[o] # 0 /\ LifeFits(o)
  BY DEF Book, LivesFit
<1>2. QED
  BY <1>1 DEF LifeFits

\* What the server answers.
LEMMA AnswerHas ==
    ASSUME ScreensAssumption, LivesFit, TapeFits, PageFits, RequestsFit, NEW r \in DOMAIN request, Answer(r)
    PROVE  \E x : /\ request' = [request EXCEPT ![r] = x] /\ x.at = "answered"
                  /\ page.name = "orders" => x.data = OpenOrders
                  /\ page.name = "book" => x.data = Levels
                  /\ page.name = "trades" => x.data = Recent
                  /\ DataFits(x.data)
<1>1. PICK d : d = CASE page.name = "orders" -> OpenOrders
                     [] page.name = "book"   -> Levels
                     [] page.name = "trades" -> Recent
  OBVIOUS
<1>2. /\ page.name = "orders" => d = OpenOrders
      /\ page.name = "book" => d = Levels
      /\ page.name = "trades" => d = Recent
  BY <1>1
<1>3. PICK x : x = [at |-> "answered", data |-> d]
  OBVIOUS
<1>4. x.at = "answered" /\ x.data = d
  BY <1>3
<1>5. request' = [request EXCEPT ![r] = x]
  BY <1>1, <1>3 DEF Answer
<1>6. OpenOrders \subseteq Mine
  BY BookHasPlaced DEF OpenOrders, Mine
<1>7. Recent \in Seq(DOMAIN tape) /\ Len(Recent) <= Limit
  BY RecentFits
<1>8. DataFits(d)
  BY <1>2, <1>6, <1>7 DEF DataFits
<1>9. DataFits(x.data)
  BY <1>4, <1>8 DEF DataFits
<1>10. QED
  BY <1>2, <1>4, <1>5, <1>9

-----------------------------------------------------------------------------
(* Every step, for the market, the wire and the requests.                  *)

BaseInv == LivesFit /\ TapeFits /\ WireFits /\ RequestsFit /\ PageFits

\* The steps that leave the exchange alone.
LEMMA QuietSteps ==
    ASSUME BaseInv, UNCHANGED <<marketVars, tape>>
    PROVE  LivesFit' /\ TapeFits' /\ OrdersMove /\ Mine' = Mine
<1>1. LivesFit'
  BY DEF BaseInv, LivesFit, LifeFits, Known, marketVars
<1>2. TapeFits'
  BY DEF BaseInv, TapeFits
<1>3. QED
  BY <1>1, <1>2, StayingMoves DEF Mine, Known, marketVars

\* The steps that leave the page alone.
LEMMA PageStays ==
    ASSUME BaseInv, OrdersMove, UNCHANGED pageVars, raced' \in BOOLEAN, unannounced' \in BOOLEAN
    PROVE  RequestsFit' /\ PageFits'
<1>1. /\ UNCHANGED <<page, request>>
      /\ UNCHANGED <<error, shownOrders, shownLevels, shownTrades, liveArrived>>
  BY DEF pageVars
<1>2. RequestsFit'
  BY <1>1, RequestsStay DEF BaseInv
<1>3. shownOrders' \subseteq Mine'
  BY <1>1, MineStaysMine DEF BaseInv, PageFits
<1>4. shownTrades \in Seq(DOMAIN tape')
  <2>1. PICK S, T : S = DOMAIN tape /\ T = DOMAIN tape' /\ S \subseteq T
    BY DEF OrdersMove
  <2>2. shownTrades \in Seq(S)
    BY <2>1 DEF BaseInv, PageFits
  <2>3. shownTrades \in Seq(T)
    BY <2>1, <2>2, SequencesWiden
  <2>4. QED
    BY <2>1, <2>3
<1>5. QED
  BY <1>1, <1>2, <1>3, <1>4 DEF BaseInv, PageFits

LEMMA SubmitBase ==
    ASSUME ScreensAssumption, BaseInv,
           NEW o \in OrderIds, NEW u \in Users, NEW s \in Sides, NEW q \in Quantities, Submit(o, u, s, q)
    PROVE  BaseInv' /\ OrdersMove
<1>1. LivesFit' /\ WireFits' /\ OrdersMove
  BY SubmitLives, SubmitWire, SubmitMoves DEF BaseInv
<1>2. UNCHANGED <<tape, wire, drops, pageVars, raced, unannounced>>
  BY DEF Submit
<1>3. TapeFits' /\ raced' \in BOOLEAN /\ unannounced' \in BOOLEAN
  BY <1>2 DEF BaseInv, TapeFits, PageFits
<1>4. RequestsFit' /\ PageFits'
  BY <1>1, <1>2, <1>3, PageStays
<1>5. QED
  BY <1>1, <1>3, <1>4 DEF BaseInv

LEMMA TradeBase ==
    ASSUME ScreensAssumption, BaseInv, NEW o \in OrderIds, NEW later \in {0, 1}, Trade(o, later)
    PROVE  BaseInv' /\ OrdersMove
<1>1. LivesFit' /\ WireFits' /\ TapeFits' /\ OrdersMove
  BY TradeLives, TradeWire, TradeOnTape, TradeMoves DEF BaseInv
<1>2. UNCHANGED pageVars /\ raced' = raced /\ unannounced' = TRUE
  BY DEF Trade
<1>3. raced' \in BOOLEAN /\ unannounced' \in BOOLEAN
  BY <1>2 DEF BaseInv, PageFits
<1>4. RequestsFit' /\ PageFits'
  BY <1>1, <1>2, <1>3, PageStays
<1>5. QED
  BY <1>1, <1>4 DEF BaseInv

LEMMA RestsBase ==
    ASSUME ScreensAssumption, BaseInv, NEW o \in OrderIds, Rests(o)
    PROVE  BaseInv' /\ OrdersMove
<1>1. LivesFit' /\ WireFits' /\ OrdersMove
  BY RestsLives, RestsWire, RestsMoves DEF BaseInv
<1>2. UNCHANGED pageVars /\ tape' = tape /\ raced' = raced /\ unannounced' = FALSE
  BY DEF Rests
<1>3. TapeFits' /\ raced' \in BOOLEAN /\ unannounced' \in BOOLEAN
  BY <1>2 DEF BaseInv, TapeFits, PageFits
<1>4. RequestsFit' /\ PageFits'
  BY <1>1, <1>2, <1>3, PageStays
<1>5. QED
  BY <1>1, <1>3, <1>4 DEF BaseInv

LEMMA FillsBase ==
    ASSUME ScreensAssumption, BaseInv, NEW o \in OrderIds, Fills(o)
    PROVE  BaseInv' /\ OrdersMove
<1>1. LivesFit' /\ WireFits' /\ OrdersMove
  BY FillsLives, FillsWire, FillsMoves DEF BaseInv
<1>2. UNCHANGED pageVars /\ tape' = tape /\ raced' = raced /\ unannounced' = unannounced
  BY DEF Fills
<1>3. TapeFits' /\ raced' \in BOOLEAN /\ unannounced' \in BOOLEAN
  BY <1>2 DEF BaseInv, TapeFits, PageFits
<1>4. RequestsFit' /\ PageFits'
  BY <1>1, <1>2, <1>3, PageStays
<1>5. QED
  BY <1>1, <1>3, <1>4 DEF BaseInv

LEMMA CancelsBase ==
    ASSUME ScreensAssumption, BaseInv, NEW o \in OrderIds, Cancels(o)
    PROVE  BaseInv' /\ OrdersMove
<1>1. LivesFit' /\ WireFits' /\ OrdersMove
  BY CancelsLives, CancelsWire, CancelsMoves DEF BaseInv
<1>2. UNCHANGED pageVars /\ tape' = tape /\ raced' = raced /\ unannounced' = (terms[o].user # Me)
  BY DEF Cancels
<1>3. TapeFits' /\ raced' \in BOOLEAN /\ unannounced' \in BOOLEAN
  BY <1>2 DEF BaseInv, TapeFits, PageFits
<1>4. RequestsFit' /\ PageFits'
  BY <1>1, <1>2, <1>3, PageStays
<1>5. QED
  BY <1>1, <1>3, <1>4 DEF BaseInv

LEMMA DropBase == ASSUME BaseInv, Drop PROVE BaseInv'
<1>1. UNCHANGED <<marketVars, tape, pageVars, unannounced>> /\ raced' = TRUE
  BY DEF Drop
<1>2. LivesFit' /\ TapeFits' /\ OrdersMove
  BY <1>1, QuietSteps
<1>3. WireFits'
  BY DropWire DEF BaseInv
<1>4. raced' \in BOOLEAN /\ unannounced' \in BOOLEAN
  BY <1>1 DEF BaseInv, PageFits
<1>5. RequestsFit' /\ PageFits'
  BY <1>1, <1>2, <1>4, PageStays
<1>6. QED
  BY <1>2, <1>3, <1>5 DEF BaseInv

LEMMA AnswerBase ==
    ASSUME ScreensAssumption, BaseInv, NEW r \in DOMAIN request, Answer(r)
    PROVE  /\ BaseInv'
           /\ \E x : /\ Changed(request, r, x, request') /\ x.at = "answered"
                     /\ page.name = "orders" => x.data = OpenOrders
                     /\ page.name = "book" => x.data = Levels
                     /\ page.name = "trades" => x.data = Recent
<1>1. /\ UNCHANGED <<marketVars, tape>> /\ UNCHANGED <<wire, page, error, shownOrders, shownLevels>>
      /\ UNCHANGED <<shownTrades, liveArrived, raced>>
      /\ unannounced' = IF page.name = "book" THEN FALSE ELSE unannounced
  BY DEF Answer
<1>2. LivesFit' /\ TapeFits' /\ OrdersMove /\ Mine' = Mine
  BY <1>1, QuietSteps
<1>3. WireFits'
  BY <1>1, QuietWire DEF BaseInv
<1>4. PICK x : /\ request' = [request EXCEPT ![r] = x] /\ x.at = "answered"
               /\ page.name = "orders" => x.data = OpenOrders
               /\ page.name = "book" => x.data = Levels
               /\ page.name = "trades" => x.data = Recent
               /\ DataFits(x.data)
  BY AnswerHas DEF BaseInv
<1>5. DataFits(x.data)'
  BY <1>1, <1>2, <1>4, DataStillFits
<1>6. RequestsFit' /\ Changed(request, r, x, request')
  BY <1>1, <1>2, <1>4, <1>5, RequestsChange DEF BaseInv
<1>7. PageFits'
  BY <1>1, <1>2 DEF BaseInv, PageFits
<1>8. QED
  BY <1>2, <1>3, <1>4, <1>6, <1>7 DEF BaseInv

\* A request that ends without data.
LEMMA RequestEnds ==
    ASSUME BaseInv, UNCHANGED <<marketVars, tape>>, page' = page,
           NEW r \in DOMAIN request, NEW at \in {"asked", "failed", "done"},
           request' = [request EXCEPT ![r] = [at |-> at]]
    PROVE  RequestsFit' /\ \E x : Changed(request, r, x, request') /\ x.at = at
<1>1. PICK x : x = [at |-> at]
  OBVIOUS
<1>2. x.at = at
  BY <1>1
<1>3. OrdersMove
  BY QuietSteps
<1>4. request' = [request EXCEPT ![r] = x]
  BY <1>1
<1>5. x.at # "answered" /\ x.at \in {"asked", "answered", "failed", "done"}
  BY <1>2
<1>6. RequestsFit' /\ Changed(request, r, x, request')
  BY <1>3, <1>4, <1>5, RequestsChange DEF BaseInv
<1>7. QED
  BY <1>2, <1>6

LEMMA FailBase ==
    ASSUME BaseInv, NEW r \in DOMAIN request, Fail(r)
    PROVE  /\ BaseInv'
           /\ \E x : Changed(request, r, x, request') /\ x.at = "failed"
<1>1. /\ UNCHANGED <<marketVars, tape>> /\ UNCHANGED <<wire, page, error, shownOrders, shownLevels>>
      /\ UNCHANGED <<shownTrades, liveArrived, raced, unannounced>>
      /\ request' = [request EXCEPT ![r] = [at |-> "failed"]]
  BY DEF Fail
<1>2. LivesFit' /\ TapeFits' /\ Mine' = Mine
  BY <1>1, QuietSteps
<1>3. WireFits'
  BY <1>1, QuietWire DEF BaseInv
<1>4. RequestsFit' /\ \E x : Changed(request, r, x, request') /\ x.at = "failed"
  BY <1>1, RequestEnds
<1>5. PageFits'
  BY <1>1, <1>2 DEF BaseInv, PageFits
<1>6. QED
  BY <1>2, <1>3, <1>4, <1>5 DEF BaseInv

\* What a load does to each list.
LEMMA LoadShows ==
    ASSUME BaseInv, NEW r \in DOMAIN request, Load(r)
    PROVE  /\ request[r].at = "answered" /\ DataFits(request[r].data)
           /\ page.name = "orders" => shownOrders' = request[r].data /\ UNCHANGED <<shownLevels, shownTrades>>
           /\ page.name = "book" => shownLevels' = request[r].data /\ UNCHANGED <<shownOrders, shownTrades>>
           /\ page.name = "trades" =>
                UNCHANGED <<shownOrders, shownLevels>>
                /\ shownTrades' = IF liveArrived THEN shownTrades ELSE request[r].data
           /\ raced' = (raced \/ (page.name = "book" /\ Overtakes(r)))
           /\ UNCHANGED <<marketVars, tape>> /\ UNCHANGED <<wire, page, error, liveArrived, unannounced>>
<1>1. request[r].at = "answered" /\ DataFits(request[r].data)
  BY DEF Load, BaseInv, RequestsFit, DataFits
<1>2. page.name \in {"orders", "book", "trades"} /\ (liveArrived => shownTrades # <<>>)
  BY DEF BaseInv, PageFits, Pages
<1>3. /\ raced' = (raced \/ (page.name = "book" /\ Overtakes(r)))
      /\ UNCHANGED <<marketVars, tape>> /\ UNCHANGED <<wire, page, error, liveArrived, unannounced>>
  BY DEF Load
<1>4. \/ /\ page.name = "orders"
         /\ shownOrders' = request[r].data
         /\ UNCHANGED <<shownLevels, shownTrades>>
      \/ /\ page.name = "book"
         /\ shownLevels' = request[r].data
         /\ UNCHANGED <<shownOrders, shownTrades>>
      \/ /\ page.name = "trades"
         /\ shownTrades' = TradesAfterLoad(request[r].data)
         /\ UNCHANGED <<shownOrders, shownLevels>>
  BY DEF Load
<1>5. TradesAfterLoad(request[r].data) = IF liveArrived THEN shownTrades ELSE request[r].data
  BY <1>2 DEF TradesAfterLoad
<1>6. QED
  BY <1>1, <1>2, <1>3, <1>4, <1>5

LEMMA LoadBase ==
    ASSUME BaseInv, NEW r \in DOMAIN request, Load(r)
    PROVE  /\ BaseInv'
           /\ \E x : Changed(request, r, x, request') /\ x.at = "done"
<1>1. /\ request[r].at = "answered" /\ DataFits(request[r].data)
      /\ page.name = "orders" => shownOrders' = request[r].data /\ UNCHANGED <<shownLevels, shownTrades>>
      /\ page.name = "book" => shownLevels' = request[r].data /\ UNCHANGED <<shownOrders, shownTrades>>
      /\ page.name = "trades" =>
           UNCHANGED <<shownOrders, shownLevels>>
           /\ shownTrades' = IF liveArrived THEN shownTrades ELSE request[r].data
      /\ raced' = (raced \/ (page.name = "book" /\ Overtakes(r)))
      /\ UNCHANGED <<marketVars, tape>> /\ UNCHANGED <<wire, page, error, liveArrived, unannounced>>
  BY LoadShows
<1>2. LivesFit' /\ TapeFits' /\ Mine' = Mine
  BY <1>1, QuietSteps
<1>3. WireFits'
  BY <1>1, QuietWire DEF BaseInv
<1>4. RequestsFit' /\ \E x : Changed(request, r, x, request') /\ x.at = "done"
  BY <1>1, RequestEnds DEF Load, Done
<1>5. page.name \in {"orders", "book", "trades"}
  BY DEF BaseInv, PageFits, Pages
<1>6. shownOrders' \subseteq Mine'
  BY <1>1, <1>2, <1>5 DEF BaseInv, PageFits, DataFits
<1>7. shownTrades' \in Seq(DOMAIN tape) /\ Len(shownTrades') <= Limit /\ (liveArrived => shownTrades' # <<>>)
  <2>1. shownTrades' = shownTrades \/ (page.name = "trades" /\ shownTrades' = request[r].data /\ ~liveArrived)
    BY <1>1, <1>5
  <2>2. QED
    BY <1>1, <2>1 DEF BaseInv, PageFits, DataFits
<1>8. raced' \in BOOLEAN
  BY <1>1
<1>9. PageFits'
  BY <1>1, <1>2, <1>6, <1>7, <1>8 DEF BaseInv, PageFits
<1>10. QED
  BY <1>2, <1>3, <1>4, <1>9 DEF BaseInv

LEMMA LoadFailsBase ==
    ASSUME BaseInv, NEW r \in DOMAIN request, LoadFails(r)
    PROVE  BaseInv' /\ \E x : Changed(request, r, x, request') /\ x.at = "done"
<1>1. /\ UNCHANGED <<marketVars, tape>> /\ UNCHANGED <<wire, page, shownOrders, shownLevels>>
      /\ UNCHANGED <<shownTrades, liveArrived, unannounced>> /\ error' = TRUE /\ raced' = TRUE
      /\ request' = [request EXCEPT ![r] = [at |-> "done"]]
  BY DEF LoadFails, Done
<1>2. LivesFit' /\ TapeFits' /\ Mine' = Mine
  BY <1>1, QuietSteps
<1>3. WireFits'
  BY <1>1, QuietWire DEF BaseInv
<1>4. RequestsFit' /\ \E x : Changed(request, r, x, request') /\ x.at = "done"
  BY <1>1, RequestEnds
<1>5. PageFits'
  BY <1>1, <1>2 DEF BaseInv, PageFits
<1>6. QED
  BY <1>2, <1>3, <1>4, <1>5 DEF BaseInv

LEMMA MountBase ==
    ASSUME BaseInv, Mount
    PROVE  /\ BaseInv' /\ page'.mounted /\ page'.name = page.name /\ request = <<>>
           /\ \E e : e.at = "asked" /\ Longer(request, e, request')
<1>1. /\ UNCHANGED <<marketVars, tape>> /\ UNCHANGED <<wire, error, shownOrders, shownLevels>>
      /\ UNCHANGED <<shownTrades, liveArrived, raced, unannounced>>
      /\ page' = [page EXCEPT !.mounted = TRUE] /\ Asks /\ ~page.mounted
  BY DEF Mount
<1>2. page \in [name : Pages, mounted : BOOLEAN]
  BY DEF BaseInv, PageFits
<1>3. page' \in [name : Pages, mounted : BOOLEAN] /\ page'.mounted /\ page'.name = page.name
  BY <1>1, <1>2
<1>4. LivesFit' /\ TapeFits' /\ Mine' = Mine /\ OrdersMove
  BY <1>1, QuietSteps
<1>5. WireFits'
  BY <1>1, QuietWire DEF BaseInv
<1>6. RequestsFit' /\ \E e : e.at = "asked" /\ Longer(request, e, request')
  BY <1>1, <1>3, <1>4, RequestsAsk DEF BaseInv
<1>7. PageFits'
  BY <1>1, <1>3, <1>4 DEF BaseInv, PageFits
<1>8. request = <<>>
  BY <1>1 DEF BaseInv, RequestsFit
<1>9. QED
  BY <1>3, <1>4, <1>5, <1>6, <1>7, <1>8 DEF BaseInv

LEMMA RefetchBase ==
    ASSUME BaseInv, Refetch
    PROVE  /\ BaseInv'
           /\ \E e : e.at = "asked" /\ Longer(request, e, request')
<1>1. /\ UNCHANGED <<marketVars, tape>> /\ UNCHANGED <<wire, page, shownOrders, shownLevels>>
      /\ UNCHANGED <<shownTrades, liveArrived, unannounced>> /\ error' = FALSE /\ raced' = FALSE
      /\ Asks /\ page = [name |-> "orders", mounted |-> TRUE]
  BY DEF Refetch
<1>2. page'.mounted /\ page'.name = page.name
  BY <1>1
<1>3. LivesFit' /\ TapeFits' /\ Mine' = Mine /\ OrdersMove
  BY <1>1, QuietSteps
<1>4. WireFits'
  BY <1>1, QuietWire DEF BaseInv
<1>5. RequestsFit' /\ \E e : e.at = "asked" /\ Longer(request, e, request')
  BY <1>1, <1>2, <1>3, RequestsAsk DEF BaseInv
<1>6. PageFits'
  BY <1>1, <1>3 DEF BaseInv, PageFits
<1>7. QED
  BY <1>3, <1>4, <1>5, <1>6 DEF BaseInv

LEMMA CancelRefusedBase == ASSUME BaseInv, NEW o, CancelRefused(o) PROVE BaseInv'
<1>1. /\ UNCHANGED <<marketVars, tape>> /\ UNCHANGED <<wire, page, request, shownOrders, shownLevels>>
      /\ UNCHANGED <<shownTrades, liveArrived, raced, unannounced>> /\ error' = TRUE
  BY DEF CancelRefused
<1>2. LivesFit' /\ TapeFits' /\ Mine' = Mine /\ OrdersMove
  BY <1>1, QuietSteps
<1>3. WireFits'
  BY <1>1, QuietWire DEF BaseInv
<1>4. RequestsFit'
  BY <1>1, <1>2, RequestsStay DEF BaseInv
<1>5. PageFits'
  BY <1>1, <1>2 DEF BaseInv, PageFits
<1>6. QED
  BY <1>2, <1>3, <1>4, <1>5 DEF BaseInv

LEMMA PageIs ==
    ASSUME PageFits, NEW n
    PROVE  page = [name |-> n, mounted |-> TRUE] <=> page.name = n /\ page.mounted
<1>1. page \in [name : Pages, mounted : BOOLEAN]
  BY DEF PageFits
<1>2. page = [name |-> page.name, mounted |-> page.mounted] /\ page.mounted \in BOOLEAN
  BY <1>1
<1>3. ASSUME page.name = n, page.mounted PROVE page = [name |-> n, mounted |-> TRUE]
  <2>1. page.mounted = TRUE
    BY <1>2, <1>3
  <2>2. QED
    BY <1>2, <1>3, <2>1
<1>4. ASSUME page = [name |-> n, mounted |-> TRUE] PROVE page.name = n /\ page.mounted
  BY <1>4
<1>5. QED
  BY <1>3, <1>4

\* What an event does to each page, by what the page is.
LEMMA HearShows ==
    ASSUME BaseInv, Hear
    PROVE  /\ UNCHANGED <<marketVars, tape>> /\ UNCHANGED <<drops, page, shownLevels, unannounced>>
           /\ raced' = (raced \/ (page.name = "orders" /\ page.mounted /\ Outstanding # {}))
           /\ ~page.mounted => UNCHANGED <<request, error, shownOrders, shownTrades, liveArrived>>
           /\ page.mounted /\ page.name = "orders" =>
                OrdersHear(wire[1]) /\ UNCHANGED <<request, error, shownTrades, liveArrived>>
           /\ page.mounted /\ page.name = "book" =>
                BookHears(wire[1]) /\ UNCHANGED <<shownOrders, shownTrades, liveArrived>>
           /\ page.mounted /\ page.name = "trades" =>
                TradesHear(wire[1]) /\ UNCHANGED <<request, error, shownOrders>>
<1>1. Head(wire) = wire[1]
  BY HearTakes DEF BaseInv
<1>2. /\ UNCHANGED <<marketVars, tape>> /\ UNCHANGED <<drops, page, shownLevels, unannounced>>
      /\ raced' = (raced \/ (page = [name |-> "orders", mounted |-> TRUE] /\ Outstanding # {}))
  BY DEF Hear
<1>3. \/ /\ ~page.mounted
         /\ UNCHANGED <<request, error, shownOrders, shownTrades, liveArrived>>
      \/ /\ page = [name |-> "orders", mounted |-> TRUE]
         /\ OrdersHear(wire[1])
         /\ UNCHANGED <<request, error, shownTrades, liveArrived>>
      \/ /\ page = [name |-> "book", mounted |-> TRUE]
         /\ BookHears(wire[1])
         /\ UNCHANGED <<shownOrders, shownTrades, liveArrived>>
      \/ /\ page = [name |-> "trades", mounted |-> TRUE]
         /\ TradesHear(wire[1])
         /\ UNCHANGED <<request, error, shownOrders>>
  BY <1>1 DEF Hear
<1>4. /\ page = [name |-> "orders", mounted |-> TRUE] <=> page.name = "orders" /\ page.mounted
      /\ page = [name |-> "book", mounted |-> TRUE] <=> page.name = "book" /\ page.mounted
      /\ page = [name |-> "trades", mounted |-> TRUE] <=> page.name = "trades" /\ page.mounted
  BY PageIs DEF BaseInv
<1>5. QED
  BY <1>2, <1>3, <1>4

\* The orders an event leaves on the list.
LEMMA OrdersHeard ==
    ASSUME BaseInv, Hear, page.mounted, page.name = "orders"
    PROVE  shownOrders' =
             IF wire[1].type = "ORDER_PLACED" /\ wire[1].order \in Mine THEN shownOrders \cup {wire[1].order}
             ELSE IF wire[1].type \in {"ORDER_CANCELLED", "ORDER_FILLED"} /\ wire[1].order \in Mine
                  THEN shownOrders \ {wire[1].order}
             ELSE shownOrders
<1>1. OrdersHear(wire[1])
  BY HearShows
<1>2. EventFits(wire[1])
  BY HearTakes DEF BaseInv
<1>3. PICK e : e = wire[1]
  OBVIOUS
<1>4. e.type \in {"ORDER_PLACED", "ORDER_CANCELLED", "ORDER_FILLED"} =>
        (e.order \in Mine <=> terms[e.order].user = Me)
  BY <1>2, <1>3 DEF EventFits, Mine
<1>5. shownOrders' = IF terms[e.order].user # Me          THEN shownOrders
                     ELSE IF e.type = "ORDER_PLACED"      THEN shownOrders \cup {e.order}
                     ELSE IF e.type \in {"ORDER_CANCELLED", "ORDER_FILLED"} THEN shownOrders \ {e.order}
                     ELSE shownOrders
  BY <1>1, <1>3 DEF OrdersHear, Removes
<1>6. QED
  BY <1>3, <1>4, <1>5

\* The trades an event leaves on the page.
LEMMA TradesHeard ==
    ASSUME ScreensAssumption, BaseInv, Hear, page.mounted, page.name = "trades"
    PROVE  \/ /\ wire[1].type = "TRADE_EXECUTED" /\ liveArrived'
              /\ shownTrades' \in Seq(DOMAIN tape) /\ OnTopOf(wire[1].trade, shownTrades, shownTrades')
           \/ wire[1].type # "TRADE_EXECUTED" /\ UNCHANGED <<liveArrived, shownTrades>>
<1>1. TradesHear(wire[1])
  BY HearShows
<1>2. EventFits(wire[1])
  BY HearTakes DEF BaseInv
<1>3. CASE wire[1].type # "TRADE_EXECUTED"
  BY <1>1, <1>3 DEF TradesHear
<1>4. CASE wire[1].type = "TRADE_EXECUTED"
  <2>1. PICK S : S = DOMAIN tape
    OBVIOUS
  <2>2. PICK t \in S : t = wire[1].trade
    BY <1>2, <1>4, <2>1 DEF EventFits
  <2>3. PICK s \in Seq(S) : s = shownTrades /\ Len(s) <= Limit
    BY <2>1 DEF BaseInv, PageFits
  <2>4. PICK v : v = shownTrades' /\ v = WithinLimit(<<t>> \o s)
    BY <1>1, <1>4, <2>2, <2>3 DEF TradesHear
  <2>5. v \in Seq(S) /\ OnTopOf(t, s, v)
    BY <2>3, <2>4, PrependedFits
  <2>6. liveArrived' = TRUE
    BY <1>1, <1>4 DEF TradesHear
  <2>7. QED
    BY <1>4, <2>1, <2>2, <2>3, <2>4, <2>5, <2>6
<1>5. QED
  BY <1>3, <1>4

LEMMA HearBase ==
    ASSUME ScreensAssumption, BaseInv, Hear
    PROVE  BaseInv'
<1>1. /\ UNCHANGED <<marketVars, tape>> /\ UNCHANGED <<drops, page, shownLevels, unannounced>>
      /\ raced' = (raced \/ (page.name = "orders" /\ page.mounted /\ Outstanding # {}))
      /\ ~page.mounted => UNCHANGED <<request, error, shownOrders, shownTrades, liveArrived>>
      /\ page.mounted /\ page.name = "orders" =>
           OrdersHear(wire[1]) /\ UNCHANGED <<request, error, shownTrades, liveArrived>>
      /\ page.mounted /\ page.name = "book" =>
           BookHears(wire[1]) /\ UNCHANGED <<shownOrders, shownTrades, liveArrived>>
      /\ page.mounted /\ page.name = "trades" =>
           TradesHear(wire[1]) /\ UNCHANGED <<request, error, shownOrders>>
  BY HearShows
<1>2. LivesFit' /\ TapeFits' /\ Mine' = Mine /\ OrdersMove
  BY <1>1, QuietSteps
<1>3. WireFits'
  BY HearWire DEF BaseInv
<1>4. page.name \in {"orders", "book", "trades"}
  BY DEF BaseInv, PageFits, Pages
<1>5. raced' \in BOOLEAN
  BY <1>1
<1>6. RequestsFit' /\ error' \in BOOLEAN
  <2>1. CASE UNCHANGED <<request, error>>
    BY <1>1, <1>2, <2>1, RequestsStay DEF BaseInv, PageFits
  <2>2. CASE page.mounted /\ Asks /\ error' = FALSE
    BY <1>1, <1>2, <2>2, RequestsAsk DEF BaseInv
  <2>3. page.mounted /\ page.name = "book" => (Asks /\ error' = FALSE) \/ UNCHANGED <<request, error>>
    BY <1>1 DEF BookHears
  <2>4. QED
    BY <1>1, <1>4, <2>1, <2>2, <2>3
<1>7. shownOrders' \subseteq Mine
  <2>1. shownOrders \subseteq Mine
    BY DEF BaseInv, PageFits
  <2>2. CASE page.mounted /\ page.name = "orders"
    BY <2>1, <2>2, OrdersHeard
  <2>3. CASE ~(page.mounted /\ page.name = "orders")
    BY <1>1, <1>4, <2>1, <2>3
  <2>4. QED
    BY <2>2, <2>3
<1>8. /\ shownTrades' \in Seq(DOMAIN tape) /\ Len(shownTrades') <= Limit
      /\ liveArrived' \in BOOLEAN /\ (liveArrived' => shownTrades' # <<>>)
  <2>1. CASE page.mounted /\ page.name = "trades"
    <3>1. liveArrived' \in BOOLEAN
      BY <1>1, <2>1 DEF TradesHear, BaseInv, PageFits
    <3>2. QED
      BY <2>1, <3>1, TradesHeard DEF BaseInv, PageFits, OnTopOf
  <2>2. CASE ~(page.mounted /\ page.name = "trades")
    <3>1. UNCHANGED <<shownTrades, liveArrived>>
      BY <1>1, <1>4, <2>2
    <3>2. QED
      BY <3>1 DEF BaseInv, PageFits
  <2>3. QED
    BY <2>1, <2>2
<1>9. PageFits'
  BY <1>1, <1>2, <1>5, <1>6, <1>7, <1>8 DEF BaseInv, PageFits
<1>10. QED
  BY <1>2, <1>3, <1>6, <1>9 DEF BaseInv

-----------------------------------------------------------------------------
(* What is outstanding after a request is made, answered or done.          *)

LEMMA OutstandingAsked ==
    ASSUME NEW e, e.at = "asked", Longer(request, e, request')
    PROVE  /\ Len(request) \in Nat /\ Len(request') = Len(request) + 1
           /\ DOMAIN request = 1..Len(request)
           /\ Outstanding' = Outstanding \cup {Len(request) + 1}
           /\ Len(request) + 1 \notin Outstanding
           /\ request'[Len(request) + 1].at = "asked"
           /\ \A r \in DOMAIN request : request'[r] = request[r]
<1>1. PICK n \in Nat : /\ n = Len(request) /\ DOMAIN request = 1..n /\ DOMAIN request' = 1..(n + 1)
                       /\ request'[n + 1] = e /\ \A k \in 1..n : request'[k] = request[k]
  BY DEF Longer
<1>2. \A k \in 1..(n + 1) : k \in 1..n \/ k = n + 1
  OBVIOUS
<1>3. 1..n \subseteq 1..(n + 1) /\ n + 1 \in 1..(n + 1) /\ n + 1 \notin 1..n
  OBVIOUS
<1>4. Outstanding' = Outstanding \cup {n + 1}
  <2>1. ASSUME NEW k \in Outstanding' PROVE k \in Outstanding \cup {n + 1}
    BY <1>1, <1>2 DEF Outstanding
  <2>2. ASSUME NEW k \in Outstanding PROVE k \in Outstanding'
    BY <1>1, <1>3 DEF Outstanding
  <2>3. n + 1 \in Outstanding'
    BY <1>1, <1>3 DEF Outstanding
  <2>4. QED
    BY <2>1, <2>2, <2>3
<1>5. n + 1 \notin Outstanding
  BY <1>1, <1>3 DEF Outstanding
<1>6. Len(request') = n + 1
  BY <1>1 DEF Longer
<1>7. QED
  BY <1>1, <1>4, <1>5, <1>6

LEMMA OutstandingChanged ==
    ASSUME NEW r \in DOMAIN request, NEW x, Changed(request, r, x, request')
    PROVE  /\ Len(request') = Len(request) /\ request'[r] = x
           /\ \A k \in DOMAIN request : k # r => request'[k] = request[k]
           /\ x.at = "done" => Outstanding' = Outstanding \ {r}
           /\ x.at # "done" /\ r \in Outstanding => Outstanding' = Outstanding
<1>1. PICK n : /\ Len(request') = n /\ n = Len(request) /\ DOMAIN request = 1..n /\ DOMAIN request' = 1..n
               /\ request'[r] = x /\ \A k \in 1..n : k # r => request'[k] = request[k]
  BY DEF Changed
<1>2. \A k \in 1..n : k # r => (k \in Outstanding' <=> k \in Outstanding)
  BY <1>1 DEF Outstanding
<1>3. r \in Outstanding' <=> x.at # "done"
  BY <1>1 DEF Outstanding
<1>4. Outstanding \subseteq 1..n /\ Outstanding' \subseteq 1..n
  BY <1>1 DEF Outstanding
<1>5. PICK O, P : O = Outstanding /\ P = Outstanding'
  OBVIOUS
<1>6. ASSUME NEW k PROVE k \in P <=> IF k = r THEN x.at # "done" ELSE k \in O
  <2>1. CASE k = r
    BY <1>3, <1>5, <2>1
  <2>2. CASE k # r
    BY <1>2, <1>4, <1>5, <2>2
  <2>3. QED
    BY <2>1, <2>2
<1>7. x.at = "done" => P = O \ {r}
  BY <1>6
<1>8. x.at # "done" /\ r \in O => P = O
  BY <1>6
<1>9. QED
  BY <1>1, <1>5, <1>7, <1>8

-----------------------------------------------------------------------------
(* The orders page.                                                        *)

\* What a list becomes still agrees with the open orders, if it did and the
\* step leaves the orders of the page's user alone.
LEMMA AgreesInPlace ==
    ASSUME NEW S, Agrees(S), Mine' = Mine, Said(wire') = Said(wire), Book' = Book, UNCHANGED <<terms, bought>>
    PROVE  Agrees(S)'
BY DEF Agrees, Becomes

LEMMA SubmitAgrees ==
    ASSUME ScreensAssumption, BaseInv, NEW S \in SUBSET Mine, Agrees(S),
           NEW o \in OrderIds, NEW u \in Users, NEW s \in Sides, NEW q \in Quantities, Submit(o, u, s, q)
    PROVE  Agrees(S)'
<1>1. /\ o \notin Known /\ Known' = Known \cup {o}
      /\ \A x \in OrderIds : x # o => terms'[x] = terms[x]
      /\ UNCHANGED <<rest, bought, told>>
  BY SubmitAsks DEF BaseInv
<1>2. wire' = wire
  BY DEF Submit
<1>3. Book' = Book
  BY <1>1 DEF Book
<1>4. <<"ORDER_PLACED", o>> \notin Said(wire) /\ o \notin S /\ o \notin Book
  BY <1>1, SaidOfKnown, BookHasPlaced DEF BaseInv, Mine
<1>5. ASSUME NEW x \in Mine', x # o PROVE x \in Mine /\ terms'[x] = terms[x]
  BY <1>1, <1>5, KnownAreOrders DEF Mine
<1>6. ASSUME NEW x \in Mine'
      PROVE  /\ x \in Book' => x \in Becomes(S)'
             /\ x \in Becomes(S)' => x \in Book' \/ bought'[x] = terms'[x].size
  <2>1. CASE x = o
    BY <1>2, <1>3, <1>4, <2>1 DEF Becomes
  <2>2. CASE x # o
    BY <1>1, <1>2, <1>3, <1>5, <2>2 DEF Agrees, Becomes
  <2>3. QED
    BY <2>1, <2>2
<1>7. QED
  BY <1>6 DEF Agrees

LEMMA TradeAgrees ==
    ASSUME ScreensAssumption, BaseInv, NEW S \in SUBSET Mine, Agrees(S),
           NEW o \in OrderIds, NEW later \in {0, 1}, Trade(o, later)
    PROVE  Agrees(S)'
<1>1. PICK m \in Book, q \in Nat :
        /\ o \in Known /\ m \in Known /\ o \notin Book /\ m # o /\ q # 0
        /\ q <= taking[o] /\ q <= rest[m] /\ taking[o] # 0
        /\ taking' \in [OrderIds -> Nat] /\ taking'[o] = taking[o] - q
        /\ \A x \in OrderIds : x # o => taking'[x] = taking[x]
        /\ rest' \in [OrderIds -> Nat] /\ rest'[m] = rest[m] - q
        /\ \A x \in OrderIds : x # m => rest'[x] = rest[x]
        /\ bought' \in [OrderIds -> Nat] /\ bought'[o] = bought[o] + q /\ bought'[m] = bought[m] + q
        /\ \A x \in OrderIds : x # o /\ x # m => bought'[x] = bought[x]
        /\ UNCHANGED <<terms, told>>
  BY TradeDeals DEF BaseInv
<1>2. Mine' = Mine /\ Known' = Known
  BY <1>1 DEF Mine, Known
<1>3. Said(wire') = Said(wire) \cup {<<"TRADE_EXECUTED", o>>}
  <2>1. PICK e : e = [type |-> "TRADE_EXECUTED", order |-> o, trade |-> Len(tape) + 1]
    OBVIOUS
  <2>2. e.type = "TRADE_EXECUTED" /\ e.order = o
    BY <2>1
  <2>3. wire' = Append(wire, e)
    BY <2>1 DEF Trade, Sends
  <2>4. Longer(wire, e, wire')
    BY <2>3, AppendIsLonger DEF BaseInv, WireFits
  <2>5. QED
    BY <2>2, <2>4, SaidWithOneMore
<1>4. Becomes(S)' = Becomes(S)
  BY <1>2, <1>3 DEF Becomes
<1>5. ASSUME NEW x \in Mine, x # o, x # m
      PROVE  (x \in Book' <=> x \in Book) /\ bought'[x] = bought[x]
  BY <1>1, <1>5, KnownAreOrders DEF Mine, Book
<1>6. o \notin Becomes(S) /\ o \notin Book'
  <2>1. PICK tk \in Nat, bo \in Nat : tk = taking[o] /\ bo = bought[o] /\ tk # 0
    BY <1>1 DEF BaseInv, LivesFit
  <2>2. bo + tk = terms[o].size
    BY <1>1, <2>1 DEF BaseInv, LivesFit, LifeFits
  <2>3. bo # terms[o].size
    BY <2>1, <2>2
  <2>4. o \notin Becomes(S)
    BY <1>1, <2>1, <2>3 DEF Agrees, Becomes
  <2>5. rest'[o] = rest[o] /\ ~(rest[o] > 0)
    BY <1>1 DEF Book
  <2>6. QED
    BY <2>4, <2>5 DEF Book
<1>7. m \in Mine => m \in Becomes(S) /\ (m \in Book' \/ bought'[m] = terms[m].size)
  <2>1. m \in OrderIds /\ terms[m].placedAt # 0 /\ "CANCELLED" \notin told[m]
    BY <1>1, BookHasPlaced DEF BaseInv, Book
  <2>2. PICK re \in Nat, bo \in Nat : re = rest'[m] /\ bo = bought'[m]
    BY <1>1, <2>1
  <2>3. LifeFits(m)'
    BY <2>1, TradeLives DEF BaseInv, LivesFit
  <2>4. re + bo = terms[m].size
    BY <1>1, <1>2, <2>1, <2>2, <2>3 DEF LifeFits
  <2>5. re > 0 \/ bo = terms[m].size
    BY <2>4
  <2>6. m \in Book' \/ bought'[m] = terms[m].size
    BY <2>1, <2>2, <2>5 DEF Book
  <2>7. QED
    BY <2>6 DEF Agrees
<1>8. ASSUME NEW x \in Mine
      PROVE  /\ x \in Book' => x \in Becomes(S)
             /\ x \in Becomes(S) => x \in Book' \/ bought'[x] = terms[x].size
  <2>1. CASE x = o
    BY <1>6, <2>1
  <2>2. CASE x = m
    BY <1>7, <2>2
  <2>3. CASE x # o /\ x # m
    BY <1>5, <2>3 DEF Agrees
  <2>4. QED
    BY <2>1, <2>2, <2>3
<1>9. QED
  BY <1>1, <1>2, <1>4, <1>8 DEF Agrees

LEMMA RestsAgrees ==
    ASSUME ScreensAssumption, BaseInv, NEW S \in SUBSET Mine, Agrees(S), NEW o \in OrderIds, Rests(o)
    PROVE  Agrees(S)'
<1>1. /\ o \in Known /\ taking[o] # 0 /\ terms[o].placedAt = 0 /\ Known' = Known
      /\ terms'[o].user = terms[o].user
      /\ \A x \in OrderIds : x # o => terms'[x] = terms[x]
      /\ taking \in [OrderIds -> Nat] /\ rest'[o] = taking[o]
      /\ \A x \in OrderIds : x # o => rest'[x] = rest[x]
      /\ UNCHANGED bought
  BY RestsInBook DEF BaseInv, LivesFit
<1>2. Said(wire') = Said(wire) \cup {<<"ORDER_PLACED", o>>}
  BY SentIsSaid DEF Rests, BaseInv
<1>3. Mine' = Mine
  BY <1>1, KnownAreOrders DEF Mine
<1>4. <<"ORDER_CANCELLED", o>> \notin Said(wire) /\ <<"ORDER_FILLED", o>> \notin Said(wire)
  BY <1>1, SaidOfKnown DEF BaseInv
<1>5. o \in Book'
  BY <1>1 DEF Book
<1>6. ASSUME NEW x \in Mine
      PROVE  /\ x \in Book' => x \in Becomes(S)'
             /\ x \in Becomes(S)' => x \in Book' \/ bought'[x] = terms'[x].size
  <2>1. CASE x = o
    BY <1>2, <1>3, <1>4, <1>5, <2>1 DEF Becomes
  <2>2. CASE x # o
    <3>1. x \in OrderIds
      BY DEF Mine, Known
    <3>2. (x \in Book' <=> x \in Book) /\ terms'[x] = terms[x]
      BY <1>1, <2>2, <3>1 DEF Book
    <3>3. x \in Becomes(S)' <=> x \in Becomes(S)
      BY <1>2, <1>3, <2>2 DEF Becomes
    <3>4. QED
      BY <1>1, <3>2, <3>3 DEF Agrees
  <2>3. QED
    BY <2>1, <2>2
<1>7. QED
  BY <1>3, <1>6 DEF Agrees

LEMMA FillsAgrees ==
    ASSUME ScreensAssumption, BaseInv, NEW S \in SUBSET Mine, Agrees(S), NEW o \in OrderIds, Fills(o)
    PROVE  Agrees(S)'
<1>1. /\ o \in Known /\ terms[o].placedAt = 0 /\ taking[o] = 0 /\ o \notin Book
      /\ UNCHANGED <<terms, taking, rest, bought>>
  BY FillsSays DEF BaseInv
<1>2. Mine' = Mine /\ Book' = Book
  BY <1>1 DEF Mine, Known, Book
<1>3. CASE terms[o].user = Me
  <2>1. Said(wire') = Said(wire) \cup {<<"ORDER_FILLED", o>>}
    BY <1>3, SentIsSaid DEF Fills, SendsToOwner, BaseInv
  <2>2. ASSUME NEW x \in Mine
        PROVE  /\ x \in Book' => x \in Becomes(S)'
               /\ x \in Becomes(S)' => x \in Book' \/ bought'[x] = terms'[x].size
    <3>1. CASE x = o
      BY <1>1, <1>2, <2>1, <3>1 DEF Becomes
    <3>2. CASE x # o
      BY <1>1, <1>2, <2>1, <3>2 DEF Agrees, Becomes
    <3>3. QED
      BY <3>1, <3>2
  <2>3. QED
    BY <1>2, <2>2 DEF Agrees
<1>4. CASE terms[o].user # Me
  <2>1. wire' = wire
    BY <1>4 DEF Fills, SendsToOwner
  <2>2. QED
    BY <1>1, <1>2, <2>1, AgreesInPlace
<1>5. QED
  BY <1>3, <1>4

LEMMA CancelsAgrees ==
    ASSUME ScreensAssumption, BaseInv, NEW S \in SUBSET Mine, Agrees(S), NEW o \in OrderIds, Cancels(o)
    PROVE  Agrees(S)'
<1>1. /\ o \in Known /\ rest'[o] = 0
      /\ \A x \in OrderIds : x # o => rest'[x] = rest[x]
      /\ UNCHANGED <<terms, taking, bought>>
  BY CancelsWithdraws DEF BaseInv
<1>2. Mine' = Mine
  BY <1>1 DEF Mine, Known
<1>3. o \notin Book' /\ \A x \in Mine : x # o => (x \in Book' <=> x \in Book)
  BY <1>1, KnownAreOrders DEF Book, Mine
<1>4. terms[o].user = Me => Said(wire') = Said(wire) \cup {<<"ORDER_CANCELLED", o>>}
  BY SentIsSaid DEF Cancels, SendsToOwner, BaseInv
<1>5. terms[o].user # Me => Said(wire') = Said(wire) /\ o \notin Mine
  BY DEF Cancels, SendsToOwner, Mine
<1>6. ASSUME NEW x \in Mine
      PROVE  /\ x \in Book' => x \in Becomes(S)'
             /\ x \in Becomes(S)' => x \in Book' \/ bought'[x] = terms'[x].size
  <2>1. CASE x = o
    BY <1>2, <1>3, <1>4, <1>5, <2>1 DEF Becomes
  <2>2. CASE x # o
    <3>1. x \in Becomes(S)' <=> x \in Becomes(S)
      BY <1>2, <1>4, <1>5, <2>2 DEF Becomes
    <3>2. QED
      BY <1>1, <1>3, <2>2, <3>1 DEF Agrees
  <2>3. QED
    BY <2>1, <2>2
<1>7. QED
  BY <1>2, <1>6 DEF Agrees

\* The server's answer agrees with what it is made from.
LEMMA AnswerAgrees == ASSUME BaseInv PROVE Agrees(OpenOrders)
<1> SUFFICES ASSUME NEW x \in Mine
             PROVE  /\ x \in Book => x \in Becomes(OpenOrders)
                    /\ x \in Becomes(OpenOrders) => x \in Book \/ bought[x] = terms[x].size
  BY DEF Agrees
<1>1. ASSUME x \in Book PROVE x \in Becomes(OpenOrders)
  <2>1. terms[x].placedAt # 0 /\ "CANCELLED" \notin told[x]
    BY <1>1, BookHasPlaced DEF BaseInv
  <2>2. <<"ORDER_CANCELLED", x>> \notin Said(wire) /\ <<"ORDER_FILLED", x>> \notin Said(wire)
    BY <2>1, SaidOfKnown DEF BaseInv
  <2>3. x \in OpenOrders
    BY <1>1 DEF OpenOrders, Mine
  <2>4. QED
    BY <2>2, <2>3 DEF Becomes
<1>2. ASSUME x \in Becomes(OpenOrders), x \notin Book PROVE bought[x] = terms[x].size
  <2>1. x \notin OpenOrders
    BY <1>2 DEF OpenOrders
  <2>2. <<"ORDER_PLACED", x>> \in Said(wire) /\ <<"ORDER_CANCELLED", x>> \notin Said(wire)
    BY <1>2, <2>1 DEF Becomes
  <2>3. x \in Known /\ x \in OrderIds /\ terms[x].placedAt # 0 /\ "CANCELLED" \notin told[x]
    BY <2>2, SaidOfKnown, KnownAreOrders DEF BaseInv, WireFits, CancelFollows
  <2>4. PICK re \in Nat, bo \in Nat : re = rest[x] /\ bo = bought[x]
    BY <2>3 DEF BaseInv, LivesFit
  <2>5. re + bo = terms[x].size
    BY <2>3, <2>4 DEF BaseInv, LivesFit, LifeFits
  <2>6. ~(re > 0)
    BY <1>2, <2>3, <2>4 DEF Book
  <2>7. QED
    BY <2>4, <2>5, <2>6
<1>3. QED
  BY <1>1, <1>2

\* What the page hears changes nothing of what its list will be.
LEMMA HearAgrees ==
    ASSUME BaseInv, Hear, page.mounted, page.name = "orders", Agrees(shownOrders)
    PROVE  Agrees(shownOrders)'
<1>1. PICK S, T : S = shownOrders /\ T = shownOrders'
  OBVIOUS
<1>2. PICK type, o : type = wire[1].type /\ o = wire[1].order
  OBVIOUS
<1>3. T = IF type = "ORDER_PLACED" /\ o \in Mine THEN S \cup {o}
          ELSE IF type \in {"ORDER_CANCELLED", "ORDER_FILLED"} /\ o \in Mine THEN S \ {o}
          ELSE S
  BY <1>1, <1>2, OrdersHeard
<1>4. Said(wire) = Said(wire') \cup {<<type, o>>} /\ UNCHANGED <<marketVars, tape>> /\ wire[1] \in Event
  BY <1>2, HearTakes DEF BaseInv
<1>5. type \in {"ORDER_PLACED", "ORDER_FILLED", "ORDER_CANCELLED", "TRADE_EXECUTED"}
  BY <1>2, <1>4 DEF Event
<1>6. Mine' = Mine /\ Book' = Book /\ UNCHANGED <<terms, bought>>
  BY <1>4 DEF Mine, Known, Book, marketVars
<1>7. type = "ORDER_CANCELLED" => <<"ORDER_PLACED", o>> \notin Said(wire')
  <2>1. PICK w, v : w = wire /\ v = wire' /\ Shorter(w, v) /\ OrderOfEvents(w)
    BY HearTakes DEF BaseInv, WireFits
  <2>2. w[1].type = "ORDER_CANCELLED" => <<"ORDER_PLACED", w[1].order>> \notin Said(v)
    BY <2>1, OrderOfLess
  <2>3. QED
    BY <1>2, <2>1, <2>2
<1>8. type = "ORDER_FILLED" => <<"ORDER_PLACED", o>> \notin Said(wire')
  <2>1. ASSUME type = "ORDER_FILLED", <<"ORDER_PLACED", o>> \in Said(wire') PROVE FALSE
    <3>1. <<"ORDER_FILLED", o>> \in Said(wire) /\ <<"ORDER_PLACED", o>> \in Said(wire)
      BY <1>4, <2>1
    <3>2. QED
      BY <3>1, SaidOfKnown DEF BaseInv
  <2>2. QED
    BY <2>1
<1>9. type = "ORDER_PLACED" =>
        /\ <<"ORDER_CANCELLED", o>> \in Said(wire') <=> <<"ORDER_CANCELLED", o>> \in Said(wire)
        /\ <<"ORDER_FILLED", o>> \in Said(wire') <=> <<"ORDER_FILLED", o>> \in Said(wire)
  BY <1>4
<1>10. ASSUME NEW x \in Mine
       PROVE  /\ <<"ORDER_CANCELLED", x>> \notin Said(wire')
              /\ <<"ORDER_FILLED", x>> \notin Said(wire')
              /\ <<"ORDER_PLACED", x>> \in Said(wire') \/ x \in T
          <=> /\ <<"ORDER_CANCELLED", x>> \notin Said(wire)
              /\ <<"ORDER_FILLED", x>> \notin Said(wire)
              /\ <<"ORDER_PLACED", x>> \in Said(wire) \/ x \in S
  <2>1. CASE x # o
    BY <1>3, <1>4, <2>1
  <2>2. CASE x = o /\ type = "ORDER_PLACED"
    BY <1>3, <1>4, <1>9, <2>2
  <2>3. CASE x = o /\ type = "ORDER_CANCELLED"
    BY <1>3, <1>4, <1>7, <2>3
  <2>4. CASE x = o /\ type = "ORDER_FILLED"
    BY <1>3, <1>4, <1>8, <2>4
  <2>5. CASE x = o /\ type = "TRADE_EXECUTED"
    BY <1>3, <1>4, <2>5
  <2>6. QED
    BY <1>5, <2>1, <2>2, <2>3, <2>4, <2>5
<1>11. QED
  BY <1>1, <1>6, <1>10 DEF Agrees, Becomes

\* The page before and after a step, as what it shows and asks for.
LEMMA OrdersPageNow ==
    ASSUME OrdersPageFits, page.name = "orders", NEW q, NEW S, request = q, shownOrders = S
    PROVE  /\ \A r, s \in Outstanding : r = s
           /\ page.mounted /\ ~raced =>
               /\ Outstanding = {} => Agrees(S)
               /\ \A r \in Outstanding : q[r].at = "answered" => Agrees(q[r].data)
BY DEF OrdersPageFits, Agrees, Becomes

LEMMA OrdersPageAgain ==
    ASSUME NEW q, NEW S, request' = q, shownOrders' = S,
           \A r, s \in Outstanding' : r = s,
           page'.mounted /\ ~raced' =>
               /\ Outstanding' = {} => Agrees(S)'
               /\ \A r \in Outstanding' : q[r].at = "answered" => Agrees(q[r].data)'
    PROVE  OrdersPageFits'
BY DEF OrdersPageFits, Agrees, Becomes

LEMMA QuietAgrees ==
    ASSUME BaseInv, UNCHANGED <<marketVars, tape>>, wire' = wire, NEW S, Agrees(S)
    PROVE  Agrees(S)'
<1>1. Mine' = Mine
  BY QuietSteps
<1>2. Book' = Book /\ UNCHANGED <<terms, bought>>
  BY DEF Book, marketVars
<1>3. QED
  BY <1>1, <1>2, AgreesInPlace

\* A step of the exchange that leaves the agreement of any list alone.
LEMMA OrdersWhenMarketMoves ==
    ASSUME BaseInv, OrdersPageFits, UNCHANGED <<pageVars, raced>>,
           \A S \in SUBSET Mine : Agrees(S) => Agrees(S)'
    PROVE  OrdersPageFits'
<1> SUFFICES ASSUME page.name = "orders" PROVE OrdersPageFits'
  BY DEF OrdersPageFits, pageVars
<1>1. PICK q, S : q = request /\ S = shownOrders
  OBVIOUS
<1>2. request' = q /\ shownOrders' = S /\ page' = page /\ raced' = raced /\ Outstanding' = Outstanding
  BY <1>1 DEF pageVars, Outstanding
<1>3. S \in SUBSET Mine /\ \A r \in Outstanding : q[r].at = "answered" => q[r].data \in SUBSET Mine
  BY <1>1 DEF BaseInv, PageFits, RequestsFit, DataFits, Outstanding
<1>4. /\ \A r, s \in Outstanding : r = s
      /\ page.mounted /\ ~raced =>
               /\ Outstanding = {} => Agrees(S)
               /\ \A r \in Outstanding : q[r].at = "answered" => Agrees(q[r].data)
  BY <1>1, OrdersPageNow
<1>5. Outstanding = {} /\ Agrees(S) => Agrees(S)'
  BY <1>3
<1>6. ASSUME NEW r \in Outstanding, q[r].at = "answered", Agrees(q[r].data) PROVE Agrees(q[r].data)'
  <2>1. PICK T \in SUBSET Mine : T = q[r].data
    BY <1>3, <1>6
  <2>2. Agrees(T)
    BY <1>6, <2>1
  <2>3. Agrees(T)'
    BY <2>2
  <2>4. QED
    BY <2>1, <2>3
<1>7. QED
  BY <1>2, <1>4, <1>5, <1>6, OrdersPageAgain

LEMMA SubmitOrders ==
    ASSUME ScreensAssumption, BaseInv, OrdersPageFits,
           NEW o \in OrderIds, NEW u \in Users, NEW s \in Sides, NEW q \in Quantities, Submit(o, u, s, q)
    PROVE  OrdersPageFits'
<1>1. UNCHANGED <<pageVars, raced>>
  BY DEF Submit
<1>2. \A S \in SUBSET Mine : Agrees(S) => Agrees(S)'
  BY SubmitAgrees
<1>3. QED
  BY <1>1, <1>2, OrdersWhenMarketMoves

LEMMA TradeOrders ==
    ASSUME ScreensAssumption, BaseInv, OrdersPageFits,
           NEW o \in OrderIds, NEW later \in {0, 1}, Trade(o, later)
    PROVE  OrdersPageFits'
<1>1. UNCHANGED <<pageVars, raced>>
  BY DEF Trade
<1>2. \A S \in SUBSET Mine : Agrees(S) => Agrees(S)'
  BY TradeAgrees
<1>3. QED
  BY <1>1, <1>2, OrdersWhenMarketMoves

LEMMA RestsOrders ==
    ASSUME ScreensAssumption, BaseInv, OrdersPageFits, NEW o \in OrderIds, Rests(o)
    PROVE  OrdersPageFits'
<1>1. UNCHANGED <<pageVars, raced>>
  BY DEF Rests
<1>2. \A S \in SUBSET Mine : Agrees(S) => Agrees(S)'
  BY RestsAgrees
<1>3. QED
  BY <1>1, <1>2, OrdersWhenMarketMoves

LEMMA FillsOrders ==
    ASSUME ScreensAssumption, BaseInv, OrdersPageFits, NEW o \in OrderIds, Fills(o)
    PROVE  OrdersPageFits'
<1>1. UNCHANGED <<pageVars, raced>>
  BY DEF Fills
<1>2. \A S \in SUBSET Mine : Agrees(S) => Agrees(S)'
  BY FillsAgrees
<1>3. QED
  BY <1>1, <1>2, OrdersWhenMarketMoves

LEMMA CancelsOrders ==
    ASSUME ScreensAssumption, BaseInv, OrdersPageFits, NEW o \in OrderIds, Cancels(o)
    PROVE  OrdersPageFits'
<1>1. UNCHANGED <<pageVars, raced>>
  BY DEF Cancels
<1>2. \A S \in SUBSET Mine : Agrees(S) => Agrees(S)'
  BY CancelsAgrees
<1>3. QED
  BY <1>1, <1>2, OrdersWhenMarketMoves

\* The answer agrees when it is made, and goes on agreeing on its way.
LEMMA AnswerOrders ==
    ASSUME ScreensAssumption, BaseInv, OrdersPageFits, NEW r \in DOMAIN request, Answer(r)
    PROVE  OrdersPageFits'
<1>1. /\ UNCHANGED <<marketVars, tape>> /\ UNCHANGED <<wire, page, shownOrders, raced>>
      /\ request[r].at = "asked"
  BY DEF Answer
<1> SUFFICES ASSUME page.name = "orders" PROVE OrdersPageFits'
  BY <1>1 DEF OrdersPageFits
<1>2. PICK p, q, S : p = request /\ q = request' /\ S = shownOrders
  OBVIOUS
<1>3. PICK x : Changed(p, r, x, q) /\ x.at = "answered" /\ x.data = OpenOrders
  BY <1>2, AnswerBase
<1>4. r \in Outstanding
  BY <1>1 DEF Outstanding
<1>5. q[r] = x /\ Outstanding' = Outstanding /\ \A k \in DOMAIN request : k # r => q[k] = p[k]
  BY <1>2, <1>3, <1>4, OutstandingChanged
<1>6. PICK d : d = x.data
  OBVIOUS
<1>7. Agrees(d)
  <2>1. Agrees(OpenOrders)
    BY AnswerAgrees
  <2>2. QED
    BY <1>3, <1>6, <2>1 DEF Agrees, Becomes
<1>8. Agrees(d)'
  BY <1>1, <1>7, QuietAgrees
<1>9. \A k, s \in Outstanding : k = s
  BY <1>2, OrdersPageNow
<1>10. \A k \in Outstanding : k = r
  BY <1>4, <1>9
<1>11. Agrees(q[r].data)'
  BY <1>5, <1>6, <1>8
<1>12. QED
  BY <1>1, <1>2, <1>4, <1>5, <1>9, <1>10, <1>11, OrdersPageAgain

LEMMA FailOrders ==
    ASSUME BaseInv, OrdersPageFits, NEW r \in DOMAIN request, Fail(r)
    PROVE  OrdersPageFits'
<1>1. UNCHANGED <<wire, page, shownOrders, raced>> /\ request[r].at = "asked"
  BY DEF Fail
<1> SUFFICES ASSUME page.name = "orders" PROVE OrdersPageFits'
  BY <1>1 DEF OrdersPageFits
<1>2. PICK p, q, S : p = request /\ q = request' /\ S = shownOrders
  OBVIOUS
<1>3. PICK x : Changed(p, r, x, q) /\ x.at = "failed"
  BY <1>2, FailBase
<1>4. r \in Outstanding
  BY <1>1 DEF Outstanding
<1>5. q[r] = x /\ Outstanding' = Outstanding
  BY <1>2, <1>3, <1>4, OutstandingChanged
<1>6. \A k, s \in Outstanding : k = s
  BY <1>2, OrdersPageNow
<1>7. \A k \in Outstanding : k = r /\ q[k].at # "answered"
  BY <1>3, <1>4, <1>5, <1>6
<1>8. QED
  BY <1>1, <1>2, <1>4, <1>5, <1>6, <1>7, OrdersPageAgain

\* The answer is what the page shows next.
LEMMA LoadOrders ==
    ASSUME BaseInv, OrdersPageFits, NEW r \in DOMAIN request, Load(r)
    PROVE  OrdersPageFits'
<1>1. /\ request[r].at = "answered" /\ UNCHANGED <<marketVars, tape>> /\ wire' = wire /\ page' = page
      /\ page.name = "orders" => shownOrders' = request[r].data /\ raced' = raced
  <2>1. raced \in BOOLEAN
    BY DEF BaseInv, PageFits
  <2>2. QED
    BY <2>1, LoadShows
<1> SUFFICES ASSUME page.name = "orders" PROVE OrdersPageFits'
  BY <1>1 DEF OrdersPageFits
<1>2. PICK p, q, S, T : p = request /\ q = request' /\ S = shownOrders /\ T = p[r].data
  OBVIOUS
<1>3. PICK x : Changed(p, r, x, q) /\ x.at = "done"
  BY <1>2, LoadBase
<1>4. r \in Outstanding
  BY <1>1 DEF Outstanding
<1>5. Outstanding' = Outstanding \ {r}
  BY <1>2, <1>3, OutstandingChanged
<1>6. /\ \A k, s \in Outstanding : k = s
      /\ page.mounted /\ ~raced => \A k \in Outstanding : p[k].at = "answered" => Agrees(p[k].data)
  BY <1>2, OrdersPageNow
<1>7. Outstanding' = {}
  BY <1>4, <1>5, <1>6
<1>8. page.mounted /\ ~raced => Agrees(p[r].data)
  BY <1>1, <1>2, <1>4, <1>6
<1>9. page.mounted /\ ~raced => Agrees(T)
  BY <1>2, <1>8
<1>10. page.mounted /\ ~raced => Agrees(T)'
  BY <1>1, <1>9, QuietAgrees
<1>11. QED
  BY <1>1, <1>2, <1>7, <1>10, OrdersPageAgain

\* Where an event or an answer was lost nothing is promised.
LEMMA OrdersWhenRaced ==
    ASSUME OrdersPageFits, raced', page' = page, Outstanding' \subseteq Outstanding
    PROVE  OrdersPageFits'
<1> SUFFICES ASSUME page.name = "orders" PROVE OrdersPageFits'
  BY DEF OrdersPageFits
<1>1. \A k, s \in Outstanding : k = s
  BY OrdersPageNow
<1>2. \A k, s \in Outstanding' : k = s
  BY <1>1
<1>3. QED
  BY <1>2, OrdersPageAgain

LEMMA LoadFailsOrders ==
    ASSUME BaseInv, OrdersPageFits, NEW r \in DOMAIN request, LoadFails(r)
    PROVE  OrdersPageFits'
<1>1. PICK x : Changed(request, r, x, request') /\ x.at = "done"
  BY LoadFailsBase
<1>2. Outstanding' = Outstanding \ {r}
  BY <1>1, OutstandingChanged
<1>3. raced' /\ page' = page
  BY DEF LoadFails
<1>4. QED
  BY <1>2, <1>3, OrdersWhenRaced

LEMMA DropOrders == ASSUME OrdersPageFits, Drop PROVE OrdersPageFits'
<1>1. raced' /\ page' = page /\ request' = request
  BY DEF Drop, pageVars
<1>2. Outstanding' = Outstanding
  BY <1>1 DEF Outstanding
<1>3. QED
  BY <1>1, <1>2, OrdersWhenRaced

\* A page asks only when it waits for nothing.
LEMMA OrdersWhenAsked ==
    ASSUME page'.name = page.name, Outstanding = {},
           NEW e, e.at = "asked", Longer(request, e, request')
    PROVE  OrdersPageFits'
<1>1. PICK q, S, n : q = request' /\ S = shownOrders' /\ n = Len(request) + 1
  OBVIOUS
<1>2. Outstanding' = {n} /\ q[n].at = "asked"
  BY <1>1, OutstandingAsked
<1>3. QED
  BY <1>1, <1>2, OrdersPageAgain

LEMMA MountOrders == ASSUME BaseInv, OrdersPageFits, Mount PROVE OrdersPageFits'
<1>1. PICK e : e.at = "asked" /\ Longer(request, e, request')
  BY MountBase
<1>2. page'.name = page.name /\ request = <<>>
  BY MountBase
<1>3. Outstanding = {}
  BY <1>2 DEF Outstanding
<1>4. QED
  BY <1>1, <1>2, <1>3, OrdersWhenAsked

LEMMA RefetchOrders == ASSUME BaseInv, OrdersPageFits, Refetch PROVE OrdersPageFits'
<1>1. PICK e : e.at = "asked" /\ Longer(request, e, request')
  BY RefetchBase
<1>2. page'.name = page.name /\ Outstanding = {}
  BY DEF Refetch
<1>3. QED
  BY <1>1, <1>2, OrdersWhenAsked

LEMMA QuietOrders ==
    ASSUME OrdersPageFits, UNCHANGED <<marketVars, wire, page, request, shownOrders, raced>>
    PROVE  OrdersPageFits'
BY DEF OrdersPageFits, Outstanding, Agrees, Becomes, Mine, Known, Said, Book, marketVars

LEMMA CancelRefusedOrders == ASSUME OrdersPageFits, NEW o, CancelRefused(o) PROVE OrdersPageFits'
BY QuietOrders DEF CancelRefused

LEMMA HearOrders == ASSUME BaseInv, OrdersPageFits, Hear PROVE OrdersPageFits'
<1>1. /\ page' = page
      /\ raced' = (raced \/ (page.name = "orders" /\ page.mounted /\ Outstanding # {}))
      /\ ~page.mounted => request' = request
      /\ page.mounted /\ page.name = "orders" => request' = request
  BY HearShows
<1> SUFFICES ASSUME page.name = "orders" PROVE OrdersPageFits'
  BY <1>1 DEF OrdersPageFits
<1>2. request' = request /\ page.mounted \in BOOLEAN /\ raced \in BOOLEAN
  BY <1>1 DEF BaseInv, PageFits
<1>3. PICK q, S, T : q = request /\ S = shownOrders /\ T = shownOrders'
  OBVIOUS
<1>4. Outstanding' = Outstanding
  BY <1>2 DEF Outstanding
<1>5. \A k, s \in Outstanding : k = s
  BY OrdersPageNow
<1>6. ASSUME page.mounted, ~raced, Outstanding = {} PROVE Agrees(T)'
  <2>1. Agrees(shownOrders)
    BY <1>6 DEF OrdersPageFits
  <2>2. Agrees(shownOrders)'
    BY <1>6, <2>1, HearAgrees
  <2>3. QED
    BY <1>3, <2>2 DEF Agrees, Becomes
<1>7. page'.mounted /\ ~raced' => page.mounted /\ ~raced /\ Outstanding = {}
  BY <1>1, <1>2
<1>8. QED
  BY <1>2, <1>3, <1>4, <1>5, <1>6, <1>7, OrdersPageAgain

-----------------------------------------------------------------------------
(* The order book's page.                                                  *)

Refreshing(w) == \E i \in DOMAIN w : RefreshesOn(w[i])

LEMMA BookPageNow ==
    ASSUME BookPageFits, page.name = "book", page.mounted, ~raced, ~unannounced,
           NEW q, NEW n, request = q, n = Len(q)
    PROVE  \/ Refreshing(wire)
           \/ \E r \in Outstanding : r # n
           \/ q[n].at \in {"asked", "failed"}
           \/ q[n].at = "answered" /\ q[n].data = Levels
           \/ q[n].at = "done" /\ shownLevels = Levels
BY DEF BookPageFits, LatestAnswer, Refreshing

LEMMA BookPageAgain ==
    ASSUME NEW q, NEW n, request' = q, n = Len(q),
           page'.name = "book" /\ page'.mounted /\ ~raced' /\ ~unannounced' =>
               \/ Refreshing(wire')
               \/ \E r \in Outstanding' : r # n
               \/ q[n].at \in {"asked", "failed"}
               \/ q[n].at = "answered" /\ q[n].data = Levels'
               \/ q[n].at = "done" /\ shownLevels' = Levels'
    PROVE  BookPageFits'
BY DEF BookPageFits, LatestAnswer, Refreshing

LEMMA RefreshingWithOneMore ==
    ASSUME NEW w, NEW e, NEW v, Longer(w, e, v)
    PROVE  Refreshing(v) <=> Refreshing(w) \/ RefreshesOn(e)
<1>1. PICK n \in Nat : /\ DOMAIN w = 1..n /\ DOMAIN v = 1..(n + 1) /\ v[n + 1] = e
                       /\ \A i \in 1..n : v[i] = w[i]
  BY DEF Longer
<1>2. \A i \in 1..(n + 1) : i \in 1..n \/ i = n + 1
  OBVIOUS
<1>3. 1..n \subseteq 1..(n + 1) /\ n + 1 \in 1..(n + 1)
  OBVIOUS
<1>4. ASSUME Refreshing(v) PROVE Refreshing(w) \/ RefreshesOn(e)
  BY <1>1, <1>2, <1>4 DEF Refreshing
<1>5. ASSUME Refreshing(w) \/ RefreshesOn(e) PROVE Refreshing(v)
  BY <1>1, <1>3, <1>5 DEF Refreshing
<1>6. QED
  BY <1>4, <1>5

LEMMA RefreshingWithOneLess ==
    ASSUME NEW w, NEW v, Shorter(w, v), Refreshing(w), ~RefreshesOn(w[1])
    PROVE  Refreshing(v)
<1>1. PICK n \in Nat : /\ DOMAIN w = 1..n /\ DOMAIN v = 1..(n - 1)
                       /\ \A i \in 1..(n - 1) : v[i] = w[i + 1]
  BY DEF Shorter
<1>2. PICK i \in 1..n : RefreshesOn(w[i])
  BY <1>1 DEF Refreshing
<1>3. i # 1
  BY <1>2
<1>4. i - 1 \in 1..(n - 1) /\ (i - 1) + 1 = i
  BY <1>3
<1>5. v[i - 1] = w[i]
  BY <1>1, <1>4
<1>6. QED
  BY <1>1, <1>2, <1>4, <1>5 DEF Refreshing

\* What is for sale changes only with the orders in the book.
LEMMA LevelsStay ==
    ASSUME rest' = rest, \A o \in Book : terms'[o].side = terms[o].side
    PROVE  Levels' = Levels
<1>1. Book' = Book
  BY DEF Book
<1>2. ASSUME NEW side PROVE {o \in Book' : terms'[o].side = side} = {o \in Book : terms[o].side = side}
  BY <1>1
<1>3. \A side \in Sides : Offered(side)' = Offered(side)
  BY <1>2 DEF Offered
<1>4. QED
  BY <1>3 DEF Levels

LEMMA QuietLevels == ASSUME UNCHANGED marketVars PROVE Levels' = Levels
<1>1. rest' = rest /\ \A o \in Book : terms'[o].side = terms[o].side
  BY DEF marketVars
<1>2. QED
  BY <1>1, LevelsStay

\* A step that changes neither the page nor what is for sale.
LEMMA BookWhenLevelsStay ==
    ASSUME BookPageFits, UNCHANGED <<page, request, shownLevels, raced, unannounced>>, Levels' = Levels,
           Refreshing(wire) => Refreshing(wire')
    PROVE  BookPageFits'
<1>1. PICK q, n : q = request /\ n = Len(q)
  OBVIOUS
<1>2. Outstanding' = Outstanding
  BY DEF Outstanding
<1>3. QED
  BY <1>1, <1>2, BookPageNow, BookPageAgain

LEMMA SubmitBook ==
    ASSUME ScreensAssumption, BaseInv, BookPageFits,
           NEW o \in OrderIds, NEW u \in Users, NEW s \in Sides, NEW q \in Quantities, Submit(o, u, s, q)
    PROVE  BookPageFits'
<1>1. UNCHANGED <<wire, pageVars, raced, unannounced>>
  BY DEF Submit
<1>2. o \notin Known /\ UNCHANGED rest /\ \A x \in OrderIds : x # o => terms'[x] = terms[x]
  BY SubmitAsks DEF BaseInv
<1>3. \A x \in Book : x # o /\ x \in OrderIds
  BY <1>2, BookHasPlaced DEF BaseInv, Book
<1>4. Levels' = Levels
  BY <1>2, <1>3, LevelsStay
<1>5. QED
  BY <1>1, <1>4, BookWhenLevelsStay DEF pageVars

LEMMA TradeBook ==
    ASSUME BookPageFits, NEW o \in OrderIds, NEW later \in {0, 1}, Trade(o, later)
    PROVE  BookPageFits'
BY DEF Trade, BookPageFits

\* The page is told, and will load again.
LEMMA BookWhenTold ==
    ASSUME BaseInv, NEW type \in {"ORDER_PLACED", "ORDER_CANCELLED"}, NEW o \in OrderIds,
           Sends([type |-> type, order |-> o])
    PROVE  BookPageFits'
<1>1. PICK e : e.type = type /\ Longer(wire, e, wire')
  BY SentIsSaid DEF BaseInv
<1>2. RefreshesOn(e)
  BY <1>1 DEF RefreshesOn
<1>3. PICK v : v = wire' /\ Longer(wire, e, v)
  BY <1>1
<1>4. Refreshing(v)
  BY <1>2, <1>3, RefreshingWithOneMore
<1>5. QED
  BY <1>3, <1>4 DEF BookPageFits, Refreshing

LEMMA RestsBook == ASSUME BaseInv, NEW o \in OrderIds, Rests(o) PROVE BookPageFits'
BY BookWhenTold DEF Rests

LEMMA FillsBook ==
    ASSUME ScreensAssumption, BaseInv, BookPageFits, NEW o \in OrderIds, Fills(o)
    PROVE  BookPageFits'
<1>1. UNCHANGED <<pageVars, raced, unannounced>>
  BY DEF Fills
<1>2. Levels' = Levels
  BY LevelsStay, FillsSays DEF BaseInv
<1>3. ASSUME Refreshing(wire) PROVE Refreshing(wire')
  <2>1. CASE terms[o].user = Me
    <3>1. PICK e : Longer(wire, e, wire')
      BY <2>1, SentIsSaid DEF Fills, SendsToOwner, BaseInv
    <3>2. QED
      BY <1>3, <3>1, RefreshingWithOneMore
  <2>2. CASE terms[o].user # Me
    BY <1>3, <2>2 DEF Fills, SendsToOwner
  <2>3. QED
    BY <2>1, <2>2
<1>4. QED
  BY <1>1, <1>2, <1>3, BookWhenLevelsStay DEF pageVars

LEMMA CancelsBook == ASSUME BaseInv, NEW o \in OrderIds, Cancels(o) PROVE BookPageFits'
<1>1. CASE terms[o].user = Me
  BY <1>1, BookWhenTold DEF Cancels, SendsToOwner
<1>2. CASE terms[o].user # Me
  BY <1>2 DEF Cancels, BookPageFits
<1>3. QED
  BY <1>1, <1>2

\* An answer is the book as it is, and the latest request's answer or not.
LEMMA AnswerBook ==
    ASSUME ScreensAssumption, BaseInv, NEW r \in DOMAIN request, Answer(r)
    PROVE  BookPageFits'
<1>1. /\ UNCHANGED marketVars /\ page' = page /\ request[r].at = "asked"
  BY DEF Answer
<1> SUFFICES ASSUME page.name = "book" PROVE BookPageFits'
  BY <1>1 DEF BookPageFits
<1>2. PICK p, q, n : p = request /\ q = request' /\ n = Len(q)
  OBVIOUS
<1>3. PICK x : Changed(p, r, x, q) /\ x.at = "answered" /\ x.data = Levels
  BY <1>2, AnswerBase
<1>4. r \in Outstanding
  BY <1>1 DEF Outstanding
<1>5. q[r] = x /\ Outstanding' = Outstanding
  BY <1>2, <1>3, <1>4, OutstandingChanged
<1>6. Levels' = Levels
  BY <1>1, QuietLevels
<1>7. (q[n].at = "answered" /\ q[n].data = Levels') \/ (\E k \in Outstanding' : k # n)
  BY <1>3, <1>4, <1>5, <1>6
<1>8. QED
  BY <1>2, <1>7, BookPageAgain

LEMMA FailBook ==
    ASSUME BaseInv, BookPageFits, NEW r \in DOMAIN request, Fail(r)
    PROVE  BookPageFits'
<1>1. /\ UNCHANGED marketVars /\ UNCHANGED <<wire, page, shownLevels, raced, unannounced>>
      /\ request[r].at = "asked"
  BY DEF Fail
<1>2. PICK p, q, n : p = request /\ q = request' /\ n = Len(p)
  OBVIOUS
<1>3. PICK x : Changed(p, r, x, q) /\ x.at = "failed"
  BY <1>2, FailBase
<1>4. r \in Outstanding
  BY <1>1 DEF Outstanding
<1>5. q[r] = x /\ Outstanding' = Outstanding /\ n = Len(q)
  BY <1>2, <1>3, <1>4, OutstandingChanged
<1>6. n # r => q[n] = p[n]
  <2>1. n \in DOMAIN p
    BY <1>2, <1>3 DEF Changed
  <2>2. QED
    BY <1>2, <1>3, <2>1, OutstandingChanged
<1>7. Levels' = Levels
  BY <1>1, QuietLevels
<1>8. page.name = "book" /\ page.mounted /\ ~raced /\ ~unannounced =>
        \/ Refreshing(wire)
        \/ \E k \in Outstanding : k # n
        \/ p[n].at \in {"asked", "failed"}
        \/ p[n].at = "answered" /\ p[n].data = Levels
        \/ p[n].at = "done" /\ shownLevels = Levels
  BY <1>2, BookPageNow
<1>9. CASE n = r
  <2>1. q[n].at \in {"asked", "failed"}
    BY <1>3, <1>5, <1>9
  <2>2. QED
    BY <1>2, <1>5, <2>1, BookPageAgain
<1>10. CASE n # r
  <2>1. q[n] = p[n]
    BY <1>6, <1>10
  <2>2. QED
    BY <1>1, <1>2, <1>5, <1>7, <1>8, <2>1, BookPageAgain
<1>11. QED
  BY <1>9, <1>10

LEMMA LoadBook ==
    ASSUME BaseInv, BookPageFits, NEW r \in DOMAIN request, Load(r)
    PROVE  BookPageFits'
<1>1. /\ UNCHANGED marketVars /\ UNCHANGED <<wire, page, unannounced>> /\ request[r].at = "answered"
      /\ raced' = (raced \/ (page.name = "book" /\ Overtakes(r)))
      /\ page.name = "book" => shownLevels' = request[r].data
  BY LoadShows
<1> SUFFICES ASSUME page.name = "book", page.mounted, ~raced, ~unannounced,
                    Outstanding = {r}, r = Len(request)
             PROVE  BookPageFits'
  BY <1>1 DEF BookPageFits, Overtakes
<1>2. PICK p, q : p = request /\ q = request' /\ r = Len(p)
  OBVIOUS
<1>3. PICK x : Changed(p, r, x, q) /\ x.at = "done"
  BY <1>2, LoadBase
<1>4. q[r] = x /\ Len(q) = r
  BY <1>2, <1>3, OutstandingChanged
<1>5. Levels' = Levels
  BY <1>1, QuietLevels
<1>6. Refreshing(wire) \/ p[r].data = Levels
  <2>1. \A k \in Outstanding : k = r
    OBVIOUS
  <2>2. p[r].at = "answered"
    BY <1>1, <1>2
  <2>3. \/ Refreshing(wire)
        \/ \E k \in Outstanding : k # r
        \/ p[r].at \in {"asked", "failed"}
        \/ p[r].at = "answered" /\ p[r].data = Levels
        \/ p[r].at = "done" /\ shownLevels = Levels
    BY <1>2, BookPageNow
  <2>4. QED
    BY <2>1, <2>2, <2>3
<1>7. Refreshing(wire') \/ (q[r].at = "done" /\ shownLevels' = Levels')
  BY <1>1, <1>2, <1>3, <1>4, <1>5, <1>6
<1>8. QED
  BY <1>2, <1>4, <1>7, BookPageAgain

\* The latest request is on its way.
LEMMA BookWhenAsked ==
    ASSUME NEW e, e.at = "asked", Longer(request, e, request') PROVE BookPageFits'
<1>1. PICK q, n : q = request' /\ n = Len(q)
  OBVIOUS
<1>2. q[n].at = "asked"
  BY <1>1, OutstandingAsked
<1>3. QED
  BY <1>1, <1>2, BookPageAgain

LEMMA MountBook == ASSUME BaseInv, Mount PROVE BookPageFits'
BY MountBase, BookWhenAsked

LEMMA RefetchBook == ASSUME BaseInv, Refetch PROVE BookPageFits'
BY RefetchBase, BookWhenAsked

LEMMA QuietBook ==
    ASSUME BookPageFits, UNCHANGED <<marketVars, wire, page, request, shownLevels, raced, unannounced>>
    PROVE  BookPageFits'
<1>1. UNCHANGED marketVars /\ UNCHANGED <<wire, page, request, shownLevels, raced, unannounced>>
  OBVIOUS
<1>2. QED
  BY <1>1, QuietLevels, BookWhenLevelsStay

LEMMA CancelRefusedBook == ASSUME BookPageFits, NEW o, CancelRefused(o) PROVE BookPageFits'
BY QuietBook DEF CancelRefused

\* An event makes the page load again, or has nothing to do with the book.
LEMMA HearBook == ASSUME BaseInv, BookPageFits, Hear PROVE BookPageFits'
<1>1. /\ UNCHANGED marketVars /\ UNCHANGED <<page, shownLevels, unannounced>>
      /\ page.name = "book" /\ page.mounted => BookHears(wire[1]) /\ raced' = raced
  <2>1. raced \in BOOLEAN
    BY DEF BaseInv, PageFits
  <2>2. QED
    BY <2>1, HearShows
<1> SUFFICES ASSUME page.name = "book", page.mounted PROVE BookPageFits'
  BY <1>1 DEF BookPageFits
<1>2. CASE RefreshesOn(wire[1])
  <2>1. Asks
    BY <1>1, <1>2 DEF BookHears
  <2>2. \E e : e.at = "asked" /\ Longer(request, e, request')
    <3>1. OrdersMove
      BY QuietSteps, HearShows
    <3>2. QED
      BY <1>1, <2>1, <3>1, RequestsAsk DEF BaseInv
  <2>3. QED
    BY <2>2, BookWhenAsked
<1>3. CASE ~RefreshesOn(wire[1])
  <2>1. request' = request /\ raced' = raced
    BY <1>1, <1>3 DEF BookHears
  <2>2. PICK w, v : w = wire /\ v = wire' /\ Shorter(w, v)
    BY HearTakes DEF BaseInv
  <2>3. Refreshing(w) => Refreshing(v)
    BY <1>3, <2>2, RefreshingWithOneLess
  <2>4. Refreshing(wire) => Refreshing(wire')
    BY <2>2, <2>3 DEF Refreshing
  <2>5. Levels' = Levels
    BY <1>1, QuietLevels
  <2>6. QED
    BY <1>1, <2>1, <2>4, <2>5, BookWhenLevelsStay
<1>4. QED
  BY <1>2, <1>3

LEMMA LoadFailsBook == ASSUME NEW r, LoadFails(r) PROVE BookPageFits'
BY DEF LoadFails, BookPageFits

LEMMA DropBook == ASSUME Drop PROVE BookPageFits'
BY DEF Drop, BookPageFits

-----------------------------------------------------------------------------
(* The trades' page.                                                       *)

Untraded(w) == \A i \in DOMAIN w : w[i].type # "TRADE_EXECUTED"

LEMMA TradesPageNow ==
    ASSUME TradesPageFits, page.name = "trades", page.mounted,
           NEW q, NEW S, request = q, shownTrades = S
    PROVE  /\ Len(q) = 1
           /\ ~raced /\ tape # <<>> /\ Untraded(wire) =>
               \/ liveArrived /\ NewestOn(S)
               \/ ~liveArrived /\ q[1].at \in {"asked", "failed"}
               \/ ~liveArrived /\ q[1].at = "answered" /\ NewestOn(q[1].data)
               \/ ~liveArrived /\ q[1].at = "done" /\ NewestOn(S)
BY DEF TradesPageFits, NewestOn, Untraded

LEMMA TradesPageAgain ==
    ASSUME NEW q, NEW S, request' = q, shownTrades' = S,
           page'.name = "trades" /\ page'.mounted =>
               /\ Len(q) = 1
               /\ ~raced' /\ tape' # <<>> /\ Untraded(wire') =>
                   \/ liveArrived' /\ NewestOn(S)'
                   \/ ~liveArrived' /\ q[1].at \in {"asked", "failed"}
                   \/ ~liveArrived' /\ q[1].at = "answered" /\ NewestOn(q[1].data)'
                   \/ ~liveArrived' /\ q[1].at = "done" /\ NewestOn(S)'
    PROVE  TradesPageFits'
BY DEF TradesPageFits, NewestOn, Untraded

LEMMA UntradedWithOneMore ==
    ASSUME NEW w, NEW e, NEW v, Longer(w, e, v), Untraded(v)
    PROVE  Untraded(w) /\ e.type # "TRADE_EXECUTED"
<1>1. PICK n \in Nat : /\ DOMAIN w = 1..n /\ DOMAIN v = 1..(n + 1) /\ v[n + 1] = e
                       /\ \A i \in 1..n : v[i] = w[i]
  BY DEF Longer
<1>2. 1..n \subseteq 1..(n + 1) /\ n + 1 \in 1..(n + 1)
  OBVIOUS
<1>3. QED
  BY <1>1, <1>2 DEF Untraded

LEMMA UntradedWithOneLess ==
    ASSUME NEW w, NEW v, Shorter(w, v), Untraded(v), w[1].type # "TRADE_EXECUTED"
    PROVE  Untraded(w)
<1>1. PICK n \in Nat : /\ DOMAIN w = 1..n /\ DOMAIN v = 1..(n - 1)
                       /\ \A i \in 1..(n - 1) : v[i] = w[i + 1]
  BY DEF Shorter
<1>2. ASSUME NEW i \in 1..n, i # 1 PROVE w[i].type # "TRADE_EXECUTED"
  <2>1. i - 1 \in 1..(n - 1) /\ (i - 1) + 1 = i
    BY <1>2
  <2>2. v[i - 1] = w[i]
    BY <1>1, <2>1
  <2>3. QED
    BY <1>1, <2>1, <2>2 DEF Untraded
<1>3. QED
  BY <1>1, <1>2 DEF Untraded

\* A step that changes neither the tape nor the page.
LEMMA TradesWhenTapeStays ==
    ASSUME TradesPageFits, UNCHANGED <<tape, page, request, shownTrades, liveArrived, raced>>,
           Untraded(wire') => Untraded(wire)
    PROVE  TradesPageFits'
<1>1. PICK q, S : q = request /\ S = shownTrades
  OBVIOUS
<1>2. NewestOn(S) => NewestOn(S)'
  BY DEF NewestOn
<1>3. NewestOn(q[1].data) => NewestOn(q[1].data)'
  BY DEF NewestOn
<1>4. QED
  BY <1>1, <1>2, <1>3, TradesPageNow, TradesPageAgain

LEMMA SubmitTrades ==
    ASSUME TradesPageFits,
           NEW o \in OrderIds, NEW u \in Users, NEW s \in Sides, NEW q \in Quantities, Submit(o, u, s, q)
    PROVE  TradesPageFits'
<1>1. UNCHANGED <<tape, page, request, shownTrades, liveArrived, raced>> /\ wire' = wire
  BY DEF Submit, pageVars
<1>2. QED
  BY <1>1, TradesWhenTapeStays

\* The trade is on its way to the page.
LEMMA TradeTrades ==
    ASSUME BaseInv, TradesPageFits, NEW o \in OrderIds, NEW later \in {0, 1}, Trade(o, later)
    PROVE  TradesPageFits'
<1>1. request' = request /\ page' = page
  BY DEF Trade, pageVars
<1>2. ~Untraded(wire')
  <2>1. PICK e : e.type = "TRADE_EXECUTED" /\ wire' = Append(wire, e)
    BY DEF Trade, Sends
  <2>2. Longer(wire, e, wire')
    BY <2>1, AppendIsLonger DEF BaseInv, WireFits
  <2>3. QED
    BY <2>1, <2>2, UntradedWithOneMore
<1>3. QED
  BY <1>1, <1>2 DEF TradesPageFits, Untraded

\* Another event is sent, or none.
LEMMA TradesWhenSent ==
    ASSUME BaseInv, TradesPageFits, UNCHANGED <<tape, pageVars, raced>>,
           NEW type \in {"ORDER_PLACED", "ORDER_FILLED", "ORDER_CANCELLED"}, NEW o \in OrderIds,
           Sends([type |-> type, order |-> o]) \/ wire' = wire
    PROVE  TradesPageFits'
<1>1. UNCHANGED <<tape, page, request, shownTrades, liveArrived, raced>>
  BY DEF pageVars
<1>2. ASSUME Untraded(wire') PROVE Untraded(wire)
  <2>1. CASE Sends([type |-> type, order |-> o])
    <3>1. PICK e : Longer(wire, e, wire')
      BY <2>1, SentIsSaid DEF BaseInv
    <3>2. QED
      BY <1>2, <3>1, UntradedWithOneMore
  <2>2. CASE wire' = wire
    BY <1>2, <2>2
  <2>3. QED
    BY <2>1, <2>2
<1>3. QED
  BY <1>1, <1>2, TradesWhenTapeStays

LEMMA RestsTrades == ASSUME BaseInv, TradesPageFits, NEW o \in OrderIds, Rests(o) PROVE TradesPageFits'
<1>1. UNCHANGED <<tape, pageVars, raced>> /\ Sends([type |-> "ORDER_PLACED", order |-> o])
  BY DEF Rests
<1>2. QED
  BY <1>1, TradesWhenSent

LEMMA FillsTrades == ASSUME BaseInv, TradesPageFits, NEW o \in OrderIds, Fills(o) PROVE TradesPageFits'
<1>1. /\ UNCHANGED <<tape, pageVars, raced>>
      /\ Sends([type |-> "ORDER_FILLED", order |-> o]) \/ wire' = wire
  BY DEF Fills, SendsToOwner
<1>2. QED
  BY <1>1, TradesWhenSent

LEMMA CancelsTrades == ASSUME BaseInv, TradesPageFits, NEW o \in OrderIds, Cancels(o) PROVE TradesPageFits'
<1>1. /\ UNCHANGED <<tape, pageVars, raced>>
      /\ Sends([type |-> "ORDER_CANCELLED", order |-> o]) \/ wire' = wire
  BY DEF Cancels, SendsToOwner
<1>2. QED
  BY <1>1, TradesWhenSent

LEMMA TradesWhenRaced ==
    ASSUME TradesPageFits, raced', page' = page, Len(request') = Len(request)
    PROVE  TradesPageFits'
BY DEF TradesPageFits

LEMMA DropTrades == ASSUME TradesPageFits, Drop PROVE TradesPageFits'
BY TradesWhenRaced DEF Drop, pageVars

LEMMA LoadFailsTrades ==
    ASSUME BaseInv, TradesPageFits, NEW r \in DOMAIN request, LoadFails(r)
    PROVE  TradesPageFits'
<1>1. PICK x : Changed(request, r, x, request')
  BY LoadFailsBase
<1>2. Len(request') = Len(request)
  BY <1>1, OutstandingChanged
<1>3. QED
  BY <1>2, TradesWhenRaced DEF LoadFails

\* The trades' page has one request.
LEMMA OnlyRequest ==
    ASSUME BaseInv, TradesPageFits, page.name = "trades", NEW r \in DOMAIN request
    PROVE  r = 1 /\ page.mounted
<1>1. request # <<>>
  OBVIOUS
<1>2. page.mounted
  BY <1>1 DEF BaseInv, RequestsFit
<1>3. Len(request) = 1
  BY <1>2 DEF TradesPageFits
<1>4. DOMAIN request = 1..1
  BY <1>3 DEF BaseInv, RequestsFit
<1>5. QED
  BY <1>2, <1>4

LEMMA AnswerTrades ==
    ASSUME ScreensAssumption, BaseInv, TradesPageFits, NEW r \in DOMAIN request, Answer(r)
    PROVE  TradesPageFits'
<1>1. /\ UNCHANGED <<tape, wire, page, shownTrades, liveArrived, raced>> /\ request[r].at = "asked"
  BY DEF Answer
<1> SUFFICES ASSUME page.name = "trades" PROVE TradesPageFits'
  BY <1>1 DEF TradesPageFits
<1>2. PICK p, q, S : p = request /\ q = request' /\ S = shownTrades
  OBVIOUS
<1>3. PICK x : Changed(p, r, x, q) /\ x.at = "answered" /\ x.data = Recent
  BY <1>2, AnswerBase
<1>4. r = 1 /\ page.mounted /\ liveArrived \in BOOLEAN
  BY OnlyRequest DEF BaseInv, PageFits
<1>5. Len(q) = Len(p) /\ q[1] = x
  BY <1>2, <1>3, <1>4, OutstandingChanged
<1>6. PICK d : d = x.data
  OBVIOUS
<1>7. tape # <<>> => NewestOn(d)
  BY <1>3, <1>6, RecentFits DEF NewestOn, BaseInv
<1>8. tape # <<>> => NewestOn(d)'
  BY <1>1, <1>7 DEF NewestOn
<1>9. NewestOn(S) => NewestOn(S)'
  BY <1>1 DEF NewestOn
<1>10. /\ Len(p) = 1
       /\ ~raced /\ tape # <<>> /\ Untraded(wire) => ~liveArrived \/ NewestOn(S)
  BY <1>2, <1>4, TradesPageNow
<1>11. tape # <<>> => q[1].at = "answered" /\ NewestOn(q[1].data)'
  BY <1>3, <1>5, <1>6, <1>8
<1>12. QED
  BY <1>1, <1>2, <1>4, <1>5, <1>9, <1>10, <1>11, TradesPageAgain

LEMMA FailTrades ==
    ASSUME BaseInv, TradesPageFits, NEW r \in DOMAIN request, Fail(r)
    PROVE  TradesPageFits'
<1>1. /\ UNCHANGED <<tape, wire, page, shownTrades, liveArrived, raced>>
  BY DEF Fail
<1> SUFFICES ASSUME page.name = "trades" PROVE TradesPageFits'
  BY <1>1 DEF TradesPageFits
<1>2. PICK p, q, S : p = request /\ q = request' /\ S = shownTrades
  OBVIOUS
<1>3. PICK x : Changed(p, r, x, q) /\ x.at = "failed"
  BY <1>2, FailBase
<1>4. r = 1 /\ page.mounted /\ liveArrived \in BOOLEAN
  BY OnlyRequest DEF BaseInv, PageFits
<1>5. Len(q) = Len(p) /\ q[1].at = "failed"
  BY <1>2, <1>3, <1>4, OutstandingChanged
<1>6. NewestOn(S) => NewestOn(S)'
  BY <1>1 DEF NewestOn
<1>7. /\ Len(p) = 1
      /\ ~raced /\ tape # <<>> /\ Untraded(wire) => ~liveArrived \/ NewestOn(S)
  BY <1>2, <1>4, TradesPageNow
<1>8. QED
  BY <1>1, <1>2, <1>4, <1>5, <1>6, <1>7, TradesPageAgain

\* Live trades stay; else the answer is shown.
LEMMA LoadTrades ==
    ASSUME BaseInv, TradesPageFits, NEW r \in DOMAIN request, Load(r)
    PROVE  TradesPageFits'
<1>1. /\ UNCHANGED tape /\ UNCHANGED <<wire, page, liveArrived>> /\ request[r].at = "answered"
      /\ page.name = "trades" =>
           raced' = raced /\ shownTrades' = IF liveArrived THEN shownTrades ELSE request[r].data
  <2>1. raced \in BOOLEAN
    BY DEF BaseInv, PageFits
  <2>2. QED
    BY <2>1, LoadShows
<1> SUFFICES ASSUME page.name = "trades" PROVE TradesPageFits'
  BY <1>1 DEF TradesPageFits
<1>2. PICK p, q, S, T : p = request /\ q = request' /\ S = shownTrades /\ T = shownTrades'
  OBVIOUS
<1>3. PICK x : Changed(p, r, x, q) /\ x.at = "done"
  BY <1>2, LoadBase
<1>4. r = 1 /\ page.mounted /\ liveArrived \in BOOLEAN
  BY OnlyRequest DEF BaseInv, PageFits
<1>5. Len(q) = Len(p) /\ q[1].at = "done"
  BY <1>2, <1>3, <1>4, OutstandingChanged
<1>6. p[1].at = "answered" /\ T = IF liveArrived THEN S ELSE p[1].data
  BY <1>1, <1>2, <1>4
<1>7. /\ Len(p) = 1
      /\ ~raced /\ tape # <<>> /\ Untraded(wire) =>
           \/ liveArrived /\ NewestOn(S)
           \/ ~liveArrived /\ NewestOn(p[1].data)
  BY <1>2, <1>4, <1>6, TradesPageNow
<1>8. ~raced /\ tape # <<>> /\ Untraded(wire) => NewestOn(T)
  BY <1>6, <1>7 DEF NewestOn
<1>9. NewestOn(T) => NewestOn(T)'
  BY <1>1 DEF NewestOn
<1>10. QED
  BY <1>1, <1>2, <1>4, <1>5, <1>7, <1>8, <1>9, TradesPageAgain

LEMMA MountTrades ==
    ASSUME BaseInv, UnmountedFits, Mount
    PROVE  TradesPageFits'
<1>1. ~liveArrived /\ liveArrived' = liveArrived
  BY DEF Mount, UnmountedFits
<1>2. PICK e : e.at = "asked" /\ Longer(request, e, request')
  BY MountBase
<1>3. request = <<>>
  BY MountBase
<1>4. Len(request) = 0
  BY <1>3
<1>5. PICK q, S : q = request' /\ S = shownTrades'
  OBVIOUS
<1>6. Len(q) = 1 /\ q[1].at = "asked"
  <2>1. Len(request') = Len(request) + 1 /\ request'[Len(request) + 1].at = "asked"
    BY <1>2, OutstandingAsked
  <2>2. QED
    BY <1>4, <1>5, <2>1
<1>7. QED
  BY <1>1, <1>5, <1>6, TradesPageAgain

LEMMA CancelRefusedTrades == ASSUME TradesPageFits, NEW o, CancelRefused(o) PROVE TradesPageFits'
BY TradesWhenTapeStays DEF CancelRefused

LEMMA RefetchTrades == ASSUME Refetch PROVE TradesPageFits'
BY DEF Refetch, TradesPageFits

\* When no trade is left on its way the one just heard is the latest.
LEMMA HearTrades ==
    ASSUME ScreensAssumption, BaseInv, TradesPageFits, Hear
    PROVE  TradesPageFits'
<1>1. /\ UNCHANGED <<page, tape>>
      /\ page.name = "trades" /\ page.mounted => request' = request /\ raced' = raced
  <2>1. raced \in BOOLEAN
    BY DEF BaseInv, PageFits
  <2>2. QED
    BY <2>1, HearShows
<1> SUFFICES ASSUME page.name = "trades", page.mounted PROVE TradesPageFits'
  BY <1>1 DEF TradesPageFits
<1>2. PICK w, v, n : w = wire /\ v = wire' /\ n = Len(tape) /\ Shorter(w, v) /\ LatestComes(w, n)
  BY HearTakes DEF BaseInv, WireFits
<1>3. CASE w[1].type = "TRADE_EXECUTED"
  <2>1. PICK q, S : q = request /\ S = shownTrades'
    OBVIOUS
  <2>2. liveArrived' /\ OnTopOf(w[1].trade, shownTrades, S)
    BY <1>2, <1>3, <2>1, TradesHeard
  <2>3. Len(q) = 1
    BY <2>1 DEF TradesPageFits
  <2>4. ASSUME Untraded(v) PROVE NewestOn(S)'
    <3>1. w[1].trade = n
      BY <1>2, <1>3, <2>4, LatestWithOneLess DEF Untraded
    <3>2. S # <<>> /\ S[1] = n
      BY <2>2, <3>1 DEF OnTopOf
    <3>3. QED
      BY <1>1, <1>2, <3>2 DEF NewestOn
  <2>5. Untraded(wire') => NewestOn(S)'
    BY <1>2, <2>4 DEF Untraded
  <2>6. QED
    BY <1>1, <2>1, <2>2, <2>3, <2>5, TradesPageAgain
<1>4. CASE w[1].type # "TRADE_EXECUTED"
  <2>1. UNCHANGED <<liveArrived, shownTrades>>
    BY <1>2, <1>4, TradesHeard
  <2>2. Untraded(v) => Untraded(w)
    BY <1>2, <1>4, UntradedWithOneLess
  <2>3. Untraded(wire') => Untraded(wire)
    BY <1>2, <2>2 DEF Untraded
  <2>4. QED
    BY <1>1, <2>1, <2>3, TradesWhenTapeStays
<1>5. QED
  BY <1>3, <1>4

-----------------------------------------------------------------------------
(* The invariant.                                                          *)

LEMMA InitFits == ASSUME ScreensAssumption, ScreensInit PROVE SInv
<1>1. /\ terms = [o \in OrderIds |-> NoTerms] /\ taking = [o \in OrderIds |-> 0]
      /\ rest = [o \in OrderIds |-> 0] /\ bought = [o \in OrderIds |-> 0]
      /\ told = [o \in OrderIds |-> {}]
  BY DEF ScreensInit, MarketInit
<1>2. /\ tape = <<>> /\ wire = <<>> /\ request = <<>> /\ shownTrades = <<>> /\ shownOrders = {}
      /\ error = FALSE /\ liveArrived = FALSE /\ raced = FALSE /\ unannounced = FALSE
      /\ page \in [name : Pages, mounted : {FALSE}]
  BY DEF ScreensInit
<1>3. Known = {}
  BY <1>1 DEF Known
<1>4. LivesFit
  <2>1. ASSUME NEW o \in OrderIds PROVE LifeFits(o)
    BY <1>1, <1>3 DEF LifeFits
  <2>2. QED
    BY <1>1, <2>1 DEF LivesFit
<1>5. TapeFits
  BY <1>2 DEF TapeFits
<1>6. WireFits
  <2>1. Mine = {}
    BY <1>3 DEF Mine
  <2>2. DOMAIN wire = {} /\ wire \in Seq(Event)
    BY <1>2
  <2>3. OrderOfEvents(wire)
    BY <2>2 DEF OrderOfEvents
  <2>4. LatestComes(wire, Len(tape))
    BY <2>2 DEF LatestComes
  <2>5. CancelFollows
    BY <2>1 DEF CancelFollows
  <2>6. QED
    BY <2>2, <2>3, <2>4, <2>5 DEF WireFits
<1>7. page.name \in Pages /\ ~page.mounted /\ page \in [name : Pages, mounted : BOOLEAN]
  BY <1>2
<1>8. RequestsFit
  <2>1. DOMAIN request = {} /\ request \in Seq(Elements(request))
    BY <1>2
  <2>2. QED
    BY <1>2, <1>7, <2>1 DEF RequestsFit
<1>9. PageFits
  <2>1. Len(shownTrades) <= Limit /\ shownTrades \in Seq(DOMAIN tape)
    BY <1>2 DEF ScreensAssumption
  <2>2. QED
    BY <1>2, <1>7, <2>1 DEF PageFits
<1>10. OrdersPageFits
  <2>1. Outstanding = {}
    BY <1>2 DEF Outstanding
  <2>2. QED
    BY <1>7, <2>1 DEF OrdersPageFits
<1>11. BookPageFits /\ TradesPageFits
  BY <1>7 DEF BookPageFits, TradesPageFits
<1>12. UnmountedFits
  BY <1>2 DEF UnmountedFits
<1>13. QED
  BY <1>4, <1>5, <1>6, <1>8, <1>9, <1>10, <1>11, <1>12 DEF SInv

\* Only a mounted page hears.
LEMMA UnmountedStays ==
    ASSUME UnmountedFits, page' = page, liveArrived' = liveArrived
    PROVE  UnmountedFits'
BY DEF UnmountedFits

LEMMA MarketStep ==
    ASSUME ScreensAssumption, SInv, NEW o \in OrderIds,
           \/ \E u \in Users, s \in Sides, q \in Quantities : Submit(o, u, s, q)
           \/ \E later \in {0, 1} : Trade(o, later)
           \/ Rests(o) \/ Fills(o) \/ Cancels(o) \/ CancelRefused(o)
    PROVE  SInv'
<1>1. /\ BaseInv /\ OrdersPageFits /\ BookPageFits /\ TradesPageFits /\ UnmountedFits
  BY DEF SInv, BaseInv
<1>2. CASE \E u \in Users, s \in Sides, q \in Quantities : Submit(o, u, s, q)
  <2>1. PICK u \in Users, s \in Sides, q \in Quantities : Submit(o, u, s, q)
    BY <1>2
  <2>2. BaseInv'
    BY <1>1, <2>1, SubmitBase
  <2>3. OrdersPageFits'
    BY <1>1, <2>1, SubmitOrders
  <2>4. BookPageFits'
    BY <1>1, <2>1, SubmitBook
  <2>5. TradesPageFits'
    BY <1>1, <2>1, SubmitTrades
  <2>6. UnmountedFits'
    BY <1>1, <2>1, UnmountedStays DEF Submit, pageVars
  <2>7. QED
    BY <2>2, <2>3, <2>4, <2>5, <2>6 DEF SInv, BaseInv
<1>3. CASE \E later \in {0, 1} : Trade(o, later)
  <2>1. PICK later \in {0, 1} : Trade(o, later)
    BY <1>3
  <2>2. BaseInv'
    BY <1>1, <2>1, TradeBase
  <2>3. OrdersPageFits'
    BY <1>1, <2>1, TradeOrders
  <2>4. BookPageFits'
    BY <1>1, <2>1, TradeBook
  <2>5. TradesPageFits'
    BY <1>1, <2>1, TradeTrades
  <2>6. UnmountedFits'
    BY <1>1, <2>1, UnmountedStays DEF Trade, pageVars
  <2>7. QED
    BY <2>2, <2>3, <2>4, <2>5, <2>6 DEF SInv, BaseInv
<1>4. CASE Rests(o)
  <2>1. BaseInv'
    BY <1>1, <1>4, RestsBase
  <2>2. OrdersPageFits'
    BY <1>1, <1>4, RestsOrders
  <2>3. BookPageFits'
    BY <1>1, <1>4, RestsBook
  <2>4. TradesPageFits'
    BY <1>1, <1>4, RestsTrades
  <2>5. UnmountedFits'
    BY <1>1, <1>4, UnmountedStays DEF Rests, pageVars
  <2>6. QED
    BY <2>1, <2>2, <2>3, <2>4, <2>5 DEF SInv, BaseInv
<1>5. CASE Fills(o)
  <2>1. BaseInv'
    BY <1>1, <1>5, FillsBase
  <2>2. OrdersPageFits'
    BY <1>1, <1>5, FillsOrders
  <2>3. BookPageFits'
    BY <1>1, <1>5, FillsBook
  <2>4. TradesPageFits'
    BY <1>1, <1>5, FillsTrades
  <2>5. UnmountedFits'
    BY <1>1, <1>5, UnmountedStays DEF Fills, pageVars
  <2>6. QED
    BY <2>1, <2>2, <2>3, <2>4, <2>5 DEF SInv, BaseInv
<1>6. CASE Cancels(o)
  <2>1. BaseInv'
    BY <1>1, <1>6, CancelsBase
  <2>2. OrdersPageFits'
    BY <1>1, <1>6, CancelsOrders
  <2>3. BookPageFits'
    BY <1>1, <1>6, CancelsBook
  <2>4. TradesPageFits'
    BY <1>1, <1>6, CancelsTrades
  <2>5. UnmountedFits'
    BY <1>1, <1>6, UnmountedStays DEF Cancels, pageVars
  <2>6. QED
    BY <2>1, <2>2, <2>3, <2>4, <2>5 DEF SInv, BaseInv
<1>7. CASE CancelRefused(o)
  <2>1. BaseInv'
    BY <1>1, <1>7, CancelRefusedBase
  <2>2. OrdersPageFits'
    BY <1>1, <1>7, CancelRefusedOrders
  <2>3. BookPageFits'
    BY <1>1, <1>7, CancelRefusedBook
  <2>4. TradesPageFits'
    BY <1>1, <1>7, CancelRefusedTrades
  <2>5. UnmountedFits'
    BY <1>1, <1>7, UnmountedStays DEF CancelRefused
  <2>6. QED
    BY <2>1, <2>2, <2>3, <2>4, <2>5 DEF SInv, BaseInv
<1>8. QED
  BY <1>2, <1>3, <1>4, <1>5, <1>6, <1>7

LEMMA RequestStep ==
    ASSUME ScreensAssumption, SInv, NEW r \in DOMAIN request,
           Answer(r) \/ Fail(r) \/ Load(r) \/ LoadFails(r)
    PROVE  SInv'
<1>1. /\ BaseInv /\ OrdersPageFits /\ BookPageFits /\ TradesPageFits /\ UnmountedFits
  BY DEF SInv, BaseInv
<1>2. CASE Answer(r)
  <2>1. BaseInv'
    BY <1>1, <1>2, AnswerBase
  <2>2. OrdersPageFits'
    BY <1>1, <1>2, AnswerOrders
  <2>3. BookPageFits'
    BY <1>1, <1>2, AnswerBook
  <2>4. TradesPageFits'
    BY <1>1, <1>2, AnswerTrades
  <2>5. UnmountedFits'
    BY <1>1, <1>2, UnmountedStays DEF Answer
  <2>6. QED
    BY <2>1, <2>2, <2>3, <2>4, <2>5 DEF SInv, BaseInv
<1>3. CASE Fail(r)
  <2>1. BaseInv'
    BY <1>1, <1>3, FailBase
  <2>2. OrdersPageFits'
    BY <1>1, <1>3, FailOrders
  <2>3. BookPageFits'
    BY <1>1, <1>3, FailBook
  <2>4. TradesPageFits'
    BY <1>1, <1>3, FailTrades
  <2>5. UnmountedFits'
    BY <1>1, <1>3, UnmountedStays DEF Fail
  <2>6. QED
    BY <2>1, <2>2, <2>3, <2>4, <2>5 DEF SInv, BaseInv
<1>4. CASE Load(r)
  <2>1. BaseInv'
    BY <1>1, <1>4, LoadBase
  <2>2. OrdersPageFits'
    BY <1>1, <1>4, LoadOrders
  <2>3. BookPageFits'
    BY <1>1, <1>4, LoadBook
  <2>4. TradesPageFits'
    BY <1>1, <1>4, LoadTrades
  <2>5. UnmountedFits'
    BY <1>1, <1>4, UnmountedStays DEF Load
  <2>6. QED
    BY <2>1, <2>2, <2>3, <2>4, <2>5 DEF SInv, BaseInv
<1>5. CASE LoadFails(r)
  <2>1. BaseInv'
    BY <1>1, <1>5, LoadFailsBase
  <2>2. OrdersPageFits'
    BY <1>1, <1>5, LoadFailsOrders
  <2>3. BookPageFits'
    BY <1>5, LoadFailsBook
  <2>4. TradesPageFits'
    BY <1>1, <1>5, LoadFailsTrades
  <2>5. UnmountedFits'
    BY <1>1, <1>5, UnmountedStays DEF LoadFails
  <2>6. QED
    BY <2>1, <2>2, <2>3, <2>4, <2>5 DEF SInv, BaseInv
<1>6. QED
  BY <1>2, <1>3, <1>4, <1>5

LEMMA PageStep ==
    ASSUME ScreensAssumption, SInv, Mount \/ Refetch \/ Hear \/ Drop
    PROVE  SInv'
<1>1. /\ BaseInv /\ OrdersPageFits /\ BookPageFits /\ TradesPageFits /\ UnmountedFits
  BY DEF SInv, BaseInv
<1>2. CASE Mount
  <2>1. BaseInv' /\ page'.mounted
    BY <1>1, <1>2, MountBase
  <2>2. OrdersPageFits'
    BY <1>1, <1>2, MountOrders
  <2>3. BookPageFits'
    BY <1>1, <1>2, MountBook
  <2>4. TradesPageFits'
    BY <1>1, <1>2, MountTrades
  <2>5. UnmountedFits'
    BY <2>1 DEF UnmountedFits
  <2>6. QED
    BY <2>1, <2>2, <2>3, <2>4, <2>5 DEF SInv, BaseInv
<1>3. CASE Refetch
  <2>1. BaseInv'
    BY <1>1, <1>3, RefetchBase
  <2>2. OrdersPageFits'
    BY <1>1, <1>3, RefetchOrders
  <2>3. BookPageFits'
    BY <1>1, <1>3, RefetchBook
  <2>4. TradesPageFits'
    BY <1>3, RefetchTrades
  <2>5. UnmountedFits'
    BY <1>1, <1>3, UnmountedStays DEF Refetch
  <2>6. QED
    BY <2>1, <2>2, <2>3, <2>4, <2>5 DEF SInv, BaseInv
<1>4. CASE Hear
  <2>1. BaseInv'
    BY <1>1, <1>4, HearBase
  <2>2. OrdersPageFits'
    BY <1>1, <1>4, HearOrders
  <2>3. BookPageFits'
    BY <1>1, <1>4, HearBook
  <2>4. TradesPageFits'
    BY <1>1, <1>4, HearTrades
  <2>5. UnmountedFits'
    BY <1>1, <1>4, HearShows DEF UnmountedFits
  <2>6. QED
    BY <2>1, <2>2, <2>3, <2>4, <2>5 DEF SInv, BaseInv
<1>5. CASE Drop
  <2>1. BaseInv'
    BY <1>1, <1>5, DropBase
  <2>2. OrdersPageFits'
    BY <1>1, <1>5, DropOrders
  <2>3. BookPageFits'
    BY <1>5, DropBook
  <2>4. TradesPageFits'
    BY <1>1, <1>5, DropTrades
  <2>5. UnmountedFits'
    BY <1>1, <1>5, UnmountedStays DEF Drop, pageVars
  <2>6. QED
    BY <2>1, <2>2, <2>3, <2>4, <2>5 DEF SInv, BaseInv
<1>6. QED
  BY <1>2, <1>3, <1>4, <1>5

LEMMA StutterFits == ASSUME SInv, UNCHANGED screenVars PROVE SInv'
<1>1. /\ BaseInv /\ OrdersPageFits /\ BookPageFits /\ TradesPageFits /\ UnmountedFits
  BY DEF SInv, BaseInv
<1>2. /\ UNCHANGED <<marketVars, tape>> /\ UNCHANGED pageVars
      /\ UNCHANGED <<wire, raced, unannounced>>
  BY DEF screenVars
<1>3. UNCHANGED <<page, request, shownOrders, shownLevels, shownTrades, liveArrived>>
  BY <1>2 DEF pageVars
<1>4. LivesFit' /\ TapeFits' /\ OrdersMove
  BY <1>1, <1>2, QuietSteps
<1>5. WireFits'
  BY <1>1, <1>2, QuietWire DEF BaseInv
<1>6. RequestsFit' /\ PageFits'
  <2>1. raced' \in BOOLEAN /\ unannounced' \in BOOLEAN
    BY <1>1, <1>2 DEF BaseInv, PageFits
  <2>2. QED
    BY <1>1, <1>2, <1>4, <2>1, PageStays
<1>7. OrdersPageFits'
  BY <1>1, <1>2, <1>3, QuietOrders
<1>8. BookPageFits'
  BY <1>1, <1>2, <1>3, QuietBook
<1>9. TradesPageFits'
  BY <1>1, <1>2, <1>3, TradesWhenTapeStays
<1>10. UnmountedFits'
  BY <1>1, <1>3, UnmountedStays
<1>11. QED
  BY <1>4, <1>5, <1>6, <1>7, <1>8, <1>9, <1>10 DEF SInv

\* The invariant holds of every behaviour.
LEMMA AlwaysFits == ScreensSpec => []SInv
<1>1. ScreensInit => SInv
  BY ScreensAssumption, InitFits
<1>2. SInv /\ [ScreensNext]_screenVars => SInv'
  <2> SUFFICES ASSUME SInv, [ScreensNext]_screenVars PROVE SInv'
    OBVIOUS
  <2>1. CASE \E o \in OrderIds :
               \/ \E u \in Users, s \in Sides, q \in Quantities : Submit(o, u, s, q)
               \/ \E later \in {0, 1} : Trade(o, later)
               \/ Rests(o) \/ Fills(o) \/ Cancels(o) \/ CancelRefused(o)
    BY <2>1, ScreensAssumption, MarketStep
  <2>2. CASE \E r \in DOMAIN request : Answer(r) \/ Fail(r) \/ Load(r) \/ LoadFails(r)
    BY <2>2, ScreensAssumption, RequestStep
  <2>3. CASE Mount \/ Refetch \/ Hear \/ Drop
    BY <2>3, ScreensAssumption, PageStep
  <2>4. CASE UNCHANGED screenVars
    BY <2>4, StutterFits
  <2>5. QED
    BY <2>1, <2>2, <2>3, <2>4 DEF ScreensNext
<1>3. QED
  BY <1>1, <1>2, PTL DEF ScreensSpec

-----------------------------------------------------------------------------
(* What the pages show.                                                    *)

LEMMA TypesFit == ASSUME SInv PROVE ScreensTypeOK
<1>1. \A i \in DOMAIN shownTrades : shownTrades[i] \in DOMAIN tape
  <2>1. PICK S : S = DOMAIN tape
    OBVIOUS
  <2>2. shownTrades \in Seq(S)
    BY <2>1 DEF SInv, PageFits
  <2>3. QED
    BY <2>1, <2>2
<1>2. shownOrders \subseteq OrderIds
  BY DEF SInv, PageFits, Mine, Known
<1>3. QED
  BY <1>1, <1>2 DEF SInv, PageFits, RequestsFit, ScreensTypeOK

LEMMA SettledOrders == ASSUME SInv PROVE OpenOrdersShown
<1> SUFFICES ASSUME Settled, page.name = "orders", ~raced
             PROVE  /\ OpenOrders \subseteq shownOrders
                    /\ \A o \in shownOrders \ OpenOrders : bought[o] = terms[o].size
  BY DEF OpenOrdersShown
<1>1. PICK S : S = shownOrders
  OBVIOUS
<1>2. Said(wire) = {}
  BY DEF Settled, Said
<1>3. page.mounted /\ Outstanding = {}
  BY DEF Settled
<1>4. Agrees(S)
  BY <1>1, <1>3, OrdersPageNow DEF SInv
<1>5. S \subseteq Mine
  BY <1>1 DEF SInv, PageFits
<1>6. \A o \in Mine : o \in Becomes(S) <=> o \in S
  BY <1>2 DEF Becomes
<1>7. OpenOrders \subseteq Mine /\ OpenOrders \subseteq Book
  BY BookHasPlaced DEF SInv, OpenOrders, Mine
<1>8. ASSUME NEW o \in Mine PROVE o \in Book <=> o \in OpenOrders
  BY DEF OpenOrders, Mine
<1>9. ASSUME NEW o \in OpenOrders PROVE o \in S
  BY <1>4, <1>6, <1>7 DEF Agrees
<1>10. ASSUME NEW o \in S, o \notin OpenOrders PROVE bought[o] = terms[o].size
  BY <1>4, <1>5, <1>6, <1>8, <1>10 DEF Agrees
<1>11. QED
  BY <1>1, <1>9, <1>10

\* The latest of a mounted page's requests.
LEMMA LatestRequest ==
    ASSUME RequestsFit, page.mounted, Outstanding = {}
    PROVE  Len(request) \in DOMAIN request /\ request[Len(request)].at = "done"
<1>1. request # <<>>
  BY DEF RequestsFit
<1>2. PICK S, q : q = request /\ q \in Seq(S)
  BY DEF RequestsFit
<1>3. Len(q) \in DOMAIN q
  BY <1>1, <1>2, EmptySeq
<1>4. QED
  BY <1>2, <1>3 DEF Outstanding

LEMMA SettledBook == ASSUME SInv PROVE BookShown
<1> SUFFICES ASSUME Settled, page.name = "book", ~raced, ~unannounced PROVE shownLevels = Levels
  BY DEF BookShown
<1>1. PICK q, n : q = request /\ n = Len(q)
  OBVIOUS
<1>2. page.mounted /\ Outstanding = {} /\ ~Refreshing(wire)
  BY DEF Settled, Refreshing
<1>3. q[n].at = "done"
  BY <1>1, <1>2, LatestRequest DEF SInv
<1>4. QED
  BY <1>1, <1>2, <1>3, BookPageNow DEF SInv

LEMMA SettledTrades == ASSUME SInv PROVE NewestTradeOnTop
<1> SUFFICES ASSUME Settled, page.name = "trades", ~raced, tape # <<>>
             PROVE  shownTrades # <<>> /\ tape[Head(shownTrades)] = Last(tape)
  BY DEF NewestTradeOnTop
<1>1. PICK q, S : q = request /\ S = shownTrades
  OBVIOUS
<1>2. page.mounted /\ Outstanding = {} /\ Untraded(wire)
  BY DEF Settled, Untraded
<1>3. Len(q) = 1
  BY <1>1, <1>2, TradesPageNow DEF SInv
<1>4. q[1].at = "done"
  BY <1>1, <1>2, <1>3, LatestRequest DEF SInv
<1>5. NewestOn(S)
  BY <1>1, <1>2, <1>4, TradesPageNow DEF SInv
<1>6. S # <<>> /\ tape[S[1]] = tape[Len(tape)]
  BY <1>5 DEF NewestOn
<1>7. Head(S) = S[1]
  <2>1. PICK D : S \in Seq(D)
    BY <1>1 DEF SInv, PageFits
  <2>2. QED
    BY <1>6, <2>1, TailIsShorter DEF Shorter
<1>8. QED
  BY <1>1, <1>6, <1>7 DEF Last

\* A live trade leaves its place to a newer one, and never to an answer.
LEMMA LiveTradesKept ==
    ASSUME ScreensAssumption, SInv, [ScreensNext]_screenVars, liveArrived, shownTrades' # shownTrades
    PROVE  /\ Len(shownTrades') \in {Len(shownTrades), Len(shownTrades) + 1}
           /\ Tail(shownTrades') = SubSeq(shownTrades, 1, Len(shownTrades') - 1)
<1>1. BaseInv /\ page.name \in {"orders", "book", "trades"}
  BY DEF SInv, BaseInv, PageFits, Pages
<1>2. ASSUME NEW o \in OrderIds,
             \/ \E u \in Users, s \in Sides, q \in Quantities : Submit(o, u, s, q)
             \/ \E later \in {0, 1} : Trade(o, later)
             \/ Rests(o) \/ Fills(o) \/ Cancels(o) \/ CancelRefused(o)
      PROVE  FALSE
  BY <1>2 DEF Submit, Trade, Rests, Fills, Cancels, CancelRefused, pageVars
<1>3. ASSUME NEW r \in DOMAIN request, Answer(r) \/ Fail(r) \/ Load(r) \/ LoadFails(r) PROVE FALSE
  <2>1. CASE Load(r)
    BY <1>1, <2>1, LoadShows
  <2>2. CASE Answer(r) \/ Fail(r) \/ LoadFails(r)
    BY <2>2 DEF Answer, Fail, LoadFails
  <2>3. QED
    BY <1>3, <2>1, <2>2
<1>4. ~Mount /\ ~Refetch /\ ~Drop
  BY DEF Mount, Refetch, Drop, pageVars
<1>5. ~UNCHANGED screenVars
  BY DEF screenVars, pageVars
<1>6. Hear
  BY <1>2, <1>3, <1>4, <1>5 DEF ScreensNext
<1>7. page.mounted /\ page.name = "trades"
  BY <1>1, <1>6, HearShows
<1>8. OnTopOf(wire[1].trade, shownTrades, shownTrades')
  BY <1>1, <1>6, <1>7, TradesHeard
<1>9. QED
  BY <1>8 DEF OnTopOf

\* What a page shows is of the shape its hook keeps: no more trades than
\* Limit, each of them one of the exchange's, and no request before the hook
\* is mounted.
THEOREM ScreensTypes == ScreensSpec => []ScreensTypeOK
BY AlwaysFits, TypesFit, PTL

\* Once nothing is under way, useUserOrders shows every open order of its
\* user, and of others only those a later order consumed.
THEOREM OrdersAreShown == ScreensSpec => []OpenOrdersShown
BY AlwaysFits, SettledOrders, PTL

\* Once nothing is under way, useOrderBook shows what is for sale.
THEOREM LevelsAreShown == ScreensSpec => []BookShown
BY AlwaysFits, SettledBook, PTL

\* Once nothing is under way, useTradeHistory has a trade of the newest
\* timestamp on top.
THEOREM NewestIsShown == ScreensSpec => []NewestTradeOnTop
BY AlwaysFits, SettledTrades, PTL

\* useTradeHistory keeps a live trade until newer ones have pushed it out.
THEOREM LiveTradesAreKept == ScreensSpec => LiveTradesStay
<1>1. SInv /\ [ScreensNext]_screenVars =>
        [liveArrived /\ shownTrades' # shownTrades =>
            /\ Len(shownTrades') \in {Len(shownTrades), Len(shownTrades) + 1}
            /\ Tail(shownTrades') = SubSeq(shownTrades, 1, Len(shownTrades') - 1)]_screenVars
  BY ScreensAssumption, LiveTradesKept
<1>2. QED
  BY <1>1, AlwaysFits, PTL DEF ScreensSpec, LiveTradesStay
=============================================================================
