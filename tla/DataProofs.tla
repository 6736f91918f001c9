----------------------------- MODULE DataProofs -----------------------------
(***************************************************************************)
(* What the proofs about money and quantities need to know of totals and   *)
(* of costs, and the proofs about the order book and the screens of what a *)
(* filter and a sort do to an array.                                       *)
(***************************************************************************)
EXTENDS Totals, Arrays, Trading, FiniteSetTheorems, TLAPS

-----------------------------------------------------------------------------
(* Totals.                                                                 *)

\* The units of one value.
LEMMA UnitsOfOne ==
    ASSUME NEW x, NEW n \in Nat
    PROVE  IsFiniteSet({x} \X (1..n)) /\ Cardinality({x} \X (1..n)) = n
<1>1. IsFiniteSet(1..n) /\ Cardinality(1..n) = n
  <2>1. IsFiniteSet(1..n) /\ Cardinality(1..n) = IF 1 > n THEN 0 ELSE n - 1 + 1
    BY FS_Interval
  <2>2. QED
    BY <2>1
<1>2. IsFiniteSet({x}) /\ Cardinality({x}) = 1
  BY FS_Singleton
<1>3. IsFiniteSet({x} \X (1..n)) /\ Cardinality({x} \X (1..n)) = 1 * n
  <2>1. PICK S, T : S = {x} /\ T = 1..n
    OBVIOUS
  <2>2. IsFiniteSet(S \X T) /\ Cardinality(S \X T) = Cardinality(S) * Cardinality(T)
    BY <1>1, <1>2, <2>1, FS_Product
  <2>3. QED
    BY <1>1, <1>2, <2>1, <2>2
<1>4. QED
  BY <1>3

\* A total of finitely many natural numbers is one.
LEMMA TotalIsNat ==
    ASSUME NEW S, IsFiniteSet(S), NEW f \in [S -> Nat]
    PROVE  IsFiniteSet(Units(f)) /\ Total(f) \in Nat
<1> DEFINE Parts == {{x} \X (1..f[x]) : x \in S}
           part  == [x \in S |-> {x} \X (1..f[x])]
<1>1. part \in Surjection(S, Parts)
  BY DEF Surjection
<1>2. IsFiniteSet(Parts)
  BY <1>1, FS_Surjection
<1>3. ASSUME NEW T \in Parts PROVE IsFiniteSet(T)
  <2>1. PICK x \in S : T = {x} \X (1..f[x])
    OBVIOUS
  <2>2. f[x] \in Nat
    OBVIOUS
  <2>3. QED
    BY <2>1, <2>2, UnitsOfOne
<1>4. IsFiniteSet(UNION Parts)
  BY <1>2, <1>3, FS_UNION
<1>5. QED
  BY <1>4, FS_CardinalityType DEF Units, Total

LEMMA UnitIn ==
    ASSUME NEW S, NEW f \in [S -> Nat], NEW u
    PROVE  u \in Units(f) <=> \E x \in S : \E i \in 1..f[x] : u = <<x, i>>
<1>1. Units(f) = UNION {{x} \X (1..f[x]) : x \in S}
  BY DEF Units
<1>2. ASSUME u \in Units(f) PROVE \E x \in S : \E i \in 1..f[x] : u = <<x, i>>
  <2>1. PICK x \in S : u \in {x} \X (1..f[x])
    BY <1>1, <1>2
  <2>2. QED
    BY <2>1
<1>3. ASSUME NEW x \in S, NEW i \in 1..f[x], u = <<x, i>> PROVE u \in Units(f)
  <2>1. u \in {x} \X (1..f[x])
    BY <1>3
  <2>2. QED
    BY <1>1, <2>1
<1>4. QED
  BY <1>2, <1>3

\* What one value has in a total, and the rest.
LEMMA TotalSplits ==
    ASSUME NEW S, IsFiniteSet(S), NEW f \in [S -> Nat], NEW x \in S
    PROVE  LET others == [y \in S |-> IF y = x THEN 0 ELSE f[y]]
           IN  Total(others) \in Nat /\ Total(f) = Total(others) + f[x]
<1> DEFINE others == [y \in S |-> IF y = x THEN 0 ELSE f[y]]
           mine   == {x} \X (1..f[x])
<1>1. others \in [S -> Nat]
  OBVIOUS
<1>2. IsFiniteSet(Units(others)) /\ Total(others) \in Nat
  BY <1>1, TotalIsNat
<1>3. IsFiniteSet(mine) /\ Cardinality(mine) = f[x]
  BY UnitsOfOne
<1>4. Units(f) = Units(others) \cup mine
  <2>1. ASSUME NEW u \in Units(f) PROVE u \in Units(others) \cup mine
    <3>1. PICK y \in S : \E i \in 1..f[y] : u = <<y, i>>
      BY UnitIn
    <3>2. CASE y = x
      BY <3>1, <3>2
    <3>3. CASE y # x
      <4>1. others[y] = f[y]
        BY <3>3
      <4>2. QED
        BY <1>1, <3>1, <4>1, UnitIn
    <3>4. QED
      BY <3>2, <3>3
  <2>2. ASSUME NEW u \in Units(others) PROVE u \in Units(f)
    <3>1. PICK y \in S : \E i \in 1..others[y] : u = <<y, i>>
      BY <1>1, UnitIn
    <3>2. y # x /\ others[y] = f[y]
      BY <3>1
    <3>3. QED
      BY <3>1, <3>2, UnitIn
  <2>3. mine \subseteq Units(f)
    BY DEF Units
  <2>4. QED
    BY <2>1, <2>2, <2>3
<1>5. Units(others) \cap mine = {}
  <2>1. ASSUME NEW u \in Units(others), u \in mine PROVE FALSE
    <3>1. PICK y \in S : \E i \in 1..others[y] : u = <<y, i>>
      BY <1>1, <2>1, UnitIn
    <3>2. y = x
      BY <2>1, <3>1
    <3>3. QED
      BY <3>1, <3>2
  <2>2. QED
    BY <2>1
<1>6. Cardinality(Units(f)) = Cardinality(Units(others)) + Cardinality(mine) - Cardinality({})
  BY <1>2, <1>3, <1>4, <1>5, FS_Union
<1>7. QED
  BY <1>2, <1>3, <1>6, FS_EmptySet DEF Total

\* A total changes by what one of its values changes.
LEMMA TotalChanges ==
    ASSUME NEW S, IsFiniteSet(S), NEW f \in [S -> Nat], NEW g \in [S -> Nat], NEW x \in S,
           \A y \in S \ {x} : f[y] = g[y]
    PROVE  Total(f) + g[x] = Total(g) + f[x] /\ Total(f) \in Nat /\ Total(g) \in Nat
<1> DEFINE others(h) == [y \in S |-> IF y = x THEN 0 ELSE h[y]]
<1>1. others(f) = others(g)
  OBVIOUS
<1>2. Total(others(f)) \in Nat /\ Total(f) = Total(others(f)) + f[x]
  BY TotalSplits
<1>3. Total(others(g)) \in Nat /\ Total(g) = Total(others(g)) + g[x]
  BY TotalSplits
<1>4. f[x] \in Nat /\ g[x] \in Nat
  OBVIOUS
<1> HIDE DEF others
<1>5. QED
  BY <1>1, <1>2, <1>3, <1>4

\* Equal values, equal totals.
LEMMA TotalSame ==
    ASSUME NEW S, NEW f \in [S -> Nat], NEW g \in [S -> Nat], \A y \in S : f[y] = g[y]
    PROVE  Total(f) = Total(g)
<1>1. f = g
  OBVIOUS
<1>2. QED
  BY <1>1

\* Smaller values, smaller totals.
LEMMA TotalMonotonic ==
    ASSUME NEW S, IsFiniteSet(S), NEW f \in [S -> Nat], NEW g \in [S -> Nat],
           \A y \in S : f[y] <= g[y]
    PROVE  Total(f) <= Total(g)
<1>1. Units(f) \subseteq Units(g)
  <2>1. ASSUME NEW u \in Units(f) PROVE u \in Units(g)
    <3>1. PICK y \in S : \E i \in 1..f[y] : u = <<y, i>>
      BY UnitIn
    <3>2. 1..f[y] \subseteq 1..g[y]
      OBVIOUS
    <3>3. QED
      BY <3>1, <3>2, UnitIn
  <2>2. QED
    BY <2>1
<1>2. QED
  BY <1>1, TotalIsNat, FS_Subset DEF Total

\* A total whose other values do not rise.
LEMMA TotalFalls ==
    ASSUME NEW S, IsFiniteSet(S), NEW f \in [S -> Nat], NEW g \in [S -> Nat], NEW x \in S,
           \A y \in S \ {x} : g[y] <= f[y]
    PROVE  Total(g) + f[x] <= Total(f) + g[x] /\ Total(f) \in Nat /\ Total(g) \in Nat
<1>1. PICK h \in [S -> Nat] : h = [y \in S |-> IF y = x THEN g[x] ELSE f[y]]
  OBVIOUS
<1>2. Total(g) <= Total(h)
  <2>1. \A y \in S : g[y] <= h[y]
    BY <1>1
  <2>2. QED
    BY <2>1, TotalMonotonic
<1>3. Total(f) + g[x] = Total(h) + f[x] /\ Total(f) \in Nat /\ Total(h) \in Nat
  <2>1. h[x] = g[x] /\ \A y \in S \ {x} : f[y] = h[y]
    BY <1>1
  <2>2. Total(f) + h[x] = Total(h) + f[x] /\ Total(f) \in Nat /\ Total(h) \in Nat
    BY <2>1, TotalChanges
  <2>3. QED
    BY <2>1, <2>2
<1>4. Total(g) \in Nat /\ f[x] \in Nat /\ g[x] \in Nat
  BY TotalIsNat
<1>5. QED
  BY <1>2, <1>3, <1>4

\* Nothing exceeds the total it is part of.
LEMMA TotalIncludes ==
    ASSUME NEW S, IsFiniteSet(S), NEW f \in [S -> Nat], NEW x \in S
    PROVE  f[x] <= Total(f) /\ Total(f) \in Nat
<1>1. LET others == [y \in S |-> IF y = x THEN 0 ELSE f[y]]
      IN  Total(others) \in Nat /\ Total(f) = Total(others) + f[x]
  BY TotalSplits
<1>2. QED
  BY <1>1

\* Nor do two of its values together.
LEMMA TotalIncludesTwo ==
    ASSUME NEW S, IsFiniteSet(S), NEW f \in [S -> Nat], NEW x \in S, NEW y \in S, x # y
    PROVE  f[x] + f[y] <= Total(f)
<1> DEFINE others == [z \in S |-> IF z = x THEN 0 ELSE f[z]]
<1>1. Total(others) \in Nat /\ Total(f) = Total(others) + f[x]
  BY TotalSplits
<1>2. others \in [S -> Nat] /\ others[y] = f[y] /\ f[x] \in Nat /\ f[y] \in Nat
  OBVIOUS
<1>3. others[y] <= Total(others)
  BY <1>2, TotalIncludes
<1> HIDE DEF others
<1>4. QED
  BY <1>1, <1>2, <1>3

\* Nothing makes nothing.
LEMMA TotalOfNothing ==
    ASSUME NEW S, NEW f \in [S -> Nat], \A x \in S : f[x] = 0
    PROVE  Total(f) = 0
<1>1. Units(f) = {}
  <2>1. ASSUME NEW u \in Units(f) PROVE FALSE
    BY UnitIn
  <2>2. QED
    BY <2>1
<1>2. QED
  BY <1>1, FS_EmptySet DEF Total

\* A transfer between two values leaves the total.
LEMMA TotalTransfers ==
    ASSUME NEW S, IsFiniteSet(S), NEW f \in [S -> Nat], NEW g \in [S -> Nat],
           NEW x \in S, NEW y \in S, f[x] + f[y] = g[x] + g[y],
           \A z \in S \ {x, y} : f[z] = g[z]
    PROVE  Total(f) = Total(g)
<1> DEFINE between == [z \in S |-> IF z = x THEN g[x] ELSE f[z]]
<1>1. between \in [S -> Nat] /\ between[x] = g[x]
      /\ g[x] \in Nat /\ f[x] \in Nat /\ g[y] \in Nat /\ f[y] \in Nat
  OBVIOUS
<1>2. /\ Total(f) + between[x] = Total(between) + f[x]
      /\ Total(f) \in Nat /\ Total(between) \in Nat
  BY <1>1, TotalChanges
<1>3. \A z \in S \ {y} : g[z] = between[z]
  OBVIOUS
<1>4. Total(between) + g[y] = Total(g) + between[y] /\ Total(g) \in Nat
  BY <1>1, <1>3, TotalChanges
<1>5. between[y] = IF x = y THEN g[y] ELSE f[y]
  OBVIOUS
<1> HIDE DEF between
<1>6. QED
  BY <1>1, <1>2, <1>4, <1>5

\* The same for everyone.
LEMMA TotalOfShares ==
    ASSUME NEW S, IsFiniteSet(S), NEW k \in Nat
    PROVE  Total([x \in S |-> k]) = Cardinality(S) * k
<1> DEFINE f == [x \in S |-> k]
<1>1. Units(f) = S \X (1..k)
  BY DEF Units
<1>2. IsFiniteSet(1..k) /\ Cardinality(1..k) = k
  <2>1. IsFiniteSet(1..k) /\ Cardinality(1..k) = IF 1 > k THEN 0 ELSE k - 1 + 1
    BY FS_Interval
  <2>2. QED
    BY <2>1
<1>3. QED
  BY <1>1, <1>2, FS_Product DEF Total

\* A finite function into the natural numbers.
Counts(f) == IsFiniteSet(DOMAIN f) /\ f \in [DOMAIN f -> Nat]

\* The values of one function are those of another under other names.
Renames(b, f, g) ==
    /\ b \in [DOMAIN f -> DOMAIN g]
    /\ \A x, y \in DOMAIN f : b[x] = b[y] => x = y
    /\ \A z \in DOMAIN g : \E x \in DOMAIN f : b[x] = z
    /\ \A x \in DOMAIN f : g[b[x]] = f[x]

LEMMA TotalRenamed ==
    ASSUME NEW f, Counts(f), NEW g, Counts(g), NEW b, Renames(b, f, g)
    PROVE  Total(f) = Total(g)
<1>a. PICK S, T : S = DOMAIN f /\ T = DOMAIN g
  OBVIOUS
<1>b. IsFiniteSet(S) /\ f \in [S -> Nat] /\ g \in [T -> Nat]
  BY <1>a DEF Counts
<1> USE <1>b
<1>0. /\ b \in [S -> T] /\ (\A x, y \in S : b[x] = b[y] => x = y)
      /\ (\A z \in T : \E x \in S : b[x] = z) /\ \A x \in S : g[b[x]] = f[x]
  BY <1>a DEF Renames
<1> DEFINE h == [u \in Units(f) |-> <<b[u[1]], u[2]>>]
<1>1. ASSUME NEW x \in S, NEW n \in 1..f[x]
      PROVE  /\ <<x, n>> \in Units(f) /\ <<b[x], n>> \in Units(g)
             /\ h[<<x, n>>] = <<b[x], n>>
  <2>1. <<x, n>> \in Units(f)
    BY UnitIn
  <2>2. b[x] \in T /\ n \in 1..g[b[x]]
    BY <1>0
  <2>3. <<b[x], n>> \in Units(g)
    BY <2>2, UnitIn
  <2>4. QED
    BY <2>1, <2>3
<1>2. ASSUME NEW u \in Units(f) PROVE \E x \in S : \E n \in 1..f[x] : u = <<x, n>>
  BY UnitIn
<1>3. h \in [Units(f) -> Units(g)]
  <2>1. ASSUME NEW u \in Units(f) PROVE <<b[u[1]], u[2]>> \in Units(g)
    <3>1. PICK x \in S : \E n \in 1..f[x] : u = <<x, n>>
      BY <1>2
    <3>2. PICK n \in 1..f[x] : u = <<x, n>>
      BY <3>1
    <3>3. u[1] = x /\ u[2] = n
      BY <3>2
    <3>4. QED
      BY <1>1, <3>3
  <2>2. QED
    BY <2>1
<1>4. \A u, v \in Units(f) : h[u] = h[v] => u = v
  <2> SUFFICES ASSUME NEW u \in Units(f), NEW v \in Units(f), h[u] = h[v] PROVE u = v
    OBVIOUS
  <2>1. PICK x \in S : \E n \in 1..f[x] : u = <<x, n>>
    BY <1>2
  <2>2. PICK n \in 1..f[x] : u = <<x, n>>
    BY <2>1
  <2>3. PICK y \in S : \E m \in 1..f[y] : v = <<y, m>>
    BY <1>2
  <2>4. PICK m \in 1..f[y] : v = <<y, m>>
    BY <2>3
  <2>5. h[u] = <<b[x], n>> /\ h[v] = <<b[y], m>>
    BY <1>1, <2>2, <2>4
  <2>6. b[x] = b[y] /\ n = m
    BY <2>5
  <2>7. QED
    BY <1>0, <2>2, <2>4, <2>6
<1>5. \A w \in Units(g) : \E u \in Units(f) : h[u] = w
  <2> SUFFICES ASSUME NEW w \in Units(g) PROVE \E u \in Units(f) : h[u] = w
    OBVIOUS
  <2>1. PICK z \in T : \E n \in 1..g[z] : w = <<z, n>>
    BY UnitIn
  <2>2. PICK n \in 1..g[z] : w = <<z, n>>
    BY <2>1
  <2>3. PICK x \in S : b[x] = z
    BY <1>0
  <2>4. n \in 1..f[x]
    BY <1>0, <2>2, <2>3
  <2> HIDE DEF h
  <2>5. <<x, n>> \in Units(f) /\ h[<<x, n>>] = <<b[x], n>>
    BY <1>1, <2>4
  <2>6. QED
    BY <2>2, <2>3, <2>5
<1> HIDE DEF h
<1>6. h \in Bijection(Units(f), Units(g))
  BY <1>3, <1>4, <1>5 DEF Bijection, Injection, Surjection, IsInjective
<1>7. Cardinality(Units(g)) = Cardinality(Units(f))
  BY <1>6, TotalIsNat, FS_Bijection DEF ExistsBijection
<1>8. QED
  BY <1>7 DEF Total

\* What each part has of a function's values, when each belongs to one part.
SharesOut(share, part, t, f) ==
    /\ part \in [DOMAIN f -> DOMAIN t]
    /\ share \in [DOMAIN t -> [DOMAIN f -> Nat]]
    /\ \A k \in DOMAIN t, x \in DOMAIN f : share[k][x] = IF part[x] = k THEN f[x] ELSE 0
    /\ \A k \in DOMAIN t : t[k] = Total(share[k])

\* A total taken part by part.
LEMMA TotalByParts ==
    ASSUME NEW f, Counts(f), NEW t, Counts(t), NEW share, NEW part, SharesOut(share, part, t, f)
    PROVE  Total(t) = Total(f)
<1>a. PICK S, K : S = DOMAIN f /\ K = DOMAIN t
  OBVIOUS
<1>b. IsFiniteSet(S) /\ f \in [S -> Nat] /\ IsFiniteSet(K) /\ t \in [K -> Nat]
  BY <1>a DEF Counts
<1>c. part \in [S -> K] /\ share \in [K -> [S -> Nat]] /\ (\A k \in K : t[k] = Total(share[k]))
  BY <1>a DEF SharesOut
<1> USE <1>b
<1> DEFINE Share(k) == share[k]
<1>1. \A k \in K : Share(k) \in [S -> Nat] /\ \A x \in S : Share(k)[x] = IF part[x] = k THEN f[x] ELSE 0
  BY <1>a, <1>c DEF SharesOut
<1>2. \A k \in K : IsFiniteSet(Units(Share(k))) /\ Cardinality(Units(Share(k))) = t[k]
  <2> SUFFICES ASSUME NEW k \in K
               PROVE  IsFiniteSet(Units(Share(k))) /\ Cardinality(Units(Share(k))) = t[k]
    OBVIOUS
  <2>1. PICK g \in [S -> Nat] : g = Share(k)
    BY <1>1
  <2>2. IsFiniteSet(Units(g)) /\ Total(g) = t[k]
    BY <1>c, <2>1, TotalIsNat
  <2>3. QED
    BY <2>1, <2>2 DEF Total
<1>3. ASSUME NEW k \in K, NEW w
      PROVE  w \in Units(Share(k)) <=> w \in Units(f) /\ part[w[1]] = k
  <2>1. Share(k) \in [S -> Nat]
    BY <1>1
  <2>2. w \in Units(Share(k)) <=> \E x \in S : \E n \in 1..Share(k)[x] : w = <<x, n>>
    BY <2>1, UnitIn
  <2>3. w \in Units(f) <=> \E x \in S : \E n \in 1..f[x] : w = <<x, n>>
    BY UnitIn
  <2>4. ASSUME w \in Units(Share(k)) PROVE w \in Units(f) /\ part[w[1]] = k
    <3>1. PICK x \in S : \E n \in 1..Share(k)[x] : w = <<x, n>>
      BY <2>2, <2>4
    <3>2. PICK n \in 1..Share(k)[x] : w = <<x, n>>
      BY <3>1
    <3>3. part[x] = k /\ n \in 1..f[x] /\ w[1] = x
      BY <1>1, <3>2
    <3>4. QED
      BY <2>3, <3>2, <3>3
  <2>5. ASSUME w \in Units(f), part[w[1]] = k PROVE w \in Units(Share(k))
    <3>1. PICK x \in S : \E n \in 1..f[x] : w = <<x, n>>
      BY <2>3, <2>5
    <3>2. PICK n \in 1..f[x] : w = <<x, n>>
      BY <3>1
    <3>3. w[1] = x /\ Share(k)[x] = f[x]
      BY <1>1, <2>5, <3>2
    <3>4. QED
      BY <2>2, <3>2, <3>3
  <2>6. QED
    BY <2>4, <2>5
<1> HIDE DEF Share
<1>4. \A k \in K : \E b : b \in Bijection(1..t[k], Units(Share(k)))
  <2> SUFFICES ASSUME NEW k \in K PROVE \E b : b \in Bijection(1..t[k], Units(Share(k)))
    OBVIOUS
  <2>1. t[k] \in Nat
    OBVIOUS
  <2>2. IsFiniteSet(1..t[k]) /\ Cardinality(1..t[k]) = t[k]
    <3>1. IsFiniteSet(1..t[k]) /\ Cardinality(1..t[k]) = IF 1 > t[k] THEN 0 ELSE t[k] - 1 + 1
      BY <2>1, FS_Interval
    <3>2. QED
      BY <2>1, <3>1
  <2>3. ExistsBijection(1..t[k], Units(Share(k)))
    BY <1>2, <2>2, FS_SameCardinalityBij
  <2>4. QED
    BY <2>3 DEF ExistsBijection
<1> DEFINE B == [k \in K |-> CHOOSE b : b \in Bijection(1..t[k], Units(Share(k)))]
<1>5. ASSUME NEW k \in K PROVE B[k] \in Bijection(1..t[k], Units(Share(k)))
  BY <1>4
<1> HIDE DEF B
<1>6. ASSUME NEW k \in K
      PROVE  /\ \A n \in 1..t[k] : B[k][n] \in Units(Share(k))
             /\ \A n, m \in 1..t[k] : B[k][n] = B[k][m] => n = m
             /\ \A w \in Units(Share(k)) : \E n \in 1..t[k] : B[k][n] = w
  <2>1. PICK b : b = B[k] /\ b \in Bijection(1..t[k], Units(Share(k)))
    BY <1>5
  <2>2. b \in [1..t[k] -> Units(Share(k))]
    BY <2>1 DEF Bijection, Injection
  <2>3. \A n, m \in 1..t[k] : b[n] = b[m] => n = m
    BY <2>1, <2>2 DEF Bijection, Injection, IsInjective
  <2>4. \A w \in Units(Share(k)) : \E n \in 1..t[k] : b[n] = w
    BY <2>1 DEF Bijection, Surjection
  <2>5. QED
    BY <2>1, <2>2, <2>3, <2>4
<1> DEFINE h == [u \in Units(t) |-> B[u[1]][u[2]]]
<1>7. ASSUME NEW k \in K, NEW n \in 1..t[k]
      PROVE  <<k, n>> \in Units(t) /\ h[<<k, n>>] = B[k][n]
  <2>1. <<k, n>> \in Units(t)
    BY UnitIn
  <2>2. QED
    BY <2>1
<1>8. ASSUME NEW u \in Units(t) PROVE \E k \in K : \E n \in 1..t[k] : u = <<k, n>>
  BY UnitIn
<1>9. h \in [Units(t) -> Units(f)]
  <2>1. ASSUME NEW u \in Units(t) PROVE B[u[1]][u[2]] \in Units(f)
    <3>1. PICK k \in K : \E n \in 1..t[k] : u = <<k, n>>
      BY <1>8
    <3>2. PICK n \in 1..t[k] : u = <<k, n>>
      BY <3>1
    <3>3. B[k][n] \in Units(Share(k))
      BY <1>6
    <3>4. B[k][n] \in Units(f)
      BY <1>3, <3>3
    <3>5. QED
      BY <3>2, <3>4
  <2>2. QED
    BY <2>1
<1>10. \A u, v \in Units(t) : h[u] = h[v] => u = v
  <2> SUFFICES ASSUME NEW u \in Units(t), NEW v \in Units(t), h[u] = h[v] PROVE u = v
    OBVIOUS
  <2>1. PICK k \in K : \E n \in 1..t[k] : u = <<k, n>>
    BY <1>8
  <2>2. PICK n \in 1..t[k] : u = <<k, n>>
    BY <2>1
  <2>3. PICK l \in K : \E m \in 1..t[l] : v = <<l, m>>
    BY <1>8
  <2>4. PICK m \in 1..t[l] : v = <<l, m>>
    BY <2>3
  <2>5. B[k][n] = B[l][m]
    BY <1>7, <2>2, <2>4
  <2>6. B[k][n] \in Units(Share(k)) /\ B[l][m] \in Units(Share(l))
    BY <1>6
  <2>7. part[B[k][n][1]] = k /\ part[B[l][m][1]] = l
    BY <1>3, <2>6
  <2>8. k = l
    BY <2>5, <2>7
  <2>9. n = m
    BY <1>6, <2>5, <2>8
  <2>10. QED
    BY <2>2, <2>4, <2>8, <2>9
<1>11. \A w \in Units(f) : \E u \in Units(t) : h[u] = w
  <2> SUFFICES ASSUME NEW w \in Units(f) PROVE \E u \in Units(t) : h[u] = w
    OBVIOUS
  <2>1. PICK x \in S : \E n \in 1..f[x] : w = <<x, n>>
    BY UnitIn
  <2>2. w[1] = x
    BY <2>1
  <2>3. PICK k \in K : k = part[w[1]]
    BY <1>c, <2>2
  <2>4. w \in Units(Share(k))
    BY <1>3, <2>3
  <2>5. PICK n \in 1..t[k] : B[k][n] = w
    BY <1>6, <2>4
  <2>6. QED
    BY <1>7, <2>5
<1> HIDE DEF h
<1>12. h \in Bijection(Units(t), Units(f))
  BY <1>9, <1>10, <1>11 DEF Bijection, Injection, Surjection, IsInjective
<1>13. Cardinality(Units(f)) = Cardinality(Units(t))
  BY <1>12, TotalIsNat, FS_Bijection DEF ExistsBijection
<1>14. QED
  BY <1>13 DEF Total

-----------------------------------------------------------------------------
(* Costs                                                                   *)

\* Products of natural numbers are natural numbers.
LEMMA ProductIsNat == ASSUME NEW m \in Nat, NEW n \in Nat PROVE m * n \in Nat
OBVIOUS

\* A cost is a natural number.
LEMMA CostIsNat ==
    ASSUME NEW side \in Sides, NEW price \in Nat, NEW quantity \in Nat
    PROVE  Cost(side, price, quantity) \in Nat
BY DEF Cost, Sides

\* Multiplication is monotonic in its first factor.
LEMMA ProductMonotonic ==
    ASSUME NEW t \in Nat, NEW p \in Nat, NEW r \in Nat, t <= p
    PROVE  t * r <= p * r
<1>1. PICK d \in Nat : p = t + d
    <2>1. p - t \in Nat /\ p = t + (p - t)
        OBVIOUS
    <2> QED BY <2>1
<1>2. p * r = t * r + d * r
    BY <1>1
<1>3. d * r \in Nat /\ t * r \in Nat
    OBVIOUS
<1> QED BY <1>2, <1>3

\* What is left of a lock after a trade of r at price t pays for the rest of
\* the order at its limit p, when the buyer pays no more than the limit.
LEMMA LockSplits ==
    ASSUME NEW side \in Sides, NEW p \in Nat, NEW t \in Nat, NEW q \in Nat, NEW r \in Nat,
           NEW lock \in Nat, r <= q, side = "buy" => t <= p, Cost(side, p, q) <= lock
    PROVE  /\ lock - Cost(side, t, r) \in Nat
           /\ Cost(side, p, q - r) <= lock - Cost(side, t, r)
<1>1. CASE side = "buy"
    <2>1. t * r <= p * r
        BY <1>1, ProductMonotonic
    <2>2. p * (q - r) = p * q - p * r
        OBVIOUS
    <2>3. p * q \in Nat /\ p * r \in Nat /\ t * r \in Nat /\ p * (q - r) \in Nat
        OBVIOUS
    <2>4. p * q <= lock
        BY <1>1 DEF Cost
    <2>5. t * r <= lock /\ p * (q - r) <= lock - t * r
        BY <2>1, <2>2, <2>3, <2>4
    <2> QED BY <1>1, <2>3, <2>5 DEF Cost
<1>2. CASE side = "sell"
    BY <1>2 DEF Cost
<1> QED BY <1>1, <1>2 DEF Sides

-----------------------------------------------------------------------------
(* Arrays.  A linear order of finitely many positions ranks them from 1    *)
(* up, so that what is arranged by it has every position once.             *)

Linear(before, positions) ==
    /\ \A i, j \in positions : <<i, j>> \in before \/ <<j, i>> \in before
    /\ \A i, j \in positions : <<i, j>> \in before /\ <<j, i>> \in before => i = j
    /\ \A i, j, k \in positions : <<i, j>> \in before /\ <<j, k>> \in before => <<i, k>> \in before

LEMMA RanksAreApart ==
    ASSUME NEW D, IsFiniteSet(D), NEW R, Linear(R, D), NEW i \in D, NEW j \in D, <<i, j>> \in R
    PROVE  /\ Rank(i, D, R) \in 1..Cardinality(D)
           /\ Rank(i, D, R) <= Rank(j, D, R)
           /\ i # j => Rank(i, D, R) < Rank(j, D, R)
<1> DEFINE Upto(x) == {y \in D : <<y, x>> \in R}
<1>1. Upto(i) \subseteq Upto(j) /\ i \in Upto(i) /\ (i # j => j \in Upto(j) /\ j \notin Upto(i))
  BY DEF Linear
<1>2. /\ IsFiniteSet(Upto(i)) /\ Cardinality(Upto(i)) \in Nat /\ Cardinality(Upto(i)) <= Cardinality(D)
      /\ IsFiniteSet(Upto(j)) /\ Cardinality(Upto(j)) \in Nat
      /\ Cardinality(D) \in Nat
  <2>1. Upto(i) \subseteq D /\ Upto(j) \subseteq D
    OBVIOUS
  <2>2. QED
    BY <2>1, FS_Subset, FS_CardinalityType
<1>3. Cardinality(Upto(i)) <= Cardinality(Upto(j))
      /\ (Cardinality(Upto(j)) = Cardinality(Upto(i)) => Upto(j) = Upto(i))
  BY <1>1, <1>2, FS_Subset
<1>4. Cardinality(Upto(i)) # 0
  BY <1>1, <1>2, FS_EmptySet
<1>5. Rank(i, D, R) = Cardinality(Upto(i)) /\ Rank(j, D, R) = Cardinality(Upto(j))
  BY DEF Rank
<1> HIDE DEF Upto
<1>6. QED
  BY <1>1, <1>2, <1>3, <1>4, <1>5

LEMMA RanksAreReached ==
    ASSUME NEW D, IsFiniteSet(D), NEW R, Linear(R, D), NEW k \in 1..Cardinality(D)
    PROVE  \E i \in D : Rank(i, D, R) = k
<1> DEFINE N == 1..Cardinality(D)
           f == [i \in D |-> Rank(i, D, R)]
<1>1. \A i \in D : Rank(i, D, R) \in N
  BY RanksAreApart DEF Linear
<1>2. \A i, j \in D : Rank(i, D, R) = Rank(j, D, R) => i = j
  <2> SUFFICES ASSUME NEW i \in D, NEW j \in D, Rank(i, D, R) = Rank(j, D, R), i # j PROVE FALSE
    OBVIOUS
  <2>1. Rank(i, D, R) \in Nat
    BY <1>1, FS_CardinalityType
  <2>2. <<i, j>> \in R \/ <<j, i>> \in R
    BY DEF Linear
  <2>3. Rank(i, D, R) < Rank(j, D, R) \/ Rank(j, D, R) < Rank(i, D, R)
    BY <2>2, RanksAreApart
  <2>4. QED
    BY <2>1, <2>3
<1>3. f \in Injection(D, N)
  BY <1>1, <1>2 DEF Injection, IsInjective
<1>4. Cardinality(D) \in Nat
  BY FS_CardinalityType
<1>5. IsFiniteSet(N) /\ Cardinality(N) = Cardinality(D)
  BY <1>4, FS_Interval
<1>6. f \in Surjection(D, N)
  BY <1>3, <1>5, FS_Injection
<1>7. QED
  BY <1>6 DEF Surjection

\* Every rank has its position, and the positions come in their order.
LEMMA PositionsAreOrdered ==
    ASSUME NEW D, IsFiniteSet(D), NEW R, Linear(R, D)
    PROVE  /\ Cardinality(D) \in Nat
           /\ \A k \in 1..Cardinality(D) : Position(k, D, R) \in D
           /\ \A i \in D : \E k \in 1..Cardinality(D) : Position(k, D, R) = i
           /\ \A k, l \in 1..Cardinality(D) :
                 k < l => /\ <<Position(k, D, R), Position(l, D, R)>> \in R
                          /\ Position(k, D, R) # Position(l, D, R)
<1> DEFINE N == 1..Cardinality(D)
<1>1. Cardinality(D) \in Nat
  BY FS_CardinalityType
<1>2. ASSUME NEW k \in N PROVE Position(k, D, R) \in D /\ Rank(Position(k, D, R), D, R) = k
  BY RanksAreReached DEF Position
<1>3. ASSUME NEW i \in D PROVE \E k \in N : Position(k, D, R) = i
  <2>1. <<i, i>> \in R
    BY DEF Linear
  <2>2. PICK k \in N : k = Rank(i, D, R)
    BY <2>1, RanksAreApart
  <2>3. PICK j \in D : j = Position(k, D, R) /\ Rank(j, D, R) = k
    BY <1>2
  <2>4. <<i, j>> \in R \/ <<j, i>> \in R
    BY DEF Linear
  <2>5. j = i
    BY <1>1, <2>2, <2>3, <2>4, RanksAreApart
  <2>6. QED
    BY <2>3, <2>5
<1>4. ASSUME NEW k \in N, NEW l \in N, k < l
      PROVE  <<Position(k, D, R), Position(l, D, R)>> \in R /\ Position(k, D, R) # Position(l, D, R)
  <2>1. PICK i \in D : i = Position(k, D, R) /\ Rank(i, D, R) = k
    BY <1>2
  <2>2. PICK j \in D : j = Position(l, D, R) /\ Rank(j, D, R) = l
    BY <1>2
  <2>3. i # j
    BY <1>1, <1>4, <2>1, <2>2
  <2>4. <<j, i>> \notin R
    BY <1>1, <1>4, <2>1, <2>2, RanksAreApart
  <2>5. <<i, j>> \in R
    BY <2>4 DEF Linear
  <2>6. QED
    BY <2>1, <2>2, <2>3, <2>5
<1>5. QED
  BY <1>1, <1>2, <1>3, <1>4

Elements(s) == {s[i] : i \in DOMAIN s}

LEMMA PositionsAreFinite ==
    ASSUME NEW S, NEW s \in Seq(S), NEW D \in SUBSET DOMAIN s
    PROVE  IsFiniteSet(D) /\ Cardinality(D) \in Nat /\ D \subseteq Nat
<1>1. Len(s) \in Nat /\ DOMAIN s = 1..Len(s)
  OBVIOUS
<1>2. IsFiniteSet(1..Len(s))
  BY <1>1, FS_Interval
<1>3. QED
  BY <1>1, <1>2, FS_Subset, FS_CardinalityType

LEMMA AsTheyAreIsLinear == ASSUME NEW D \in SUBSET Nat PROVE Linear(AsTheyAre(D), D)
<1>1. \A i, j \in D : <<i, j>> \in AsTheyAre(D) <=> i <= j
  BY DEF AsTheyAre
<1>2. QED
  BY <1>1 DEF Linear

\* What is arranged has every element at one of the positions.
LEMMA ArrangedElements ==
    ASSUME NEW S, NEW s \in Seq(S), NEW D \in SUBSET DOMAIN s, NEW R, Linear(R, D)
    PROVE  /\ Arranged(s, D, R) \in Seq(S)
           /\ DOMAIN Arranged(s, D, R) = 1..Cardinality(D)
           /\ Elements(Arranged(s, D, R)) = {s[i] : i \in D}
<1>1. IsFiniteSet(D) /\ Cardinality(D) \in Nat
  BY PositionsAreFinite
<1>2. /\ \A k \in 1..Cardinality(D) : Position(k, D, R) \in D
      /\ \A i \in D : \E k \in 1..Cardinality(D) : Position(k, D, R) = i
  BY <1>1, PositionsAreOrdered
<1>3. \A i \in D : s[i] \in S
  OBVIOUS
<1>4. /\ DOMAIN Arranged(s, D, R) = 1..Cardinality(D)
      /\ \A k \in 1..Cardinality(D) : Arranged(s, D, R)[k] = s[Position(k, D, R)]
  BY DEF Arranged
<1>5. Arranged(s, D, R) \in [1..Cardinality(D) -> S]
  BY <1>2, <1>3 DEF Arranged
<1>6. Arranged(s, D, R) \in Seq(S)
  BY <1>1, <1>5
<1>7. Elements(Arranged(s, D, R)) = {s[i] : i \in D}
  BY <1>2, <1>4 DEF Elements
<1>8. QED
  BY <1>4, <1>6, <1>7

\* What a filter keeps, it keeps in order.
LEMMA KeptInOrder ==
    ASSUME NEW S, NEW s \in Seq(S), NEW D \in SUBSET DOMAIN s
    PROVE  /\ Kept(s, D) \in Seq(S) /\ Elements(Kept(s, D)) = {s[i] : i \in D}
           /\ \A i, j \in DOMAIN Kept(s, D) : i < j =>
                 \E k, l \in D : k < l /\ s[k] = Kept(s, D)[i] /\ s[l] = Kept(s, D)[j]
<1> DEFINE R == AsTheyAre(D)
<1>1. IsFiniteSet(D) /\ Cardinality(D) \in Nat /\ D \subseteq Nat
  BY PositionsAreFinite
<1>2. Linear(R, D)
  BY <1>1, AsTheyAreIsLinear
<1>3. Kept(s, D) = Arranged(s, D, R)
  BY DEF Kept
<1>4. /\ \A k \in 1..Cardinality(D) : Position(k, D, R) \in D
      /\ \A k, l \in 1..Cardinality(D) :
            k < l => <<Position(k, D, R), Position(l, D, R)>> \in R /\ Position(k, D, R) # Position(l, D, R)
  BY <1>1, <1>2, PositionsAreOrdered
<1>5. \A k, l \in 1..Cardinality(D) : k < l => Position(k, D, R) < Position(l, D, R)
  <2> SUFFICES ASSUME NEW k \in 1..Cardinality(D), NEW l \in 1..Cardinality(D), k < l
               PROVE  Position(k, D, R) < Position(l, D, R)
    OBVIOUS
  <2>1. PICK i \in D, j \in D : i = Position(k, D, R) /\ j = Position(l, D, R)
    BY <1>4
  <2>2. <<i, j>> \in R /\ i # j
    BY <1>4, <2>1
  <2>3. i <= j
    BY <2>2 DEF AsTheyAre
  <2>4. QED
    BY <1>1, <2>1, <2>2, <2>3
<1>6. /\ Arranged(s, D, R) \in Seq(S) /\ DOMAIN Arranged(s, D, R) = 1..Cardinality(D)
      /\ Elements(Arranged(s, D, R)) = {s[i] : i \in D}
  BY <1>1, <1>2, ArrangedElements
<1>7. \A k \in 1..Cardinality(D) : Arranged(s, D, R)[k] = s[Position(k, D, R)]
  BY DEF Arranged
<1> HIDE DEF R
<1>8. \A i, j \in 1..Cardinality(D) : i < j =>
        \E k, l \in D : k < l /\ s[k] = Arranged(s, D, R)[i] /\ s[l] = Arranged(s, D, R)[j]
  BY <1>4, <1>5, <1>7
<1>9. QED
  BY <1>3, <1>6, <1>8

Once(s) == \A i, j \in DOMAIN s : s[i] = s[j] => i = j

\* Arrays of the same elements, each once, line up one to one.
LEMMA SameElementsLineUp ==
    ASSUME NEW S, NEW s \in Seq(S), NEW r \in Seq(S), Elements(s) = Elements(r), Once(s), Once(r)
    PROVE  \E b : Renames(b, s, r)
<1>1. \A i \in DOMAIN s : \E k \in DOMAIN r : r[k] = s[i]
  BY DEF Elements
<1>2. \A k \in DOMAIN r : \E i \in DOMAIN s : s[i] = r[k]
  BY DEF Elements
<1> DEFINE b == [i \in DOMAIN s |-> CHOOSE k \in DOMAIN r : r[k] = s[i]]
<1>3. \A i \in DOMAIN s : b[i] \in DOMAIN r /\ r[b[i]] = s[i]
  BY <1>1
<1>4. b \in [DOMAIN s -> DOMAIN r]
  BY <1>3
<1> HIDE DEF b
<1>5. \A i, j \in DOMAIN s : b[i] = b[j] => i = j
  BY <1>3 DEF Once
<1>6. \A k \in DOMAIN r : \E i \in DOMAIN s : b[i] = k
  <2> SUFFICES ASSUME NEW k \in DOMAIN r PROVE \E i \in DOMAIN s : b[i] = k
    OBVIOUS
  <2>1. PICK i \in DOMAIN s : s[i] = r[k]
    BY <1>2
  <2>2. b[i] \in DOMAIN r /\ r[b[i]] = r[k]
    BY <1>3, <2>1
  <2>3. QED
    BY <2>2 DEF Once
<1>7. QED
  BY <1>3, <1>4, <1>5, <1>6 DEF Renames
=============================================================================
