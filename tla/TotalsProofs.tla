---------------------------- MODULE TotalsProofs ----------------------------
(* What totals do when summands change; the greatest of a set of numbers. *)
EXTENDS Totals, FiniteSetTheorems, WellFoundedInduction, TLAPS

\* The coins that lie on one element are as many as its value.
LEMMA PileSize ==
    ASSUME NEW x, NEW n \in Nat
    PROVE  /\ IsFiniteSet({x} \X (1 .. n))
           /\ Cardinality({x} \X (1 .. n)) = n
  <1>1. IsFiniteSet({x}) /\ Cardinality({x}) = 1
    BY FS_Singleton
  <1>2. IsFiniteSet(1 .. n) /\ Cardinality(1 .. n) = n
    BY FS_Interval
  <1>3. /\ IsFiniteSet({x} \X (1 .. n))
        /\ Cardinality({x} \X (1 .. n)) = Cardinality({x}) * Cardinality(1 .. n)
    BY <1>1, <1>2, FS_Product, Zenon
  <1>. QED
    BY <1>1, <1>2, <1>3

\* A finite set carries finitely many coins.
LEMMA CoinsFinite ==
    ASSUME NEW S, IsFiniteSet(S), NEW f \in [S -> Nat]
    PROVE  IsFiniteSet(Coins(f))
  <1>. DEFINE piles == {{x} \X (1 .. f[x]) : x \in S}
              p == [x \in S |-> {x} \X (1 .. f[x])]
  <1>1. p \in Surjection(S, piles)
    BY DEF Surjection
  <1>2. IsFiniteSet(piles)
    <2>. HIDE DEF piles, p
    <2>. QED
      BY <1>1, FS_Surjection
  <1>3. \A T \in piles : IsFiniteSet(T)
    <2>. SUFFICES ASSUME NEW x \in S
                  PROVE  IsFiniteSet({x} \X (1 .. f[x]))
      OBVIOUS
    <2>1. f[x] \in Nat
      OBVIOUS
    <2>. QED
      BY <2>1, PileSize, Zenon
  <1>4. IsFiniteSet(UNION piles)
    BY <1>2, <1>3, FS_UNION
  <1>. QED
    BY <1>4 DEF Coins

\* A total over a finite set is a natural number.
LEMMA TotalNat ==
    ASSUME NEW S, IsFiniteSet(S), NEW f \in [S -> Nat]
    PROVE  Total(f) \in Nat
  BY CoinsFinite, FS_CardinalityType DEF Total

\* A function that is zero everywhere has total zero.
LEMMA TotalZero ==
    ASSUME NEW S, NEW f \in [S -> Nat], \A x \in S : f[x] = 0
    PROVE  Total(f) = 0
  <1>1. Coins(f) = {}
    BY DEF Coins
  <1>. QED
    BY <1>1, FS_EmptySet DEF Total

\* One summand and the rest.
LEMMA TotalSplit ==
    ASSUME NEW S, IsFiniteSet(S), NEW f \in [S -> Nat], NEW x \in S
    PROVE  LET rest == {c \in Coins(f) : c[1] # x}
           IN  /\ IsFiniteSet(rest) /\ Cardinality(rest) \in Nat
               /\ Total(f) = Cardinality(rest) + f[x]
  <1>. DEFINE rest == {c \in Coins(f) : c[1] # x}
              pile == {x} \X (1 .. f[x])
  <1>1. IsFiniteSet(rest) /\ Cardinality(rest) \in Nat
    <2>1. rest \in SUBSET Coins(f)
      OBVIOUS
    <2>. QED
      BY <2>1, CoinsFinite, FS_Subset, FS_CardinalityType
  <1>2. IsFiniteSet(pile) /\ Cardinality(pile) = f[x]
    BY PileSize
  <1>3. Coins(f) = rest \cup pile /\ rest \cap pile = {}
    BY DEF Coins
  <1>4. Cardinality(rest \cup pile) = Cardinality(rest) + Cardinality(pile) - Cardinality({})
    <2>. HIDE DEF rest, pile
    <2>. QED
      BY <1>1, <1>2, <1>3, FS_Union
  <1>5. Total(f) = Cardinality(rest) + f[x]
    <2>. HIDE DEF rest, pile
    <2>. QED
      BY <1>1, <1>2, <1>3, <1>4, FS_EmptySet DEF Total
  <1>. QED
    BY <1>1, <1>5

\* A summand never exceeds the total.
LEMMA TotalAtLeast ==
    ASSUME NEW S, IsFiniteSet(S), NEW f \in [S -> Nat], NEW x \in S
    PROVE  f[x] <= Total(f)
  <1>. DEFINE rest == {c \in Coins(f) : c[1] # x}
  <1>1. Cardinality(rest) \in Nat /\ Total(f) = Cardinality(rest) + f[x] /\ f[x] \in Nat
    BY TotalSplit
  <1>. HIDE DEF rest
  <1>. QED
    BY <1>1

\* A change of one summand changes the total by the same amount.
LEMMA TotalUpdate ==
    ASSUME NEW S, IsFiniteSet(S), NEW f \in [S -> Nat], NEW g \in [S -> Nat], NEW x \in S,
           \A y \in S : y # x => g[y] = f[y]
    PROVE  /\ Total(f) \in Nat /\ Total(g) \in Nat
           /\ Total(g) = Total(f) - f[x] + g[x]
  <1>. DEFINE rest == {c \in Coins(f) : c[1] # x}
  <1>1. {c \in Coins(g) : c[1] # x} = rest
    BY DEF Coins
  <1>2. Cardinality(rest) \in Nat /\ Total(f) = Cardinality(rest) + f[x]
    BY TotalSplit
  <1>3. Total(g) = Cardinality(rest) + g[x]
    BY <1>1, TotalSplit
  <1>. HIDE DEF rest
  <1>4. f[x] \in Nat /\ g[x] \in Nat
    OBVIOUS
  <1>5. Total(f) \in Nat /\ Total(g) \in Nat
    BY TotalNat
  <1>. QED
    BY <1>2, <1>3, <1>4, <1>5

\* What one summand loses and another gains leaves the total.
LEMMA TotalMoved ==
    ASSUME NEW S, IsFiniteSet(S), NEW f \in [S -> Nat], NEW g \in [S -> Nat], NEW x \in S, NEW y \in S, x # y,
           g[x] + g[y] = f[x] + f[y], \A z \in S : z # x /\ z # y => g[z] = f[z]
    PROVE  Total(g) = Total(f)
  <1>. DEFINE h == [f EXCEPT ![x] = g[x]]
  <1>1. h \in [S -> Nat] /\ h[x] = g[x] /\ h[y] = f[y] /\ \A z \in S : z # x => h[z] = f[z]
    OBVIOUS
  <1>2. \A z \in S : z # y => g[z] = h[z]
    BY <1>1
  <1>. HIDE DEF h
  <1>3. Total(f) \in Nat /\ Total(h) \in Nat /\ Total(h) = Total(f) - f[x] + g[x]
    BY <1>1, TotalUpdate
  <1>4. Total(g) = Total(h) - h[y] + g[y]
    BY <1>1, <1>2, TotalUpdate
  <1>5. f[x] \in Nat /\ f[y] \in Nat /\ g[x] \in Nat /\ g[y] \in Nat
    OBVIOUS
  <1>. QED
    BY <1>1, <1>3, <1>4, <1>5

\* A new summand adds its value to the total.
LEMMA TotalExtend ==
    ASSUME NEW S, IsFiniteSet(S), NEW x, x \notin S, NEW f \in [S -> Nat],
           NEW g \in [S \cup {x} -> Nat], \A y \in S : g[y] = f[y]
    PROVE  Total(g) = Total(f) + g[x]
  <1>. DEFINE T == S \cup {x}
              rest == {c \in Coins(g) : c[1] # x}
  <1>1. IsFiniteSet(T) /\ x \in T
    BY FS_AddElement
  <1>2. rest = Coins(f)
    BY DEF Coins
  <1>3. Total(g) = Cardinality(rest) + g[x]
    <2>. HIDE DEF T
    <2>1. g \in [T -> Nat]
      BY DEF T
    <2>. QED
      BY <1>1, <2>1, TotalSplit
  <1>. QED
    BY <1>2, <1>3 DEF Total

\* The total of a sum is the sum of the totals: g's coins move up by f's.
LEMMA TotalSum ==
    ASSUME NEW S, IsFiniteSet(S), NEW f \in [S -> Nat], NEW g \in [S -> Nat]
    PROVE  Total([x \in S |-> f[x] + g[x]]) = Total(f) + Total(g)
  <1>. DEFINE h == [x \in S |-> f[x] + g[x]]
              upper == {c \in Coins(h) : c[2] > f[c[1]]}
              raise == [c \in Coins(g) |-> <<c[1], c[2] + f[c[1]]>>]
  <1>1. /\ Coins(h) = {c \in S \X Nat : c[2] \in 1 .. (f[c[1]] + g[c[1]])}
        /\ Coins(f) = {c \in S \X Nat : c[2] \in 1 .. f[c[1]]}
        /\ Coins(g) = {c \in S \X Nat : c[2] \in 1 .. g[c[1]]}
    BY DEF Coins
  <1>2. \A x \in S : f[x] \in Nat /\ g[x] \in Nat
    OBVIOUS
  <1>3. upper = {c \in S \X Nat : c[2] \in (f[c[1]] + 1) .. (f[c[1]] + g[c[1]])}
    BY <1>1, <1>2
  <1>. HIDE DEF h
  <1>4. Coins(h) = Coins(f) \cup upper /\ Coins(f) \cap upper = {}
    BY <1>1, <1>2, <1>3
  <1>5. raise \in Bijection(Coins(g), upper)
    <2>1. \A c \in Coins(g) : raise[c] \in upper
      BY <1>1, <1>2, <1>3
    <2>2. \A c, d \in Coins(g) : raise[c] = raise[d] => c = d
      BY <1>1, <1>2
    <2>3. \A u \in upper : \E c \in Coins(g) : raise[c] = u
      <3>. SUFFICES ASSUME NEW u \in upper
                    PROVE  \E c \in Coins(g) : raise[c] = u
        OBVIOUS
      <3>1. u \in S \X Nat /\ u[2] \in (f[u[1]] + 1) .. (f[u[1]] + g[u[1]])
        BY <1>3
      <3>2. <<u[1], u[2] - f[u[1]]>> \in Coins(g)
        BY <1>1, <1>2, <3>1
      <3>3. raise[<<u[1], u[2] - f[u[1]]>>] = u
        BY <1>2, <3>1, <3>2
      <3>. QED
        BY <3>2, <3>3
    <2>4. raise = [c \in Coins(g) |-> raise[c]]
      OBVIOUS
    <2>. HIDE DEF raise, upper
    <2>. QED
      BY <2>1, <2>2, <2>3, <2>4 DEF Bijection, Injection, Surjection, IsInjective
  <1>. HIDE DEF raise, upper
  <1>6. IsFiniteSet(Coins(f)) /\ IsFiniteSet(Coins(g))
    BY CoinsFinite
  <1>7. IsFiniteSet(upper) /\ Cardinality(upper) = Cardinality(Coins(g))
    BY <1>5, <1>6, FS_Bijection DEF ExistsBijection
  <1>8. Cardinality(Coins(f) \cup upper) = Cardinality(Coins(f)) + Cardinality(upper) - Cardinality(Coins(f) \cap upper)
    BY <1>6, <1>7, FS_Union
  <1>9. Cardinality(Coins(f)) \in Nat /\ Cardinality(upper) \in Nat
    BY <1>6, <1>7, FS_CardinalityType
  <1>10. Total(h) = Total(f) + Total(g)
    BY <1>4, <1>7, <1>8, <1>9, FS_EmptySet DEF Total
  <1>. QED
    BY <1>10 DEF h

\* Where a function is zero it need not be counted.
LEMMA TotalWithin ==
    ASSUME NEW S, NEW T, S \subseteq T, NEW f \in [T -> Nat], NEW g \in [S -> Nat],
           \A x \in T : IF x \in S THEN g[x] = f[x] ELSE f[x] = 0
    PROVE  Total(g) = Total(f)
  <1>1. Coins(g) = Coins(f)
    BY DEF Coins
  <1>. QED
    BY <1>1 DEF Total

\* A function that stays under a multiple of another has at most that multiple
\* of its total: its coins go into k rows of the other's.
LEMMA TotalScaled ==
    ASSUME NEW S, IsFiniteSet(S), NEW f \in [S -> Nat], NEW g \in [S -> Nat], NEW k \in Nat \ {0},
           \A x \in S : g[x] <= k * f[x]
    PROVE  Total(g) <= k * Total(f)
  <1>. DEFINE row(n) == (n - 1) - k * ((n - 1) \div k)
              place(n) == (n - 1) \div k + 1
              into == [c \in Coins(g) |-> <<<<c[1], place(c[2])>>, row(c[2])>>]
              rows == 0 .. (k - 1)
  <1>1. /\ Coins(f) = {c \in S \X Nat : c[2] \in 1 .. f[c[1]]}
        /\ Coins(g) = {c \in S \X Nat : c[2] \in 1 .. g[c[1]]}
    BY DEF Coins
  <1>2. \A x \in S : f[x] \in Nat /\ g[x] \in Nat
    OBVIOUS
  <1>3. ASSUME NEW n \in Nat \ {0}
        PROVE  row(n) \in rows /\ place(n) \in Nat \ {0} /\ n - 1 = k * (place(n) - 1) + row(n)
    <2>. DEFINE m == n - 1
    <2>1. m \in Nat
      OBVIOUS
    <2>. HIDE DEF m
    <2>2. m \div k \in Nat /\ k * (m \div k) <= m /\ m < k * (m \div k) + k
      BY <2>1
    <2>3. row(n) = m - k * (m \div k) /\ place(n) = m \div k + 1
      BY DEF m
    <2>. DEFINE q == m \div k
                z == k * q
    <2>4. q \in Nat /\ z \in Nat /\ z <= m /\ m < z + k
      BY <2>2
    <2>5. row(n) = m - z /\ place(n) = q + 1
      BY <2>3
    <2>. HIDE DEF row, place, q, z
    <2>6. row(n) \in rows /\ place(n) \in Nat \ {0} /\ m = z + row(n) /\ place(n) - 1 = q
      BY <2>1, <2>4, <2>5
    <2>. QED
      BY <2>6 DEF m, z
  <1>. HIDE DEF row, place
  <1>4. ASSUME NEW x \in S, NEW n \in 1 .. g[x]
        PROVE  place(n) \in 1 .. f[x]
    <2>1. f[x] \in Nat /\ g[x] \in Nat /\ g[x] <= k * f[x] /\ n \in Nat \ {0} /\ n <= g[x]
      BY <1>2
    <2>2. row(n) \in Nat /\ place(n) \in Nat \ {0} /\ n - 1 = k * (place(n) - 1) + row(n)
      BY <1>3, <2>1
    <2>. DEFINE y == f[x]
                p == place(n)
    <2>3. y \in Nat /\ p \in Nat \ {0} /\ k * (p - 1) < k * y
      <3>1. k * (p - 1) \in Nat /\ k * y \in Nat
        BY <2>1, <2>2
      <3>. QED
        BY <2>1, <2>2, <3>1
    <2>. HIDE DEF y, p
    <2>4. p - 1 < y
      <3>. SUFFICES ASSUME y <= p - 1 PROVE FALSE
        BY <2>3
      <3>1. p - 1 - y \in Nat /\ k * (p - 1 - y) = k * (p - 1) - k * y
        BY <2>3
      <3>2. k * (p - 1 - y) \in Nat /\ k * y \in Nat /\ k * (p - 1) \in Nat
        BY <2>3, <3>1
      <3>. QED
        BY <2>3, <3>1, <3>2
    <2>5. p \in 1 .. y
      BY <2>3, <2>4
    <2>. QED
      BY <2>5 DEF p, y
  <1>5. into \in Injection(Coins(g), Coins(f) \X rows)
    <2>1. ASSUME NEW c \in Coins(g)
          PROVE  into[c] \in Coins(f) \X rows
      <3>1. c[1] \in S /\ c[2] \in 1 .. g[c[1]] /\ c[2] \in Nat \ {0}
        BY <1>1
      <3>2. place(c[2]) \in 1 .. f[c[1]] /\ row(c[2]) \in rows
        BY <1>3, <1>4, <3>1
      <3>3. <<c[1], place(c[2])>> \in Coins(f)
        BY <1>1, <1>2, <3>1, <3>2
      <3>. QED
        BY <3>2, <3>3
    <2>2. ASSUME NEW c \in Coins(g), NEW d \in Coins(g), into[c] = into[d]
          PROVE  c = d
      <3>1. c[2] \in Nat \ {0} /\ d[2] \in Nat \ {0} /\ c = <<c[1], c[2]>> /\ d = <<d[1], d[2]>>
        BY <1>1
      <3>2. c[1] = d[1] /\ place(c[2]) = place(d[2]) /\ row(c[2]) = row(d[2])
        BY <2>2
      <3>3. c[2] - 1 = d[2] - 1
        BY <1>3, <3>1, <3>2
      <3>. QED
        BY <3>1, <3>2, <3>3
    <2>3. into = [c \in Coins(g) |-> into[c]]
      OBVIOUS
    <2>. HIDE DEF into, rows
    <2>. QED
      BY <2>1, <2>2, <2>3 DEF Injection, IsInjective
  <1>6. IsFiniteSet(rows) /\ Cardinality(rows) = k
    <2>1. IsFiniteSet(0 .. (k - 1)) /\ Cardinality(0 .. (k - 1)) = IF 0 > k - 1 THEN 0 ELSE (k - 1) - 0 + 1
      BY FS_Interval
    <2>. QED
      BY <2>1
  <1>. HIDE DEF into, rows
  <1>7. IsFiniteSet(Coins(f))
    BY CoinsFinite
  <1>8. IsFiniteSet(Coins(f) \X rows) /\ Cardinality(Coins(f) \X rows) = Cardinality(Coins(f)) * k
    BY <1>6, <1>7, FS_Product
  <1>9. Cardinality(Coins(g)) <= Cardinality(Coins(f)) * k
    BY <1>5, <1>8, FS_Injection
  <1>10. Cardinality(Coins(f)) \in Nat
    BY <1>7, FS_CardinalityType
  <1>. QED
    BY <1>9, <1>10 DEF Total

\* A set is counted by the total of its characteristic function.
LEMMA TotalCounts ==
    ASSUME NEW S, IsFiniteSet(S), NEW T \in SUBSET S
    PROVE  Total([x \in S |-> IF x \in T THEN 1 ELSE 0]) = Cardinality(T)
  <1>1. Coins([x \in S |-> IF x \in T THEN 1 ELSE 0]) = T \X {1}
    BY DEF Coins
  <1>2. IsFiniteSet(T) /\ Cardinality(T) \in Nat
    BY FS_Subset, FS_CardinalityType
  <1>3. IsFiniteSet({1}) /\ Cardinality({1}) = 1
    BY FS_Singleton
  <1>4. Cardinality(T \X {1}) = Cardinality(T) * Cardinality({1})
    BY <1>2, <1>3, FS_Product
  <1>5. Cardinality(T \X {1}) = Cardinality(T)
    BY <1>2, <1>3, <1>4
  <1>. QED
    BY <1>1, <1>5 DEF Total

\* A set of numbers that is not empty has a least element.
LEMMA LeastNumber ==
    ASSUME NEW S \in SUBSET Nat, S # {}
    PROVE  \E x \in S : \A y \in S : x <= y
  <1>. DEFINE Below == OpToRel(<, Nat)
  <1>1. IsWellFoundedOn(Below, Nat)
    BY NatLessThanWellFounded, SMT DEF OpToRel, Below
  <1>2. PICK x \in S : \A y \in S : <<y, x>> \notin Below
    BY <1>1, WFMin, Zenon
  <1>3. ASSUME NEW y \in S
        PROVE  x <= y
    <2>1. x \in Nat /\ y \in Nat
      OBVIOUS
    <2>2. ~(y < x)
      BY <1>2, <2>1 DEF Below, OpToRel
    <2>. QED
      BY <2>1, <2>2
  <1>. QED
    BY <1>3

\* A bounded set of numbers that is not empty has a greatest element.
LEMMA GreatestNumber ==
    ASSUME NEW b \in Nat, NEW T \in SUBSET (0 .. b), T # {}
    PROVE  \E x \in T : \A y \in T : y <= x
  <1>. DEFINE S == {b - y : y \in T}
  <1>1. S \in SUBSET Nat /\ S # {}
    BY \A y \in T : b - y \in Nat
  <1>2. PICK x \in S : \A y \in S : x <= y
    <2>. HIDE DEF S
    <2>. QED
      BY <1>1, LeastNumber
  <1>3. PICK t \in T : x = b - t
    BY <1>2
  <1>4. ASSUME NEW y \in T
        PROVE  y <= t
    <2>1. x <= b - y
      BY <1>2
    <2>. QED
      BY <1>3, <2>1
  <1>. QED
    BY <1>4

=============================================================================
