--------------------------- MODULE FindingsProofs ---------------------------
(***************************************************************************)
(* What a report keeps of the findings, what the score makes of them, and  *)
(* what the deferred HTML page shows of the report.                        *)
(***************************************************************************)
EXTENDS HtmlReport, FiniteSetTheorems, TLAPS

-----------------------------------------------------------------------------
(* Arranging a set, and counting *)

\* Pairs that order the members of a set strictly and totally.
Orders(before, S) ==
  /\ \A x \in S : <<x, x>> \notin before
  /\ \A x, y, z \in S : <<x, y>> \in before /\ <<y, z>> \in before => <<x, z>> \in before
  /\ \A x, y \in S : x = y \/ <<x, y>> \in before \/ <<y, x>> \in before

\* Every member of the set has one number.
Numbers(w, n, S) ==
  /\ w \in [1..n -> S]
  /\ \A x \in S : \E k \in 1..n : w[k] = x
  /\ \A k, l \in 1..n : k < l => w[k] # w[l]

\* A finite set is arranged with every member once, and in the order.
LEMMA ArrangedOnce ==
  ASSUME NEW S, IsFiniteSet(S), NEW before, Orders(before, S)
  PROVE  LET n == Cardinality(S)
             a == Arranged(S, before)
         IN  /\ n \in Nat /\ Numbers(a, n, S)
             /\ \A k, l \in 1..n : k < l => <<a[k], a[l]>> \in before
<1> DEFINE n == Cardinality(S)
           Upto(x) == {y \in S : y = x \/ <<y, x>> \in before}
           place == [x \in S |-> Cardinality(Upto(x))]
           a == Arranged(S, before)
<1>1. n \in Nat
  BY FS_CardinalityType
<1>2. ASSUME NEW x \in S PROVE IsFiniteSet(Upto(x)) /\ place[x] = Cardinality(Upto(x)) /\ place[x] \in 1..n
  <2>1. Upto(x) \subseteq S /\ x \in Upto(x)
    OBVIOUS
  <2>2. place[x] = Cardinality(Upto(x))
    OBVIOUS
  <2> HIDE DEF Upto, place
  <2>3. IsFiniteSet(Upto(x)) /\ Cardinality(Upto(x)) <= n
    BY <2>1, FS_Subset
  <2>4. Cardinality(Upto(x)) \in Nat /\ Cardinality(Upto(x)) # 0
    BY <2>1, <2>3, FS_CardinalityType, FS_EmptySet
  <2> QED BY <1>1, <2>2, <2>3, <2>4
<1>3. ASSUME NEW x \in S, NEW y \in S, <<x, y>> \in before PROVE place[x] < place[y]
  <2>1. Upto(x) \subseteq Upto(y) /\ y \in Upto(y) /\ y \notin Upto(x)
    BY <1>3 DEF Orders
  <2> HIDE DEF Upto, place
  <2>2. Upto(x) # Upto(y)
    BY <2>1
  <2>3. Cardinality(Upto(x)) < Cardinality(Upto(y))
    <3>1. IsFiniteSet(Upto(y)) /\ IsFiniteSet(Upto(x))
      BY <1>2
    <3>2. Cardinality(Upto(x)) \in Nat /\ Cardinality(Upto(y)) \in Nat
      BY <3>1, FS_CardinalityType
    <3>3. Cardinality(Upto(x)) <= Cardinality(Upto(y)) /\ Cardinality(Upto(x)) # Cardinality(Upto(y))
      BY <2>1, <2>2, <3>1, FS_Subset
    <3> QED BY <3>2, <3>3
  <2> QED BY <1>2, <2>3
<1>4. \A x, y \in S : place[x] = place[y] => x = y
  <2> SUFFICES ASSUME NEW x \in S, NEW y \in S, place[x] = place[y], x # y PROVE FALSE
    OBVIOUS
  <2>1. place[x] < place[y] \/ place[y] < place[x]
    BY <1>3 DEF Orders
  <2>2. place[x] \in 1..n /\ place[y] \in 1..n
    BY <1>2
  <2> HIDE DEF place
  <2> QED BY <2>1, <2>2, <1>1
<1>5. \A k \in 1..n : \E x \in S : place[x] = k
  <2>1. place \in [S -> 1..n]
    <3>1. DOMAIN place = S /\ \A x \in S : place[x] \in 1..n
      BY <1>2
    <3> QED BY <3>1
  <2>2. place \in Injection(S, 1..n)
    <3> HIDE DEF place
    <3> QED BY <1>4, <2>1 DEF Injection, IsInjective
  <2>3. IsFiniteSet(1..n) /\ Cardinality(1..n) = n
    BY <1>1, FS_Interval
  <2>4. place \in Surjection(S, 1..n)
    <3> HIDE DEF place
    <3> QED BY <2>2, <2>3, FS_Injection
  <2> QED BY <2>4 DEF Surjection
<1>6. ASSUME NEW k \in 1..n PROVE a[k] \in S /\ place[a[k]] = k
  <2>1. a[k] = CHOOSE x \in S : Cardinality(Upto(x)) = k
    BY DEF Arranged
  <2>2. \E x \in S : Cardinality(Upto(x)) = k
    <3>1. PICK x \in S : place[x] = k
      BY <1>5
    <3> QED BY <1>2, <3>1
  <2>3. a[k] \in S /\ Cardinality(Upto(a[k])) = k
    <3> HIDE DEF a, Upto
    <3> QED BY <2>1, <2>2
  <2> QED BY <1>2, <2>3
<1>7. a \in [1..n -> S]
  BY <1>6 DEF Arranged
<1>8. \A x \in S : \E k \in 1..n : a[k] = x
  <2> SUFFICES ASSUME NEW x \in S PROVE \E k \in 1..n : a[k] = x
    OBVIOUS
  <2>1. place[x] \in 1..n
    BY <1>2
  <2>2. a[place[x]] \in S /\ place[a[place[x]]] = place[x]
    BY <1>6, <2>1
  <2> HIDE DEF a, place
  <2> QED BY <1>4, <2>1, <2>2
<1>9. ASSUME NEW k \in 1..n, NEW l \in 1..n, k < l PROVE <<a[k], a[l]>> \in before /\ a[k] # a[l]
  <2>1. /\ a[k] \in S /\ a[l] \in S /\ a[k] # a[l] /\ place[a[k]] = k /\ place[a[l]] = l
    BY <1>1, <1>6, <1>9
  <2>2. <<a[l], a[k]>> \notin before
    <3>1. <<a[l], a[k]>> \in before => l < k
      BY <1>3, <2>1
    <3> QED BY <1>1, <1>9, <3>1
  <2> QED BY <2>1, <2>2 DEF Orders
<1> HIDE DEF a
<1>10. Numbers(a, n, S)
  BY <1>7, <1>8, <1>9 DEF Numbers
<1> QED BY <1>1, <1>9, <1>10 DEF a

\* The least number of a set.
LEMMA MinIsLeast ==
  ASSUME NEW S \in SUBSET Nat, IsFiniteSet(S), S # {}
  PROVE  Min(S) \in S /\ \A x \in S : Min(S) <= x
<1> DEFINE before == {p \in S \X S : p[1] < p[2]}
           a == Arranged(S, before)
           n == Cardinality(S)
<1>1. Orders(before, S)
  BY DEF Orders
<1>2. /\ n \in Nat /\ a \in [1..n -> S]
      /\ \A x \in S : \E k \in 1..n : a[k] = x
      /\ \A k, l \in 1..n : k < l => <<a[k], a[l]>> \in before
  <2> HIDE DEF before
  <2>1. n \in Nat /\ Numbers(a, n, S) /\ \A k, l \in 1..n : k < l => <<a[k], a[l]>> \in before
    BY <1>1, ArrangedOnce
  <2> HIDE DEF a, n
  <2> QED BY <2>1 DEF Numbers
<1>3. n # 0
  BY FS_EmptySet
<1>4. ASSUME NEW x \in S PROVE a[1] <= x
  <2>1. PICK k \in 1..n : a[k] = x
    BY <1>2
  <2>2. 1 \in 1..n /\ (k = 1 \/ 1 < k)
    BY <1>2, <1>3
  <2>3. k = 1 \/ <<a[1], a[k]>> \in before
    <3> HIDE DEF a, before
    <3> QED BY <1>2, <2>2
  <2>4. k = 1 \/ a[1] < a[k]
    BY <2>3
  <2>5. a[1] \in Nat
    <3> HIDE DEF a
    <3> QED BY <1>2, <2>2
  <2> HIDE DEF a
  <2> QED BY <2>1, <2>4, <2>5
<1>5. \E x \in S : \A y \in S : x <= y
  <2>1. a[1] \in S
    <3>1. 1 \in 1..n
      BY <1>2, <1>3
    <3> HIDE DEF a
    <3> QED BY <1>2, <3>1
  <2> HIDE DEF a
  <2> QED BY <1>4, <2>1
<1> QED BY <1>5 DEF Min

\* The places among some at which a sequence has a trait.
PlacesWith(s, places, trait) == {i \in places : s[i] \in trait}

\* The numbers up to one.
LEMMA UpToIsFinite ==
  ASSUME NEW n \in Nat
  PROVE  IsFiniteSet(1..n) /\ Cardinality(1..n) = n
BY FS_Interval

\* Numbering a set changes no count.
LEMMA NumberedCount ==
  ASSUME NEW n \in Nat, NEW S, NEW w, Numbers(w, n, S),
         NEW T \in SUBSET S, NEW K \in SUBSET (1..n), \A k \in 1..n : k \in K <=> w[k] \in T
  PROVE  IsFiniteSet(K) /\ IsFiniteSet(T) /\ Cardinality(K) = Cardinality(T)
<1> DEFINE f == [k \in K |-> w[k]]
<1>1. IsFiniteSet(K)
  <2>1. IsFiniteSet(1..n) /\ K \subseteq 1..n
    BY FS_Interval
  <2> QED BY <2>1, FS_Subset
<1>2. f \in [K -> T]
  BY DEF Numbers
<1>3. \A x \in T : \E k \in K : f[k] = x
  BY DEF Numbers
<1>4. \A k, l \in K : f[k] = f[l] => k = l
  <2> SUFFICES ASSUME NEW k \in K, NEW l \in K, f[k] = f[l], k # l PROVE FALSE
    OBVIOUS
  <2>1. k \in 1..n /\ l \in 1..n /\ w[k] = w[l] /\ (k < l \/ l < k)
    OBVIOUS
  <2> QED BY <2>1 DEF Numbers
<1>5. f \in Bijection(K, T)
  <2> HIDE DEF f
  <2> QED BY <1>2, <1>3, <1>4 DEF Bijection, Injection, Surjection, IsInjective
<1>6. ExistsBijection(K, T)
  BY <1>5 DEF ExistsBijection
<1> QED BY <1>1, <1>6, FS_Bijection

-----------------------------------------------------------------------------
(* The best finding of each key *)

\* Being better is a weak order.
WeakOrder(better, D) ==
  /\ \A f, g \in D : <<f, g>> \in better => <<g, f>> \notin better
  /\ \A f, g, h \in D : <<f, g>> \in better /\ <<g, h>> \in better => <<f, h>> \in better
  /\ \A f, g, h \in D : <<f, g>> \notin better /\ <<g, h>> \notin better => <<f, h>> \notin better

\* Each key has one winner, and none of its findings is better.
LEMMA OneWinner ==
  ASSUME NEW D, NEW s \in Seq(D), NEW key, NEW better, WeakOrder(better, D), NEW i \in DOMAIN s
  PROVE  /\ \E w \in Winners(s, key, better) \cap SameKey(s, key, i) :
              \A k \in SameKey(s, key, i) : <<s[k], s[w]>> \notin better
         /\ \A v, w \in Winners(s, key, better) \cap SameKey(s, key, i) : v = w
<1> DEFINE S == SameKey(s, key, i)
           W == Winners(s, key, better)
           before == {p \in S \X S : \/ <<s[p[1]], s[p[2]]>> \in better
                                     \/ <<s[p[2]], s[p[1]]>> \notin better /\ p[1] < p[2]}
           n == Cardinality(S)
           a == Arranged(S, before)
<1>1. /\ DOMAIN s = 1..Len(s) /\ Len(s) \in Nat /\ \A k \in DOMAIN s : s[k] \in D
      /\ S \subseteq DOMAIN s /\ i \in S
  BY DEF SameKey
<1>2. IsFiniteSet(S) /\ \A k \in S : k \in Nat /\ s[k] \in D
  <2>1. IsFiniteSet(1..Len(s))
    BY <1>1, FS_Interval
  <2> HIDE DEF S
  <2> QED BY <1>1, <2>1, FS_Subset
<1>3. \A k, l \in S : <<k, l>> \in before <=>
         \/ <<s[k], s[l]>> \in better
         \/ <<s[l], s[k]>> \notin better /\ k < l
  <2> HIDE DEF S
  <2> QED OBVIOUS
<1> HIDE DEF before
<1>4. Orders(before, S)
  <2> HIDE DEF S
  <2>1. ASSUME NEW k \in S PROVE <<k, k>> \notin before
    <3>1. <<s[k], s[k]>> \notin better /\ ~(k < k)
      BY <1>2 DEF WeakOrder
    <3> QED BY <1>3, <3>1
  <2>2. ASSUME NEW k \in S, NEW l \in S, NEW m \in S, <<k, l>> \in before, <<l, m>> \in before
        PROVE  <<k, m>> \in before
    <3> DEFINE B(x, y) == <<s[x], s[y]>> \in better
    <3>1. (B(k, l) \/ (~B(l, k) /\ k < l)) /\ (B(l, m) \/ (~B(m, l) /\ l < m))
      BY <1>3, <2>2
    <3>2. \A x, y, z \in S : (B(x, y) /\ B(y, z) => B(x, z)) /\ (~B(x, y) /\ ~B(y, z) => ~B(x, z)) /\ (B(x, y) => ~B(y, x))
      BY <1>2 DEF WeakOrder
    <3>3. B(k, m) \/ (~B(m, k) /\ k < m)
      <4> HIDE DEF B
      <4> QED BY <1>2, <3>1, <3>2
    <3> QED BY <1>3, <3>3
  <2>3. ASSUME NEW k \in S, NEW l \in S PROVE k = l \/ <<k, l>> \in before \/ <<l, k>> \in before
    <3>1. k = l \/ k < l \/ l < k
      BY <1>2
    <3>2. k < l => <<k, l>> \in before \/ <<s[l], s[k]>> \in better
      BY <1>3
    <3>3. l < k => <<l, k>> \in before \/ <<s[k], s[l]>> \in better
      BY <1>3
    <3> QED BY <1>3, <3>1, <3>2, <3>3
  <2> QED BY <2>1, <2>2, <2>3 DEF Orders
<1>5. \A w \in S : w \in W <=> \A j \in S \ {w} : <<w, j>> \in before
  <2> SUFFICES ASSUME NEW w \in S PROVE w \in W <=> \A j \in S \ {w} : <<w, j>> \in before
    OBVIOUS
  <2>1. SameKey(s, key, w) = S
    BY DEF SameKey
  <2>2. w \in W <=> \A j \in S \ {w} :
                      IF j < w THEN <<s[w], s[j]>> \in better ELSE <<s[j], s[w]>> \notin better
    BY <1>1, <2>1 DEF Winners
  <2> HIDE DEF S, W
  <2>3. ASSUME NEW j \in S \ {w}
        PROVE  <<w, j>> \in before <=> IF j < w THEN <<s[w], s[j]>> \in better ELSE <<s[j], s[w]>> \notin better
    <3>1. j \in Nat /\ w \in Nat /\ j # w
      BY <1>2
    <3>2. <<w, j>> \in before <=> <<s[w], s[j]>> \in better \/ (<<s[j], s[w]>> \notin better /\ w < j)
      BY <1>3
    <3>3. <<s[w], s[j]>> \in better => <<s[j], s[w]>> \notin better
      BY <1>2 DEF WeakOrder
    <3> QED BY <3>1, <3>2, <3>3
  <2> QED BY <2>2, <2>3
<1>6. /\ n \in Nat /\ a \in [1..n -> S]
      /\ \A x \in S : \E k \in 1..n : a[k] = x
      /\ \A k, l \in 1..n : k < l => <<a[k], a[l]>> \in before
  <2> HIDE DEF S
  <2>1. n \in Nat /\ Numbers(a, n, S) /\ \A k, l \in 1..n : k < l => <<a[k], a[l]>> \in before
    BY <1>2, <1>4, ArrangedOnce
  <2> HIDE DEF a, n
  <2> QED BY <2>1 DEF Numbers
<1>7. 1 \in 1..n
  <2>1. n # 0
    <3> HIDE DEF S
    <3> QED BY <1>1, <1>2, FS_EmptySet
  <2> QED BY <1>6, <2>1
<1>8. PICK w \in S : \A j \in S \ {w} : <<w, j>> \in before
  <2> HIDE DEF S, a
  <2>1. ASSUME NEW j \in S \ {a[1]} PROVE <<a[1], j>> \in before
    <3>1. PICK k \in 1..n : a[k] = j
      BY <1>6
    <3>2. 1 < k
      BY <3>1, <2>1, <1>7
    <3> QED BY <1>6, <1>7, <3>1, <3>2
  <2> QED BY <1>6, <1>7, <2>1
<1>9. \A k \in S : <<s[k], s[w]>> \notin better
  <2> HIDE DEF S
  <2> QED BY <1>2, <1>3, <1>8 DEF WeakOrder
<1>10. ASSUME NEW v \in W \cap S, NEW u \in W \cap S PROVE v = u
  <2> HIDE DEF S, W
  <2>1. v # u => <<v, u>> \in before /\ <<u, v>> \in before
    BY <1>5, <1>10
  <2>2. <<v, u>> \in before /\ <<u, v>> \in before => <<v, v>> \in before
    BY <1>4 DEF Orders
  <2> QED BY <1>4, <2>1, <2>2 DEF Orders
<1> HIDE DEF S, W
<1>11. w \in W
  BY <1>5, <1>8
<1> QED BY <1>8, <1>9, <1>10, <1>11 DEF S, W

\* The findings that are kept are the winners, each once.
LEMMA WinnersAreKept ==
  ASSUME NEW D, NEW s \in Seq(D), NEW key, NEW better, WeakOrder(better, D)
  PROVE  LET W == Winners(s, key, better)
             n == Cardinality(W)
             kept == BestPerKey(s, key, better)
         IN  /\ n \in Nat /\ W \subseteq DOMAIN s /\ IsFiniteSet(W)
             /\ kept \in Seq(D) /\ DOMAIN kept = 1..n /\ Len(kept) = n
             /\ \E w : Numbers(w, n, W) /\ \A k \in 1..n : kept[k] = s[w[k]]
<1> DEFINE W == Winners(s, key, better)
           n == Cardinality(W)
           First(i) == Min(SameKey(s, key, i))
           before == {p \in W \X W : First(p[1]) < First(p[2])}
           order == Arranged(W, before)
           kept == BestPerKey(s, key, better)
<1>1. /\ DOMAIN s = 1..Len(s) /\ Len(s) \in Nat /\ W \subseteq DOMAIN s /\ \A i \in DOMAIN s : s[i] \in D
  BY DEF Winners
<1>2. IsFiniteSet(1..Len(s))
  BY <1>1, FS_Interval
<1>3. IsFiniteSet(W)
  <2> HIDE DEF W
  <2> QED BY <1>1, <1>2, FS_Subset
<1>4. ASSUME NEW i \in W PROVE First(i) \in Nat /\ First(i) \in SameKey(s, key, i)
  <2>1. SameKey(s, key, i) \subseteq 1..Len(s) /\ i \in SameKey(s, key, i)
    BY <1>1 DEF SameKey
  <2>2. IsFiniteSet(SameKey(s, key, i))
    BY <1>2, <2>1, FS_Subset
  <2>3. SameKey(s, key, i) \in SUBSET Nat
    BY <1>1, <2>1
  <2> QED BY <2>1, <2>2, <2>3, MinIsLeast
<1>5. ASSUME NEW i \in W, NEW j \in W, First(i) = First(j) PROVE i = j
  <2>1. i \in DOMAIN s /\ j \in DOMAIN s
    BY <1>1
  <2>2. key[s[First(i)]] = key[s[i]] /\ key[s[First(i)]] = key[s[j]]
    <3>1. First(i) \in SameKey(s, key, i) /\ First(j) \in SameKey(s, key, j)
      BY <1>4
    <3> HIDE DEF First
    <3> QED BY <3>1, <1>5 DEF SameKey
  <2>3. i \in SameKey(s, key, i) /\ j \in SameKey(s, key, i)
    BY <2>1, <2>2 DEF SameKey
  <2> HIDE DEF First
  <2> QED BY <2>1, <2>3, OneWinner
<1>6. Orders(before, W)
  <2>1. \A i, j \in W : <<i, j>> \in before <=> First(i) < First(j)
    <3> HIDE DEF First, W
    <3> QED OBVIOUS
  <2> HIDE DEF before, First, W
  <2> QED BY <1>4, <1>5, <2>1 DEF Orders
<1>7. n \in Nat /\ Numbers(order, n, W)
  <2> HIDE DEF W, before
  <2> QED BY <1>3, <1>6, ArrangedOnce
<1>8. kept = [k \in DOMAIN order |-> s[order[k]]]
  BY DEF BestPerKey
<1> HIDE DEF kept, order, W
<1>9. DOMAIN kept = 1..n /\ \A k \in 1..n : kept[k] = s[order[k]] /\ kept[k] \in D
  BY <1>1, <1>7, <1>8 DEF Numbers
<1>10. kept \in [1..n -> D]
  BY <1>8, <1>9
<1>11. kept \in Seq(D) /\ Len(kept) = n
  BY <1>7, <1>10
<1> QED BY <1>1, <1>3, <1>7, <1>9, <1>11 DEF kept, W

\* Of each key one finding is kept, and it is one that no other of its key beats.
LEMMA BestIsKept ==
  ASSUME NEW D, NEW s \in Seq(D), NEW key, NEW better, WeakOrder(better, D), NEW i \in DOMAIN s
  PROVE  LET kept == BestPerKey(s, key, better)
         IN  \E k \in DOMAIN kept :
               /\ \A l \in DOMAIN kept : key[kept[l]] = key[s[i]] <=> l = k
               /\ <<s[i], kept[k]>> \notin better
               /\ \E j \in DOMAIN s : kept[k] = s[j]
<1> DEFINE W == Winners(s, key, better)
           n == Cardinality(W)
           kept == BestPerKey(s, key, better)
<1>1. n \in Nat /\ W \subseteq DOMAIN s /\ DOMAIN kept = 1..n
  BY WinnersAreKept
<1>2. PICK w : Numbers(w, n, W) /\ \A k \in 1..n : kept[k] = s[w[k]]
  BY WinnersAreKept
<1>3. PICK x \in W \cap SameKey(s, key, i) : \A k \in SameKey(s, key, i) : <<s[k], s[x]>> \notin better
  BY OneWinner
<1>4. \A v \in W \cap SameKey(s, key, i) : v = x
  BY <1>3, OneWinner
<1>5. PICK k \in 1..n : w[k] = x
  BY <1>2, <1>3 DEF Numbers
<1>6. key[s[x]] = key[s[i]] /\ i \in SameKey(s, key, i)
  BY <1>3 DEF SameKey
<1> HIDE DEF W, kept
<1>7. ASSUME NEW l \in 1..n PROVE key[kept[l]] = key[s[i]] <=> l = k
  <2>1. kept[l] = s[w[l]] /\ w[l] \in W /\ w[l] \in DOMAIN s
    BY <1>1, <1>2 DEF Numbers
  <2>2. key[kept[l]] = key[s[i]] => w[l] = x
    <3>1. key[kept[l]] = key[s[i]] => w[l] \in SameKey(s, key, i)
      BY <2>1 DEF SameKey
    <3> QED BY <1>4, <2>1, <3>1
  <2>3. w[l] = x => l = k
    <3>1. l # k => l < k \/ k < l
      BY <1>1
    <3> QED BY <1>2, <1>5, <3>1 DEF Numbers
  <2> QED BY <1>5, <1>6, <2>1, <2>2, <2>3
<1>8. kept[k] = s[x] /\ <<s[i], s[x]>> \notin better /\ x \in DOMAIN s
  BY <1>1, <1>2, <1>3, <1>5, <1>6
<1> QED BY <1>1, <1>7, <1>8 DEF kept

\* As many findings with some trait are kept as there are winners with it.
LEMMA KeptCount ==
  ASSUME NEW D, NEW s \in Seq(D), NEW key, NEW better, WeakOrder(better, D), NEW T
  PROVE  LET kept == BestPerKey(s, key, better)
             W == Winners(s, key, better)
         IN  Cardinality(PlacesWith(kept, DOMAIN kept, T)) = Cardinality(PlacesWith(s, W, T))
<1> DEFINE W == Winners(s, key, better)
           n == Cardinality(W)
           kept == BestPerKey(s, key, better)
           X == {i \in W : s[i] \in T}
<1>1. n \in Nat /\ DOMAIN kept = 1..n
  BY WinnersAreKept
<1>2. PICK w : Numbers(w, n, W) /\ \A k \in 1..n : kept[k] = s[w[k]]
  BY WinnersAreKept
<1>3. Cardinality({k \in 1..n : w[k] \in X}) = Cardinality(X)
  <2> DEFINE K == {k \in 1..n : w[k] \in X}
  <2>1. X \in SUBSET W /\ K \in SUBSET (1..n) /\ \A k \in 1..n : k \in K <=> w[k] \in X
    OBVIOUS
  <2> HIDE DEF X, W, n, K
  <2>2. n \in Nat /\ Numbers(w, n, W)
    BY <1>1, <1>2 DEF Numbers
  <2>3. Cardinality(K) = Cardinality(X)
    BY <2>1, <2>2, NumberedCount
  <2> QED BY <2>3 DEF K
<1>4. {k \in DOMAIN kept : kept[k] \in T} = {k \in 1..n : w[k] \in X}
  <2> HIDE DEF kept, W
  <2> QED BY <1>1, <1>2 DEF Numbers
<1> QED BY <1>3, <1>4 DEF PlacesWith

-----------------------------------------------------------------------------
(* Findings *)

Finding == {Normal(raw, m) : raw \in RawFindings, m \in ScoutNames}

Severities == {"critical", "high", "medium", "low", "info"}
Confidences == {"verified-live", "verified-static", "plausible-unconfirmed", "informational"}

\* A normalised finding has a severity and a confidence, and so a rank for each.
LEMMA FindingHasRanks ==
  ASSUME NEW f \in Finding
  PROVE  f.severity \in Severities /\ f.confidence \in Confidences
<1>1. PICK raw \in RawFindings, m \in ScoutNames : f = Normal(raw, m)
  BY DEF Finding
<1>2. f.severity = (IF raw.severity \in DOMAIN SevRank THEN raw.severity ELSE "info")
      /\ f.confidence = ConfidenceTier(raw.confidence)
  BY <1>1 DEF Normal
<1>3. DOMAIN SevRank = Severities
  BY DEF SevRank, Severities
<1>4. DOMAIN ConfRank = Confidences
  BY DEF ConfRank, Confidences
<1>5. f.severity \in Severities
  BY <1>2, <1>3 DEF Severities
<1>6. ConfidenceTier(raw.confidence) \in Confidences
  BY <1>4 DEF ConfidenceTier, Confidences
<1> QED BY <1>2, <1>5, <1>6

\* The ranks are numbers, and different for what differs.
LEMMA RanksAreStrict ==
  /\ \A x \in Severities : SevRank[x] \in 0..4
  /\ \A x \in Confidences : ConfRank[x] \in 1..4 /\ TextRank[x] \in 1..4
  /\ \A x, y \in Severities : SevRank[x] = SevRank[y] => x = y
  /\ \A x, y \in Confidences : (ConfRank[x] = ConfRank[y] => x = y) /\ (TextRank[x] = TextRank[y] => x = y)
<1>1. /\ SevRank["critical"] = 4 /\ SevRank["high"] = 3 /\ SevRank["medium"] = 2
      /\ SevRank["low"] = 1 /\ SevRank["info"] = 0
  BY DEF SevRank
<1>2. /\ ConfRank["verified-live"] = 4 /\ ConfRank["verified-static"] = 3
      /\ ConfRank["plausible-unconfirmed"] = 2 /\ ConfRank["informational"] = 1
  BY DEF ConfRank
<1>3. /\ TextRank["verified-live"] = 3 /\ TextRank["verified-static"] = 4
      /\ TextRank["plausible-unconfirmed"] = 2 /\ TextRank["informational"] = 1
  BY DEF TextRank, ConfRank
<1> QED BY <1>1, <1>2, <1>3 DEF Severities, Confidences

\* To compare by one rank, and by another where the first is the same, is a weak order.
LEMMA RankedIsWeak ==
  ASSUME NEW D, NEW u \in [D -> Int], NEW v \in [D -> Int], NEW better,
         \A f, g \in D : <<f, g>> \in better <=> (u[f] > u[g] \/ (u[f] = u[g] /\ v[f] > v[g]))
  PROVE  WeakOrder(better, D)
<1>1. ASSUME NEW f \in D, NEW g \in D, NEW h \in D
      PROVE  /\ <<f, g>> \in better => <<g, f>> \notin better
             /\ <<f, g>> \in better /\ <<g, h>> \in better => <<f, h>> \in better
             /\ <<f, g>> \notin better /\ <<g, h>> \notin better => <<f, h>> \notin better
  <2> DEFINE B(x, y) == u[x] > u[y] \/ (u[x] = u[y] /\ v[x] > v[y])
  <2>1. \A x, y \in {f, g, h} : <<x, y>> \in better <=> B(x, y)
    OBVIOUS
  <2>2. \A x \in {f, g, h} : u[x] \in Int /\ v[x] \in Int
    OBVIOUS
  <2>3. (B(f, g) => ~B(g, f)) /\ (B(f, g) /\ B(g, h) => B(f, h)) /\ (~B(f, g) /\ ~B(g, h) => ~B(f, h))
    BY <2>2
  <2> HIDE DEF B
  <2> QED BY <2>1, <2>3
<1> QED BY <1>1 DEF WeakOrder

BetterPairs(findings) == {p \in Range(findings) \X Range(findings) : Better(p[1], p[2])}
Keys(findings) == [f \in Range(findings) |-> Key(f)]

\* Findings are compared by confidence and severity, whatever else they say.
LEMMA BetterIsWeak ==
  ASSUME NEW s \in Seq(Finding)
  PROVE  /\ s \in Seq(Range(s)) /\ Range(s) \subseteq Finding /\ \A i \in DOMAIN s : s[i] \in Range(s)
         /\ WeakOrder(BetterPairs(s), Range(s))
         /\ Deduplicated(s) = BestPerKey(s, Keys(s), BetterPairs(s))
<1> DEFINE D == Range(s)
           u == [f \in D |-> ConfRank[f.confidence]]
           v == [f \in D |-> SevRank[f.severity]]
<1>1. Len(s) \in Nat /\ DOMAIN s = 1..Len(s) /\ \A i \in DOMAIN s : s[i] \in Finding /\ s[i] \in D
  BY DEF Range
<1>2. D \subseteq Finding
  BY <1>1 DEF Range
<1>3. s \in Seq(D)
  <2>1. s \in [1..Len(s) -> D]
    BY <1>1
  <2> HIDE DEF D
  <2> QED BY <1>1, <2>1
<1> HIDE DEF D
<1>4. \A f \in D : /\ ConfRank[f.confidence] \in Int /\ SevRank[f.severity] \in Int
                   /\ f.confidence \in Confidences
  BY <1>2, FindingHasRanks, RanksAreStrict
<1>5. u \in [D -> Int] /\ v \in [D -> Int]
  BY <1>4
<1>6. ASSUME NEW f \in D, NEW g \in D
      PROVE  <<f, g>> \in BetterPairs(s) <=> (u[f] > u[g] \/ (u[f] = u[g] /\ v[f] > v[g]))
  <2>1. <<f, g>> \in BetterPairs(s) <=> Better(f, g)
    BY DEF BetterPairs, D
  <2>2. f.confidence = g.confidence <=> ConfRank[f.confidence] = ConfRank[g.confidence]
    BY <1>4, RanksAreStrict
  <2> QED BY <2>1, <2>2 DEF Better
<1>7. WeakOrder(BetterPairs(s), D)
  <2> HIDE DEF u, v
  <2> QED BY <1>5, <1>6, RankedIsWeak
<1> QED BY <1>1, <1>2, <1>3, <1>7 DEF D, Deduplicated, BetterPairs, Keys

\* A report keeps findings as they are, and one of each scout, title and place.
LEMMA DeduplicatedKeeps ==
  ASSUME NEW s \in Seq(Finding)
  PROVE  /\ Deduplicated(s) \in Seq(Finding)
         /\ \A i \in DOMAIN s : \E k \in DOMAIN Deduplicated(s) :
              LET kept == Deduplicated(s) IN
              /\ \A l \in DOMAIN kept : Key(kept[l]) = Key(s[i]) <=> l = k
              /\ ~Better(s[i], kept[k])
              /\ \E j \in DOMAIN s : kept[k] = s[j]
<1> DEFINE D == Range(s)
           kept == Deduplicated(s)
<1>1. /\ s \in Seq(D) /\ D \subseteq Finding /\ (\A i \in DOMAIN s : s[i] \in D)
      /\ WeakOrder(BetterPairs(s), D) /\ kept = BestPerKey(s, Keys(s), BetterPairs(s))
  BY BetterIsWeak
<1> HIDE DEF kept
<1>2. kept \in Seq(D)
  <2> HIDE DEF D
  <2> QED BY <1>1, WinnersAreKept
<1>3. kept \in Seq(Finding)
  <2>1. Len(kept) \in Nat /\ kept \in [1..Len(kept) -> D]
    <3> HIDE DEF D
    <3> QED BY <1>2
  <2>2. kept \in [1..Len(kept) -> Finding]
    BY <1>1, <2>1
  <2> QED BY <2>1, <2>2
<1>4. ASSUME NEW i \in DOMAIN s
      PROVE  \E k \in DOMAIN kept :
               /\ \A l \in DOMAIN kept : Key(kept[l]) = Key(s[i]) <=> l = k
               /\ ~Better(s[i], kept[k])
               /\ \E j \in DOMAIN s : kept[k] = s[j]
  <2>1. PICK k \in DOMAIN kept :
          /\ \A l \in DOMAIN kept : Keys(s)[kept[l]] = Keys(s)[s[i]] <=> l = k
          /\ <<s[i], kept[k]>> \notin BetterPairs(s)
          /\ \E j \in DOMAIN s : kept[k] = s[j]
    <3> HIDE DEF D
    <3> QED BY <1>1, <1>4, BestIsKept
  <2>2. \A l \in DOMAIN kept : kept[l] \in D
    <3> HIDE DEF D
    <3> QED BY <1>2
  <2>3. \A f \in D : Keys(s)[f] = Key(f)
    BY DEF Keys
  <2>4. s[i] \in D
    BY <1>1
  <2>5. ~Better(s[i], kept[k])
    BY <2>1, <2>2, <2>4 DEF BetterPairs
  <2> HIDE DEF D
  <2>6. \A l \in DOMAIN kept : Key(kept[l]) = Key(s[i]) <=> l = k
    BY <2>1, <2>2, <2>3, <2>4
  <2> QED BY <2>1, <2>5, <2>6
<1> QED BY <1>3, <1>4 DEF kept

-----------------------------------------------------------------------------
(* Deductions *)

Pools == {"baseline", "hardening"}

\* The findings of a severity that count in a pool.
Trait(severity, which) ==
  {f \in Finding : f.severity = severity /\ (f.tier = "hardening") = (which = "hardening")}

Count(findings, severity, which) == Cardinality(PlacesWith(findings, DOMAIN findings, Trait(severity, which)))

\* What severities cost.
LEMMA PenaltiesAdd ==
  ASSUME NEW findings, NEW places, IsFiniteSet(places)
  PROVE  LET Of(severity) == Cardinality({i \in places : findings[i].severity = severity})
         IN  /\ Of("critical") \in Nat /\ Of("high") \in Nat /\ Of("medium") \in Nat /\ Of("low") \in Nat
             /\ Penalties(findings, places) = 30 * Of("critical") + 15 * Of("high") + 5 * Of("medium") + 2 * Of("low")
<1> DEFINE Of(severity) == Cardinality({i \in places : findings[i].severity = severity})
<1>1. \A severity : Of(severity) \in Nat
  <2> SUFFICES ASSUME NEW severity PROVE Of(severity) \in Nat
    OBVIOUS
  <2>1. {i \in places : findings[i].severity = severity} \in SUBSET places
    OBVIOUS
  <2> QED BY <2>1, FS_Subset, FS_CardinalityType
<1>2. /\ BasePenalty["critical"] = 30 /\ BasePenalty["high"] = 15 /\ BasePenalty["medium"] = 5
      /\ BasePenalty["low"] = 2 /\ BasePenalty["info"] = 0
  BY DEF BasePenalty
<1>3. Penalties(findings, places) =
        BasePenalty["critical"] * Of("critical") + BasePenalty["high"] * Of("high")
          + BasePenalty["medium"] * Of("medium") + BasePenalty["low"] * Of("low") + BasePenalty["info"] * Of("info")
  BY DEF Penalties
<1> HIDE DEF Of
<1>4. Penalties(findings, places) =
        30 * Of("critical") + 15 * Of("high") + 5 * Of("medium") + 2 * Of("low") + 0 * Of("info")
  BY <1>2, <1>3
<1>5. /\ Of("critical") \in Nat /\ Of("high") \in Nat /\ Of("medium") \in Nat /\ Of("low") \in Nat
      /\ 0 * Of("info") = 0
  BY <1>1
<1>6. Penalties(findings, places) = 30 * Of("critical") + 15 * Of("high") + 5 * Of("medium") + 2 * Of("low")
  BY <1>4, <1>5
<1> QED BY <1>5, <1>6 DEF Of

\* Places of a report are finitely many.
LEMMA PlacesAreFinite ==
  ASSUME NEW D, NEW s \in Seq(D), NEW P \in SUBSET DOMAIN s
  PROVE  IsFiniteSet(P) /\ Cardinality(P) \in Nat
<1>1. DOMAIN s = 1..Len(s) /\ Len(s) \in Nat
  OBVIOUS
<1>2. IsFiniteSet(1..Len(s))
  BY <1>1, FS_Interval
<1>3. IsFiniteSet(P)
  BY <1>1, <1>2, FS_Subset
<1> QED BY <1>3, FS_CardinalityType

\* A pool costs what its findings do.
LEMMA DeductionCounts ==
  ASSUME NEW s \in Seq(Finding), NEW which \in Pools
  PROVE  /\ \A severity : Count(s, severity, which) \in Nat
         /\ Deduction(s, which) \in Nat
         /\ Deduction(s, which) = 30 * Count(s, "critical", which) + 15 * Count(s, "high", which)
                                    + 5 * Count(s, "medium", which) + 2 * Count(s, "low", which)
<1> DEFINE places == {i \in DOMAIN s : (s[i].tier = "hardening") = (which = "hardening")}
           Of(severity) == Cardinality({i \in places : s[i].severity = severity})
<1>1. \A severity : Count(s, severity, which) \in Nat
  <2> SUFFICES ASSUME NEW severity PROVE Count(s, severity, which) \in Nat
    OBVIOUS
  <2>1. {i \in DOMAIN s : s[i] \in Trait(severity, which)} \in SUBSET DOMAIN s
    OBVIOUS
  <2> QED BY <2>1, PlacesAreFinite DEF Count, PlacesWith
<1>2. IsFiniteSet(places)
  <2>1. places \in SUBSET DOMAIN s
    OBVIOUS
  <2> QED BY <2>1, PlacesAreFinite
<1>3. Deduction(s, which) = Penalties(s, places)
  BY DEF Deduction
<1>4. Penalties(s, places) = 30 * Of("critical") + 15 * Of("high") + 5 * Of("medium") + 2 * Of("low")
  <2> HIDE DEF places
  <2> QED BY <1>2, PenaltiesAdd
<1>5. ASSUME NEW severity PROVE Of(severity) = Count(s, severity, which)
  <2>1. \A i \in DOMAIN s : s[i] \in Finding
    OBVIOUS
  <2>2. {i \in places : s[i].severity = severity} = {i \in DOMAIN s : s[i] \in Trait(severity, which)}
    BY <2>1 DEF Trait
  <2> QED BY <2>2 DEF Count, PlacesWith
<1> HIDE DEF Of, places
<1>6. Deduction(s, which) = 30 * Count(s, "critical", which) + 15 * Count(s, "high", which)
                              + 5 * Count(s, "medium", which) + 2 * Count(s, "low", which)
  BY <1>3, <1>4, <1>5
<1>7. /\ Count(s, "critical", which) \in Nat /\ Count(s, "high", which) \in Nat
      /\ Count(s, "medium", which) \in Nat /\ Count(s, "low", which) \in Nat
  BY <1>1
<1>8. Deduction(s, which) \in Nat
  BY <1>6, <1>7
<1> QED BY <1>1, <1>6, <1>8

\* The lesser of two numbers.
LEMMA MinOfTwo ==
  ASSUME NEW a \in Int, NEW b \in Int
  PROVE  Min({a, b}) = (IF a <= b THEN a ELSE b)
<1>1. \E x \in {a, b} : \A y \in {a, b} : x <= y
  OBVIOUS
<1>2. Min({a, b}) \in {a, b} /\ \A y \in {a, b} : Min({a, b}) <= y
  BY <1>1 DEF Min
<1> QED BY <1>2

\* The greater of two numbers.
LEMMA MaxOfTwo ==
  ASSUME NEW a \in Int, NEW b \in Int
  PROVE  Max({a, b}) = (IF a >= b THEN a ELSE b)
<1>1. \E x \in {a, b} : \A y \in {a, b} : x >= y
  OBVIOUS
<1>2. Max({a, b}) \in {a, b} /\ \A y \in {a, b} : Max({a, b}) >= y
  BY <1>1 DEF Max
<1> QED BY <1>2

\* Both pools cost, the hardening pool 10 at most.
LEMMA DeductionsAreCapped ==
  ASSUME NEW s \in Seq(Finding)
  PROVE  LET b == Deduction(s, "baseline")
             h == Deduction(s, "hardening")
         IN  /\ b \in Nat /\ h \in Nat /\ Deductions(s) \in Nat
             /\ Deductions(s) = b + (IF h <= 10 THEN h ELSE 10)
<1> DEFINE b == Deduction(s, "baseline")
           h == Deduction(s, "hardening")
<1>1. b \in Nat /\ h \in Nat
  BY DeductionCounts DEF Pools
<1>2. Min({h, 10}) = (IF h <= 10 THEN h ELSE 10)
  <2> HIDE DEF h
  <2> QED BY <1>1, MinOfTwo
<1>3. Deductions(s) = b + Min({h, 10})
  BY DEF Deductions
<1> HIDE DEF b, h
<1>4. Deductions(s) \in Nat /\ Deductions(s) = b + (IF h <= 10 THEN h ELSE 10)
  BY <1>1, <1>2, <1>3
<1> QED BY <1>1, <1>4 DEF b, h

-----------------------------------------------------------------------------
(* A finding more *)

Skip(i, k) == IF k < i THEN k ELSE k + 1

\* What is left when one is removed.
LEMMA Removed ==
  ASSUME NEW D, NEW s \in Seq(D), NEW i \in DOMAIN s
  PROVE  LET r == RemoveAt(s, i) IN
         /\ r \in Seq(D) /\ DOMAIN r = 1..(Len(s) - 1)
         /\ \A k \in DOMAIN r : Skip(i, k) \in DOMAIN s \ {i} /\ r[k] = s[Skip(i, k)]
         /\ \A j \in DOMAIN s \ {i} : \E k \in DOMAIN r : j = Skip(i, k)
         /\ \A k, l \in DOMAIN r : (k < l <=> Skip(i, k) < Skip(i, l)) /\ (k = l <=> Skip(i, k) = Skip(i, l))
<1> DEFINE n == Len(s)
           p == SubSeq(s, 1, i - 1)
           q == SubSeq(s, i + 1, n)
           r == RemoveAt(s, i)
<1>1. n \in Nat /\ DOMAIN s = 1..n /\ i \in 1..n
  OBVIOUS
<1>2. p \in Seq(D) /\ Len(p) = i - 1 /\ \A k \in 1..(i - 1) : p[k] = s[k]
  OBVIOUS
<1>3. q \in Seq(D) /\ Len(q) = n - i /\ \A k \in 1..(n - i) : q[k] = s[i + k]
  OBVIOUS
<1>4. r = p \o q
  BY DEF RemoveAt
<1> HIDE DEF p, q, r, n
<1>5. r \in Seq(D) /\ Len(r) = n - 1 /\ DOMAIN r = 1..(n - 1)
  <2>1. r \in Seq(D)
    BY <1>2, <1>3, <1>4
  <2>2. Len(r) = Len(p) + Len(q)
    <3>1. p \in Seq(D) /\ q \in Seq(D)
      BY <1>2, <1>3
    <3> QED BY <1>4, <3>1
  <2>3. Len(r) = n - 1
    BY <1>1, <1>2, <1>3, <2>2
  <2> QED BY <2>1, <2>3
<1>6. ASSUME NEW k \in 1..(n - 1) PROVE Skip(i, k) \in (1..n) \ {i} /\ r[k] = s[Skip(i, k)]
  <2>1. CASE k < i
    BY <1>1, <1>2, <1>3, <1>4, <2>1 DEF Skip
  <2>2. CASE ~(k < i)
    <3>1. r[k] = q[k - (i - 1)] /\ k - (i - 1) \in 1..(n - i)
      BY <1>1, <1>2, <1>3, <1>4, <2>2
    <3>2. r[k] = s[i + (k - (i - 1))] /\ i + (k - (i - 1)) = k + 1
      BY <1>1, <1>3, <3>1
    <3> QED BY <1>1, <2>2, <3>2 DEF Skip
  <2> QED BY <2>1, <2>2
<1>7. ASSUME NEW j \in (1..n) \ {i} PROVE \E k \in 1..(n - 1) : j = Skip(i, k)
  <2>1. CASE j < i
    BY <1>1, <2>1 DEF Skip
  <2>2. CASE i < j
    <3>1. j - 1 \in 1..(n - 1) /\ Skip(i, j - 1) = j
      BY <1>1, <2>2 DEF Skip
    <3> QED BY <3>1
  <2> QED BY <1>1, <2>1, <2>2
<1>8. \A k, l \in 1..(n - 1) : (k < l <=> Skip(i, k) < Skip(i, l)) /\ (k = l <=> Skip(i, k) = Skip(i, l))
  BY <1>1 DEF Skip
<1> QED BY <1>1, <1>5, <1>6, <1>7, <1>8 DEF r, n

\* One finding that has its key for itself makes no winner of the others lose.
LEMMA WinnersStayWinners ==
  ASSUME NEW D, NEW s \in Seq(D), NEW i \in DOMAIN s, NEW key, NEW better, NEW key2, NEW better2,
         \A j \in DOMAIN s \ {i} : key[s[j]] # key[s[i]] /\ key2[s[j]] = key[s[j]],
         \A j, k \in DOMAIN s \ {i} : <<s[j], s[k]>> \in better <=> <<s[j], s[k]>> \in better2,
         NEW k \in Winners(RemoveAt(s, i), key2, better2)
  PROVE  k \in DOMAIN RemoveAt(s, i) /\ Skip(i, k) \in Winners(s, key, better)
<1> DEFINE r == RemoveAt(s, i)
           x == Skip(i, k)
<1>1. /\ \A l \in DOMAIN r : Skip(i, l) \in DOMAIN s \ {i} /\ r[l] = s[Skip(i, l)]
      /\ \A j \in DOMAIN s \ {i} : \E l \in DOMAIN r : j = Skip(i, l)
      /\ \A l, m \in DOMAIN r : (l < m <=> Skip(i, l) < Skip(i, m)) /\ (l = m <=> Skip(i, l) = Skip(i, m))
  BY Removed
<1>2. /\ k \in DOMAIN r
      /\ \A j \in SameKey(r, key2, k) \ {k} :
           IF j < k THEN <<r[k], r[j]>> \in better2 ELSE <<r[j], r[k]>> \notin better2
  BY DEF Winners
<1> HIDE DEF r
<1>3. x \in DOMAIN s \ {i} /\ r[k] = s[x]
  BY <1>1, <1>2
<1>4. ASSUME NEW j \in SameKey(s, key, x) \ {x}
      PROVE  IF j < x THEN <<s[x], s[j]>> \in better ELSE <<s[j], s[x]>> \notin better
  <2>1. j \in DOMAIN s /\ key[s[j]] = key[s[x]] /\ j # x
    BY DEF SameKey
  <2>2. j # i
    BY <1>3, <2>1
  <2>3. PICK l \in DOMAIN r : j = Skip(i, l)
    BY <1>1, <2>1, <2>2
  <2>4. l # k /\ (l < k <=> j < x) /\ r[l] = s[j]
    BY <1>1, <1>2, <2>1, <2>3
  <2> HIDE DEF x
  <2>5. key2[r[l]] = key2[r[k]]
    BY <1>3, <2>1, <2>2, <2>4
  <2>6. l \in SameKey(r, key2, k) \ {k}
    BY <2>4, <2>5 DEF SameKey
  <2>7. IF l < k THEN <<r[k], r[l]>> \in better2 ELSE <<r[l], r[k]>> \notin better2
    BY <1>2, <2>6
  <2>8. (<<s[x], s[j]>> \in better <=> <<s[x], s[j]>> \in better2) /\ (<<s[j], s[x]>> \in better <=> <<s[j], s[x]>> \in better2)
    BY <1>3, <2>1, <2>2
  <2> QED BY <1>3, <2>4, <2>7, <2>8
<1>5. x \in Winners(s, key, better)
  BY <1>3, <1>4 DEF Winners
<1> QED BY <1>2, <1>5 DEF r

\* As many of the kept findings have a trait as there are winners with it.
LEMMA KeptTraits ==
  ASSUME NEW s \in Seq(Finding), NEW severity, NEW which
  PROVE  Count(Deduplicated(s), severity, which)
           = Cardinality(PlacesWith(s, Winners(s, Keys(s), BetterPairs(s)), Trait(severity, which)))
<1> DEFINE D == Range(s)
           T == Trait(severity, which)
           key == Keys(s)
           better == BetterPairs(s)
<1>1. s \in Seq(D) /\ WeakOrder(better, D) /\ Deduplicated(s) = BestPerKey(s, key, better)
  BY BetterIsWeak
<1> HIDE DEF D, T, key, better
<1>2. Cardinality(PlacesWith(BestPerKey(s, key, better), DOMAIN BestPerKey(s, key, better), T))
        = Cardinality(PlacesWith(s, Winners(s, key, better), T))
  BY <1>1, KeptCount
<1> QED BY <1>1, <1>2 DEF Count, T, key, better

\* Without that finding, no more of the kept ones have a trait.
LEMMA FewerWithoutIt ==
  ASSUME NEW s \in Seq(Finding), NEW i \in DOMAIN s,
         \A j \in DOMAIN s \ {i} : Key(s[j]) # Key(s[i]),
         NEW severity, NEW which
  PROVE  Count(Deduplicated(RemoveAt(s, i)), severity, which) <= Count(Deduplicated(s), severity, which)
<1> DEFINE r == RemoveAt(s, i)
           T == Trait(severity, which)
           W == Winners(s, Keys(s), BetterPairs(s))
           V == Winners(r, Keys(r), BetterPairs(r))
           X == {k \in V : r[k] \in T}
           Y == {j \in W : s[j] \in T}
           f == [k \in X |-> Skip(i, k)]
<1>1. /\ r \in Seq(Finding)
      /\ \A k \in DOMAIN r : Skip(i, k) \in DOMAIN s \ {i} /\ r[k] = s[Skip(i, k)]
      /\ \A j \in DOMAIN s \ {i} : \E k \in DOMAIN r : j = Skip(i, k)
      /\ \A k, l \in DOMAIN r : (k = l <=> Skip(i, k) = Skip(i, l))
  BY Removed
<1> HIDE DEF r
<1>2. Count(Deduplicated(s), severity, which) = Cardinality(Y)
  BY KeptTraits DEF PlacesWith
<1>3. Count(Deduplicated(r), severity, which) = Cardinality(X)
  <2>1. X = PlacesWith(r, V, T)
    BY DEF PlacesWith
  <2> HIDE DEF X
  <2> QED BY <1>1, <2>1, KeptTraits
<1>4. \A j \in DOMAIN s : s[j] \in Range(s) /\ Keys(s)[s[j]] = Key(s[j])
  BY DEF Keys, Range
<1>5. \A j \in DOMAIN s \ {i} : s[j] \in Range(r) /\ Keys(r)[s[j]] = Key(s[j])
  <2> SUFFICES ASSUME NEW j \in DOMAIN s \ {i} PROVE s[j] \in Range(r)
    BY DEF Keys
  <2>1. PICK k \in DOMAIN r : j = Skip(i, k)
    BY <1>1
  <2> QED BY <1>1, <2>1 DEF Range
<1>6. \A j, k \in DOMAIN s \ {i} : <<s[j], s[k]>> \in BetterPairs(s) <=> <<s[j], s[k]>> \in BetterPairs(r)
  BY <1>4, <1>5 DEF BetterPairs
<1>7. ASSUME NEW k \in V PROVE k \in DOMAIN r /\ Skip(i, k) \in W
  <2>1. \A j \in DOMAIN s \ {i} : Keys(s)[s[j]] # Keys(s)[s[i]] /\ Keys(r)[s[j]] = Keys(s)[s[j]]
    BY <1>4, <1>5
  <2> QED BY <1>6, <2>1, WinnersStayWinners DEF r
<1> HIDE DEF V, W
<1>8. f \in Injection(X, Y)
  <2>1. f \in [X -> Y]
    <3>1. \A k \in X : Skip(i, k) \in Y
      BY <1>1, <1>7
    <3> QED BY <3>1
  <2>2. \A k, l \in X : f[k] = f[l] => k = l
    BY <1>1, <1>7
  <2> HIDE DEF f, X, Y
  <2> QED BY <2>1, <2>2 DEF Injection, IsInjective
<1>9. IsFiniteSet(Y)
  <2>1. IsFiniteSet(W)
    BY BetterIsWeak, WinnersAreKept DEF W
  <2>2. Y \in SUBSET W
    OBVIOUS
  <2> QED BY <2>1, <2>2, FS_Subset
<1>10. Cardinality(X) <= Cardinality(Y)
  <2> HIDE DEF X, Y, f
  <2> QED BY <1>8, <1>9, FS_Injection
<1> QED BY <1>2, <1>3, <1>10 DEF r

-----------------------------------------------------------------------------
(* The report *)

\* Whatever the scouts have returned is collated as findings.
LEMMA CollatedIsTyped ==
  ASSUME FindingsTypeOK, \A m \in ScoutNames : results[m] # Pending
  PROVE  Collated \in Seq(Finding)
<1> DEFINE found == UNION {{j} \X DOMAIN results[Scouts[j]] : j \in Completed}
           before == {p \in found \X found :
                        IF p[1][1] = p[2][1] THEN p[1][2] < p[2][2] ELSE p[1][1] < p[2][1]}
           order == Arranged(found, before)
           n == Cardinality(found)
<1>1. Len(Scouts) \in Nat /\ DOMAIN Scouts = 1..Len(Scouts) /\ MaxFindings \in Nat
  BY FindingsAssumption
<1>2. ASSUME NEW j \in Completed
      PROVE  /\ j \in 1..Len(Scouts) /\ Scouts[j] \in ScoutNames
             /\ DOMAIN results[Scouts[j]] \subseteq 1..MaxFindings
             /\ \A k \in DOMAIN results[Scouts[j]] : results[Scouts[j]][k] \in RawFindings
  <2>1. j \in DOMAIN Scouts /\ Scouts[j] \in ScoutNames /\ results[Scouts[j]] # Incomplete
    BY DEF Completed, ScoutNames, Range
  <2>2. results[Scouts[j]] \in BoundedSeq(RawFindings, MaxFindings)
    BY <2>1 DEF FindingsTypeOK
  <2>3. PICK l \in 0..MaxFindings : results[Scouts[j]] \in [1..l -> RawFindings]
    BY <2>2 DEF BoundedSeq, SeqOf
  <2>4. 1..l \subseteq 1..MaxFindings
    BY <1>1
  <2> QED BY <1>1, <2>1, <2>3, <2>4
<1>3. \A x \in found : /\ x = <<x[1], x[2]>> /\ x[1] \in Completed /\ x[2] \in DOMAIN results[Scouts[x[1]]]
                       /\ x[1] \in 1..Len(Scouts) /\ x[2] \in 1..MaxFindings
  BY <1>2
<1> HIDE DEF found
<1>4. IsFiniteSet(found)
  <2>1. IsFiniteSet(1..Len(Scouts)) /\ IsFiniteSet(1..MaxFindings)
    BY <1>1, FS_Interval
  <2>2. IsFiniteSet((1..Len(Scouts)) \X (1..MaxFindings))
    BY <2>1, FS_Product
  <2>3. found \subseteq (1..Len(Scouts)) \X (1..MaxFindings)
    BY <1>3
  <2> QED BY <2>2, <2>3, FS_Subset
<1>5. \A x, y \in found : <<x, y>> \in before <=> IF x[1] = y[1] THEN x[2] < y[2] ELSE x[1] < y[1]
  OBVIOUS
<1> HIDE DEF before
<1>6. Orders(before, found)
  <2>1. \A x \in found : <<x, x>> \notin before
    BY <1>3, <1>5
  <2>2. ASSUME NEW x \in found, NEW y \in found, NEW z \in found, <<x, y>> \in before, <<y, z>> \in before
        PROVE  <<x, z>> \in before
    <3>1. (IF x[1] = y[1] THEN x[2] < y[2] ELSE x[1] < y[1]) /\ (IF y[1] = z[1] THEN y[2] < z[2] ELSE y[1] < z[1])
      BY <1>5, <2>2
    <3>2. \A v \in {x, y, z} : v[1] \in Nat /\ v[2] \in Nat
      BY <1>1, <1>3
    <3>3. IF x[1] = z[1] THEN x[2] < z[2] ELSE x[1] < z[1]
      BY <3>1, <3>2
    <3> QED BY <1>5, <3>3
  <2>3. ASSUME NEW x \in found, NEW y \in found PROVE x = y \/ <<x, y>> \in before \/ <<y, x>> \in before
    <3>1. \A v \in {x, y} : v[1] \in Nat /\ v[2] \in Nat /\ v = <<v[1], v[2]>>
      BY <1>1, <1>3
    <3>2. x = y \/ (IF x[1] = y[1] THEN x[2] < y[2] ELSE x[1] < y[1]) \/ (IF y[1] = x[1] THEN y[2] < x[2] ELSE y[1] < x[1])
      BY <3>1
    <3> QED BY <1>5, <3>2
  <2> QED BY <2>1, <2>2, <2>3 DEF Orders
<1>7. n \in Nat /\ order \in [1..n -> found]
  <2>1. n \in Nat /\ Numbers(order, n, found)
    BY <1>4, <1>6, ArrangedOnce
  <2> QED BY <2>1 DEF Numbers
<1>8. Collated = [k \in DOMAIN order |-> Normal(results[Scouts[order[k][1]]][order[k][2]], Scouts[order[k][1]])]
  BY DEF Collated, found, before
<1> HIDE DEF order, n
<1>9. \A k \in 1..n : Normal(results[Scouts[order[k][1]]][order[k][2]], Scouts[order[k][1]]) \in Finding
  <2> SUFFICES ASSUME NEW k \in 1..n
               PROVE  Normal(results[Scouts[order[k][1]]][order[k][2]], Scouts[order[k][1]]) \in Finding
    OBVIOUS
  <2>1. order[k] \in found
    BY <1>7
  <2>2. order[k][1] \in Completed /\ order[k][2] \in DOMAIN results[Scouts[order[k][1]]]
    BY <1>3, <2>1
  <2> QED BY <1>2, <2>2 DEF Finding
<1>10. Collated \in [1..n -> Finding]
  BY <1>7, <1>8, <1>9
<1> QED BY <1>7, <1>10

\* What the scouts have returned is of its type.
LEMMA FindingsTyped == FindingsSpec => []FindingsTypeOK
<1>1. FindingsInit => FindingsTypeOK
  BY DEF FindingsInit, FindingsTypeOK
<1>2. FindingsTypeOK /\ [FindingsNext]_findingVars => FindingsTypeOK'
  <2> SUFFICES ASSUME FindingsTypeOK, [FindingsNext]_findingVars PROVE FindingsTypeOK'
    OBVIOUS
  <2>1. CASE Collates
    BY <2>1 DEF Collates, FindingsTypeOK
  <2>2. ASSUME NEW m \in ScoutNames, ScoutReturns(m) PROVE FindingsTypeOK'
    BY <2>2 DEF ScoutReturns, FindingsTypeOK
  <2>3. ASSUME NEW m \in ScoutNames, ScoutFails(m) PROVE FindingsTypeOK'
    BY <2>3 DEF ScoutFails, FindingsTypeOK
  <2>4. CASE UNCHANGED findingVars
    BY <2>4 DEF findingVars, FindingsTypeOK
  <2> QED BY <2>1, <2>2, <2>3, <2>4 DEF FindingsNext
<1> QED BY <1>1, <1>2, PTL DEF FindingsSpec

\* Once there is a report, nothing it was made of changes.
LEMMA ReportInvHolds == FindingsSpec => []ReportInv
<1>1. FindingsInit => ReportInv
  BY DEF FindingsInit, ReportInv
<1>2. FindingsTypeOK /\ ReportInv /\ [FindingsNext]_findingVars => ReportInv'
  <2> SUFFICES ASSUME FindingsTypeOK, ReportInv, [FindingsNext]_findingVars PROVE ReportInv'
    OBVIOUS
  <2> DEFINE made == Report(Cardinality(Completed))
  <2>1. ASSUME UNCHANGED <<results, page>> PROVE made' = made
    BY <2>1 DEF Report, Completed, Collated, Representative, Waf
  <2> HIDE DEF made
  <2>2. CASE Collates
    <3>1. UNCHANGED <<results, page>> /\ report' = made /\ \A m \in ScoutNames : results[m] # Pending
      BY <2>2 DEF Collates, made
    <3>2. report' = made'
      BY <2>1, <3>1
    <3> QED BY <3>1, <3>2 DEF ReportInv, made
  <2>3. ASSUME NEW m \in ScoutNames, ScoutReturns(m) \/ ScoutFails(m) PROVE ReportInv'
    <3>1. report' = report /\ results[m] = Pending
      BY <2>3 DEF ScoutReturns, ScoutFails
    <3>2. report = NoReport
      BY <3>1 DEF ReportInv
    <3> QED BY <3>1, <3>2 DEF ReportInv
  <2>4. CASE UNCHANGED findingVars
    <3>1. UNCHANGED <<results, page, report>>
      BY <2>4 DEF findingVars
    <3>2. made' = made
      BY <2>1, <3>1
    <3> QED BY <3>1, <3>2 DEF ReportInv, made
  <2> QED BY <2>2, <2>3, <2>4 DEF FindingsNext
<1> QED BY <1>1, <1>2, FindingsTyped, PTL DEF FindingsSpec

\* What a report says.
LEMMA ReportSays ==
  ASSUME FindingsTypeOK, ReportInv, report # NoReport
  PROVE  /\ Collated \in Seq(Finding)
         /\ report.findings = Deduplicated(Collated) /\ report.findings \in Seq(Finding)
         /\ report.testsRun = Cardinality(Completed) /\ report.representative = Representative
         /\ report.scoreInfo = ScoreInfo(report.findings, Cardinality(Completed), Len(Scouts), Representative)
<1>1. report = Report(Cardinality(Completed)) /\ Collated \in Seq(Finding)
  BY CollatedIsTyped DEF ReportInv
<1>2. /\ report.findings = Deduplicated(Collated)
      /\ report.testsRun = Cardinality(Completed) /\ report.representative = Representative
      /\ report.scoreInfo = ScoreInfo(Deduplicated(Collated), Cardinality(Completed), Len(Scouts), Representative)
  BY <1>1 DEF Report
<1> QED BY <1>1, <1>2, DeduplicatedKeeps

\* The score and the grade follow from the deductions.
LEMMA ScoreFollows ==
  ASSUME NEW findings, NEW testsRun, NEW discovered, NEW shown, Deductions(findings) \in Nat
  PROVE  LET info == ScoreInfo(findings, testsRun, discovered, shown)
             d == Deductions(findings)
         IN  /\ info.score = (IF d <= 100 THEN 100 - d ELSE 0)
             /\ info.grade = "A" <=> d <= 15
             /\ info.reliable = (shown /\ testsRun >= discovered)
<1> DEFINE d == Deductions(findings)
           score == Max({0, 100 - d})
           info == ScoreInfo(findings, testsRun, discovered, shown)
<1>1. info.score = score /\ info.grade = Grade(score) /\ info.reliable = (shown /\ testsRun >= discovered)
  BY DEF ScoreInfo
<1> HIDE DEF info, d
<1>2. score = (IF d <= 100 THEN 100 - d ELSE 0) /\ score \in Nat
  <2>1. d \in Nat /\ 100 - d \in Int
    BY DEF d
  <2>2. score = (IF 0 >= 100 - d THEN 0 ELSE 100 - d)
    BY <2>1, MaxOfTwo
  <2> QED BY <2>1, <2>2
<1>3. Grade(score) = "A" <=> score >= 85
  <2> HIDE DEF score
  <2> QED BY <1>2 DEF Grade
<1>4. Grade(score) = "A" <=> d <= 15
  <2>1. d \in Nat
    BY DEF d
  <2> HIDE DEF score
  <2> QED BY <1>2, <1>3, <2>1
<1> QED BY <1>1, <1>2, <1>4 DEF info, d

\* Two disjoint sets of places cost together what they cost apart.
LEMMA PenaltiesOfUnion ==
  ASSUME NEW s, NEW A, NEW B, IsFiniteSet(A), IsFiniteSet(B), A \cap B = {}
  PROVE  /\ Penalties(s, A) \in Nat /\ Penalties(s, B) \in Nat
         /\ Penalties(s, A \cup B) = Penalties(s, A) + Penalties(s, B)
<1> DEFINE At(places, severity) == {i \in places : s[i].severity = severity}
           Of(places, severity) == Cardinality(At(places, severity))
<1>1. ASSUME NEW severity
      PROVE  /\ Of(A, severity) \in Nat /\ Of(B, severity) \in Nat
             /\ Of(A \cup B, severity) = Of(A, severity) + Of(B, severity)
  <2>1. /\ At(A, severity) \subseteq A /\ At(B, severity) \subseteq B
        /\ At(A \cup B, severity) = At(A, severity) \cup At(B, severity)
        /\ At(A, severity) \cap At(B, severity) = {}
    OBVIOUS
  <2> HIDE DEF At
  <2>2. IsFiniteSet(At(A, severity)) /\ IsFiniteSet(At(B, severity))
    BY <2>1, FS_Subset
  <2>3. Of(A, severity) \in Nat /\ Of(B, severity) \in Nat
    BY <2>2, FS_CardinalityType
  <2>4. Cardinality(At(A, severity) \cup At(B, severity))
          = Of(A, severity) + Of(B, severity) - Cardinality(At(A, severity) \cap At(B, severity))
    BY <2>2, FS_Union
  <2>5. Of(A \cup B, severity) = Of(A, severity) + Of(B, severity) - 0
    BY <2>1, <2>4, FS_EmptySet
  <2> QED BY <2>3, <2>5
<1>2. ASSUME NEW P, IsFiniteSet(P)
      PROVE  Penalties(s, P) = 30 * Of(P, "critical") + 15 * Of(P, "high") + 5 * Of(P, "medium") + 2 * Of(P, "low")
  BY <1>2, PenaltiesAdd
<1>3. IsFiniteSet(A \cup B)
  BY FS_Union
<1> HIDE DEF Of
<1>4. /\ Penalties(s, A) = 30 * Of(A, "critical") + 15 * Of(A, "high") + 5 * Of(A, "medium") + 2 * Of(A, "low")
      /\ Penalties(s, B) = 30 * Of(B, "critical") + 15 * Of(B, "high") + 5 * Of(B, "medium") + 2 * Of(B, "low")
  BY <1>2
<1>5. Penalties(s, A \cup B) =
        30 * (Of(A, "critical") + Of(B, "critical")) + 15 * (Of(A, "high") + Of(B, "high"))
          + 5 * (Of(A, "medium") + Of(B, "medium")) + 2 * (Of(A, "low") + Of(B, "low"))
  BY <1>1, <1>2, <1>3
<1>6. /\ Of(A, "critical") \in Nat /\ Of(A, "high") \in Nat /\ Of(A, "medium") \in Nat /\ Of(A, "low") \in Nat
      /\ Of(B, "critical") \in Nat /\ Of(B, "high") \in Nat /\ Of(B, "medium") \in Nat /\ Of(B, "low") \in Nat
  BY <1>1
<1>7. Penalties(s, A) \in Nat /\ Penalties(s, B) \in Nat
  BY <1>4, <1>6
<1>8. Penalties(s, A \cup B) = Penalties(s, A) + Penalties(s, B)
  BY <1>4, <1>5, <1>6
<1> QED BY <1>7, <1>8

\* What the tier fix moved, moves its penalties from one pool to the other.
LEMMA FixMovesPenalties ==
  ASSUME NEW s \in Seq(Finding)
  PROVE  LET b == Deduction(s, "baseline")
             h == Deduction(s, "hardening")
             moved == {i \in DOMAIN s : s[i].title \in AffectedTitles}
             old == BuggyFindings(s)
         IN  \E m \in 0..h : /\ m <= Penalties(s, moved)
                             /\ Deduction(old, "baseline") = b + m /\ Deduction(old, "hardening") = h - m
<1> DEFINE moved == {i \in DOMAIN s : s[i].title \in AffectedTitles}
           old == BuggyFindings(s)
           H == {i \in DOMAIN s : s[i].tier = "hardening"}
           B == DOMAIN s \ H
           M == H \cap moved
           m == Penalties(s, M)
<1>1. \A i \in DOMAIN s : \E raw \in RawFindings, name \in ScoutNames : s[i] = Normal(raw, name)
  <2>1. \A i \in DOMAIN s : s[i] \in Finding
    OBVIOUS
  <2> QED BY <2>1 DEF Finding
<1>2. ASSUME NEW i \in DOMAIN s
      PROVE  /\ old[i].severity = s[i].severity
             /\ i \in M => old[i].tier = ""
             /\ i \notin M => old[i].tier = s[i].tier
  <2>1. PICK raw \in RawFindings, name \in ScoutNames : s[i] = Normal(raw, name)
    BY <1>1
  <2>2. CASE i \in M
    <3>1. old[i] = [s[i] EXCEPT !.tier = ""]
      BY <2>2 DEF BuggyFindings
    <3> QED BY <2>1, <2>2, <3>1 DEF Normal
  <2>3. CASE i \notin M
    <3>1. old[i] = s[i]
      BY <2>3 DEF BuggyFindings
    <3> QED BY <2>3, <3>1
  <2> QED BY <2>2, <2>3
<1>3. DOMAIN old = DOMAIN s
  BY DEF BuggyFindings
<1> HIDE DEF old
<1>4. /\ {i \in DOMAIN s : (s[i].tier = "hardening") = ("hardening" = "hardening")} = H
      /\ {i \in DOMAIN s : (s[i].tier = "hardening") = ("baseline" = "hardening")} = B
      /\ {i \in DOMAIN old : (old[i].tier = "hardening") = ("hardening" = "hardening")} = H \ M
      /\ {i \in DOMAIN old : (old[i].tier = "hardening") = ("baseline" = "hardening")} = B \cup M
  BY <1>2, <1>3
<1>5. ASSUME NEW P \in SUBSET DOMAIN s PROVE Penalties(old, P) = Penalties(s, P)
  <2>1. ASSUME NEW severity PROVE {i \in P : old[i].severity = severity} = {i \in P : s[i].severity = severity}
    BY <1>2
  <2> QED BY <2>1 DEF Penalties
<1>6. /\ Deduction(s, "hardening") = Penalties(s, H) /\ Deduction(s, "baseline") = Penalties(s, B)
      /\ Deduction(old, "hardening") = Penalties(old, H \ M) /\ Deduction(old, "baseline") = Penalties(old, B \cup M)
  BY <1>4 DEF Deduction
<1>7. H \subseteq DOMAIN s /\ B \subseteq DOMAIN s /\ M \subseteq H /\ B \cap M = {} /\ moved \subseteq DOMAIN s
  OBVIOUS
<1> HIDE DEF H, B, M, moved
<1>8. /\ IsFiniteSet(H) /\ IsFiniteSet(B) /\ IsFiniteSet(M) /\ IsFiniteSet(H \ M)
      /\ IsFiniteSet(moved \ M)
  <2>1. /\ H \in SUBSET DOMAIN s /\ B \in SUBSET DOMAIN s /\ M \in SUBSET DOMAIN s
        /\ H \ M \in SUBSET DOMAIN s /\ moved \ M \in SUBSET DOMAIN s
    BY <1>7
  <2> QED BY <2>1, PlacesAreFinite
<1>9. Penalties(s, B \cup M) = Penalties(s, B) + m /\ m \in Nat /\ Penalties(s, B) \in Nat
  BY <1>7, <1>8, PenaltiesOfUnion
<1>10. Penalties(s, H) = Penalties(s, H \ M) + m /\ Penalties(s, H \ M) \in Nat
  <2>1. (H \ M) \cap M = {} /\ (H \ M) \cup M = H
    BY <1>7
  <2> QED BY <1>8, <2>1, PenaltiesOfUnion
<1>11. m <= Penalties(s, moved)
  <2>1. (moved \ M) \cap M = {} /\ (moved \ M) \cup M = moved
    BY <1>7 DEF M
  <2>2. Penalties(s, moved) = Penalties(s, moved \ M) + m /\ Penalties(s, moved \ M) \in Nat
    BY <1>8, <2>1, PenaltiesOfUnion
  <2> QED BY <1>9, <2>2
<1>12. Deduction(old, "baseline") = Deduction(s, "baseline") + m
  BY <1>5, <1>6, <1>7, <1>9
<1>13. Deduction(old, "hardening") = Deduction(s, "hardening") - m /\ m \in 0..Deduction(s, "hardening")
  <2>1. Penalties(old, H \ M) = Penalties(s, H \ M)
    BY <1>5, <1>7
  <2> HIDE DEF m
  <2> QED BY <1>6, <1>9, <1>10, <2>1
<1> QED BY <1>11, <1>12, <1>13 DEF moved, old

-----------------------------------------------------------------------------
(* The properties of a report *)

\* A report has, of each scout, title, class and place, the best finding.
LEMMA BestIsReported == FindingsTypeOK /\ ReportInv => OneBestPerKey
<1> SUFFICES ASSUME FindingsTypeOK, ReportInv, report # NoReport, NEW i \in DOMAIN Collated
             PROVE  LET f == Collated[i]
                        Twin(g) == /\ g.module = f.module /\ g.title = f.title /\ g.class = f.class
                                   /\ Place[g.location] = Place[f.location]
                        kept == {j \in DOMAIN report.findings : Twin(report.findings[j])}
                    IN  /\ Cardinality(kept) = 1
                        /\ LET best == report.findings[CHOOSE j \in kept : TRUE]
                           IN  /\ Contains(Collated, best)
                               /\ ConfRank[best.confidence] >= ConfRank[f.confidence]
                               /\ best.confidence = f.confidence => SevRank[best.severity] >= SevRank[f.severity]
  BY DEF OneBestPerKey
<1> DEFINE f == Collated[i]
           Twin(g) == /\ g.module = f.module /\ g.title = f.title /\ g.class = f.class
                      /\ Place[g.location] = Place[f.location]
           kept == {j \in DOMAIN report.findings : Twin(report.findings[j])}
<1>1. Collated \in Seq(Finding) /\ report.findings = Deduplicated(Collated) /\ report.findings \in Seq(Finding)
  BY ReportSays
<1>2. PICK k \in DOMAIN report.findings :
        /\ \A l \in DOMAIN report.findings : Key(report.findings[l]) = Key(f) <=> l = k
        /\ ~Better(f, report.findings[k])
        /\ \E j \in DOMAIN Collated : report.findings[k] = Collated[j]
  BY <1>1, DeduplicatedKeeps
<1>3. \A g : Twin(g) <=> Key(g) = Key(f)
  BY DEF Key
<1>4. kept = {k}
  <2> HIDE DEF Twin, f
  <2> QED BY <1>2, <1>3
<1>5. Cardinality(kept) = 1
  BY <1>4, FS_Singleton
<1> HIDE DEF kept
<1>6. (CHOOSE j \in kept : TRUE) = k
  BY <1>4
<1> DEFINE best == report.findings[k]
<1>7. Contains(Collated, best)
  BY <1>1, <1>2 DEF Contains
<1>8. f \in Finding /\ best \in Finding
  BY <1>1
<1>9. ~Better(f, best)
  BY <1>2
<1> HIDE DEF best, f
<1>10. /\ ConfRank[f.confidence] \in Nat /\ ConfRank[best.confidence] \in Nat
       /\ SevRank[f.severity] \in Nat /\ SevRank[best.severity] \in Nat
  BY <1>8, FindingHasRanks, RanksAreStrict
<1>11. /\ ConfRank[best.confidence] >= ConfRank[f.confidence]
       /\ best.confidence = f.confidence => SevRank[best.severity] >= SevRank[f.severity]
  BY <1>9, <1>10 DEF Better
<1> QED BY <1>5, <1>6, <1>7, <1>11 DEF best, f, kept

\* One more finding with a key of its own costs nothing or something.
LEMMA FreshNeverHelps == FindingsTypeOK /\ ReportInv => FreshFindingNeverHelps
<1> SUFFICES ASSUME FindingsTypeOK, ReportInv, report # NoReport, NEW i \in DOMAIN Collated,
                    \A j \in DOMAIN Collated \ {i} :
                      <<Collated[j].module, Collated[j].title, Collated[j].class, Place[Collated[j].location]>>
                        # <<Collated[i].module, Collated[i].title, Collated[i].class, Place[Collated[i].location]>>
             PROVE  Deductions(Deduplicated(RemoveAt(Collated, i))) <= Deductions(report.findings)
  BY DEF FreshFindingNeverHelps
<1> DEFINE s == Collated
           r == RemoveAt(s, i)
<1>1. s \in Seq(Finding) /\ report.findings = Deduplicated(s)
  BY ReportSays
<1>2. \A j \in DOMAIN s \ {i} : Key(s[j]) # Key(s[i])
  BY DEF Key
<1> HIDE DEF s
<1>3. r \in Seq(Finding)
  BY <1>1, Removed DEF s
<1> HIDE DEF r
<1>4. Deduplicated(s) \in Seq(Finding) /\ Deduplicated(r) \in Seq(Finding)
  BY <1>1, <1>3, DeduplicatedKeeps
<1>5. ASSUME NEW which \in Pools PROVE Deduction(Deduplicated(r), which) <= Deduction(Deduplicated(s), which)
  <2> DEFINE C(x, severity) == Count(Deduplicated(x), severity, which)
  <2>1. \A severity : C(r, severity) <= C(s, severity)
    BY <1>1, <1>2, FewerWithoutIt DEF r, s
  <2>2. \A severity : C(r, severity) \in Nat /\ C(s, severity) \in Nat
    BY <1>4, DeductionCounts
  <2>3. /\ Deduction(Deduplicated(r), which) = 30 * C(r, "critical") + 15 * C(r, "high") + 5 * C(r, "medium") + 2 * C(r, "low")
        /\ Deduction(Deduplicated(s), which) = 30 * C(s, "critical") + 15 * C(s, "high") + 5 * C(s, "medium") + 2 * C(s, "low")
    BY <1>4, DeductionCounts
  <2> HIDE DEF C
  <2>4. /\ C(r, "critical") <= C(s, "critical") /\ C(r, "high") <= C(s, "high")
        /\ C(r, "medium") <= C(s, "medium") /\ C(r, "low") <= C(s, "low")
        /\ C(r, "critical") \in Nat /\ C(s, "critical") \in Nat /\ C(r, "high") \in Nat /\ C(s, "high") \in Nat
        /\ C(r, "medium") \in Nat /\ C(s, "medium") \in Nat /\ C(r, "low") \in Nat /\ C(s, "low") \in Nat
    BY <2>1, <2>2
  <2> QED BY <2>3, <2>4
<1>6. /\ Deduction(Deduplicated(r), "baseline") <= Deduction(Deduplicated(s), "baseline")
      /\ Deduction(Deduplicated(r), "hardening") <= Deduction(Deduplicated(s), "hardening")
  BY <1>5 DEF Pools
<1>7. Deductions(Deduplicated(r)) <= Deductions(Deduplicated(s))
  BY <1>4, <1>6, DeductionsAreCapped
<1> QED BY <1>1, <1>7 DEF r, s

\* The hardening pool alone leaves the grade an A, and the tier fix costs no score.
LEMMA HardeningStaysMild == FindingsTypeOK /\ ReportInv => HardeningIsMild
<1> SUFFICES ASSUME FindingsTypeOK, ReportInv, report # NoReport
             PROVE  LET s == report.findings
                        moved == {i \in DOMAIN s : s[i].title \in AffectedTitles}
                    IN  /\ (\A i \in DOMAIN s : s[i].tier = "hardening") => report.scoreInfo.grade = "A"
                        /\ ScoreShift(report) \in 0..Penalties(s, moved)
  BY DEF HardeningIsMild
<1> DEFINE s == report.findings
           old == BuggyFindings(s)
           moved == {i \in DOMAIN s : s[i].title \in AffectedTitles}
           b == Deduction(s, "baseline")
           h == Deduction(s, "hardening")
<1>1. /\ s \in Seq(Finding) /\ report.testsRun = Cardinality(Completed) /\ report.representative = Representative
      /\ report.scoreInfo = ScoreInfo(s, Cardinality(Completed), Len(Scouts), Representative)
  BY ReportSays
<1> HIDE DEF s
<1>2. b \in Nat /\ h \in Nat /\ Deductions(s) \in Nat /\ Deductions(s) = b + (IF h <= 10 THEN h ELSE 10)
  BY <1>1, DeductionsAreCapped
<1>3. ASSUME \A i \in DOMAIN s : s[i].tier = "hardening" PROVE report.scoreInfo.grade = "A"
  <2>1. \A severity : Count(s, severity, "baseline") = 0
    <3> SUFFICES ASSUME NEW severity PROVE Count(s, severity, "baseline") = 0
      OBVIOUS
    <3>1. PlacesWith(s, DOMAIN s, Trait(severity, "baseline")) = {}
      BY <1>3 DEF PlacesWith, Trait
    <3> QED BY <3>1, FS_EmptySet DEF Count
  <2>2. b = 0
    <3>1. b = 30 * Count(s, "critical", "baseline") + 15 * Count(s, "high", "baseline")
                + 5 * Count(s, "medium", "baseline") + 2 * Count(s, "low", "baseline")
      BY <1>1, DeductionCounts DEF Pools
    <3> HIDE DEF b
    <3> QED BY <2>1, <3>1
  <2> HIDE DEF b, h
  <2>3. Deductions(s) <= 15
    BY <1>2, <2>2
  <2>4. report.scoreInfo.grade = "A" <=> Deductions(s) <= 15
    BY <1>1, <1>2, ScoreFollows
  <2> QED BY <2>3, <2>4
<1>4. ScoreShift(report) \in 0..Penalties(s, moved)
  <2>1. PICK m \in 0..h : /\ m <= Penalties(s, moved)
                          /\ Deduction(old, "baseline") = b + m /\ Deduction(old, "hardening") = h - m
    BY <1>1, FixMovesPenalties
  <2> HIDE DEF b, h, old, moved
  <2>2. h - m \in Nat /\ m \in Nat /\ b + m \in Nat
    BY <1>2, <2>1
  <2>3. Min({h - m, 10}) = (IF h - m <= 10 THEN h - m ELSE 10)
    BY <2>2, MinOfTwo
  <2>4. Deductions(old) = b + m + (IF h - m <= 10 THEN h - m ELSE 10)
    BY <2>1, <2>3 DEF Deductions
  <2>5. Deductions(old) \in Nat /\ Deductions(s) <= Deductions(old) /\ Deductions(old) <= Deductions(s) + m
    BY <1>2, <2>2, <2>4
  <2>6. ScoreShift(report) =
          ScoreInfo(s, report.testsRun, Len(Scouts), report.representative).score
            - ScoreInfo(old, report.testsRun, Len(Scouts), report.representative).score
    BY DEF ScoreShift, s, old
  <2>7. /\ ScoreInfo(s, report.testsRun, Len(Scouts), report.representative).score
             = (IF Deductions(s) <= 100 THEN 100 - Deductions(s) ELSE 0)
        /\ ScoreInfo(old, report.testsRun, Len(Scouts), report.representative).score
             = (IF Deductions(old) <= 100 THEN 100 - Deductions(old) ELSE 0)
    BY <1>2, <2>5, ScoreFollows
  <2>8. ScoreShift(report) \in 0..m
    BY <1>2, <2>2, <2>5, <2>6, <2>7
  <2>9. IsFiniteSet(moved) /\ Penalties(s, moved) \in Nat
    <3>1. moved \in SUBSET DOMAIN s
      BY DEF moved
    <3>2. IsFiniteSet(moved)
      BY <1>1, <3>1, PlacesAreFinite
    <3>3. IsFiniteSet({}) /\ moved \cap {} = {}
      BY FS_EmptySet
    <3> QED BY <3>2, <3>3, PenaltiesOfUnion
  <2> QED BY <2>1, <2>2, <2>8, <2>9
<1> QED BY <1>3, <1>4 DEF s, moved

\* A page that names no vendor has none of the marks of one.
LEMMA NoVendorNoMarks ==
  ASSUME NEW seen
  PROVE  VendorOf(ChallengeVendors, seen) = "" =>
           \A v \in Range(ChallengeVendors) : \A marks \in v.marks : ~ marks \subseteq seen
<1> DEFINE a == [name |-> "Cloudflare", marks |-> {{"cf-chl"}, {"cf-mitigated"}, {"just a moment..."}}]
           b == [name |-> "Akamai", marks |-> {{"akamai", "access denied"}}]
           c == [name |-> "Imperva/Incapsula", marks |-> {{"incapsula incident id"}}]
           V == ChallengeVendors
           named == {i \in DOMAIN V : \E marks \in V[i].marks : marks \subseteq seen}
           noName == ""
<1>1. V = <<a, b, c>>
  BY DEF ChallengeVendors
<1>2. a.name # noName /\ b.name # noName /\ c.name # noName
  OBVIOUS
<1> HIDE DEF a, b, c, V, noName
<1>3. V \in Seq({a, b, c})
  BY <1>1
<1>4. Len(V) \in Nat /\ DOMAIN V = 1..Len(V) /\ \A i \in DOMAIN V : V[i].name # noName
  BY <1>2, <1>3
<1>5. ASSUME named # {} PROVE VendorOf(V, seen) # noName
  <2>1. named \in SUBSET DOMAIN V
    OBVIOUS
  <2>2. VendorOf(V, seen) = V[Min(named)].name
    BY <1>5 DEF VendorOf
  <2> HIDE DEF named
  <2>3. IsFiniteSet(named)
    BY <1>3, <2>1, PlacesAreFinite
  <2>4. named \in SUBSET Nat
    BY <1>4, <2>1
  <2>5. Min(named) \in DOMAIN V
    BY <1>5, <2>1, <2>3, <2>4, MinIsLeast
  <2> QED BY <1>4, <2>2, <2>5
<1>6. VendorOf(V, seen) = noName => \A i \in DOMAIN V : \A marks \in V[i].marks : ~ marks \subseteq seen
  BY <1>5
<1>7. VendorOf(V, seen) = noName => \A v \in Range(V) : \A marks \in v.marks : ~ marks \subseteq seen
  BY <1>6 DEF Range
<1> QED BY <1>7 DEF V, noName

\* A critical finding in the baseline pool costs the A.
LEMMA CriticalCostsTheA ==
  ASSUME NEW s \in Seq(Finding), NEW i \in DOMAIN s, s[i].severity = "critical", s[i].tier # "hardening"
  PROVE  Deductions(s) >= 30
<1> DEFINE P == PlacesWith(s, DOMAIN s, Trait("critical", "baseline"))
<1>1. i \in P
  <2>1. s[i] \in Finding
    OBVIOUS
  <2> QED BY <2>1 DEF PlacesWith, Trait
<1>2. IsFiniteSet(P) /\ Cardinality(P) \in Nat
  <2>1. P \in SUBSET DOMAIN s
    BY DEF PlacesWith
  <2> QED BY <2>1, PlacesAreFinite
<1> HIDE DEF P
<1>3. Count(s, "critical", "baseline") >= 1
  <2>1. Cardinality(P) # 0
    BY <1>1, <1>2, FS_EmptySet
  <2> QED BY <1>2, <2>1 DEF Count, P
<1>4. /\ Deduction(s, "baseline") = 30 * Count(s, "critical", "baseline") + 15 * Count(s, "high", "baseline")
                                      + 5 * Count(s, "medium", "baseline") + 2 * Count(s, "low", "baseline")
      /\ Count(s, "critical", "baseline") \in Nat /\ Count(s, "high", "baseline") \in Nat
      /\ Count(s, "medium", "baseline") \in Nat /\ Count(s, "low", "baseline") \in Nat
  BY DeductionCounts DEF Pools
<1>5. Deduction(s, "baseline") >= 30
  BY <1>3, <1>4
<1> QED BY <1>5, DeductionsAreCapped

\* A reliable A is that of a page which was examined in full.
LEMMA ReliableIsEarned == FindingsTypeOK /\ ReportInv => ReliableAIsEarned
<1> SUFFICES ASSUME FindingsTypeOK, ReportInv, report # NoReport,
                    report.scoreInfo.reliable, report.scoreInfo.grade = "A"
             PROVE  /\ page # NoPage /\ page.status < 400
                    /\ \A v \in Range(ChallengeVendors) : \A marks \in v.marks : ~ marks \subseteq page.body
                    /\ \A m \in ScoutNames : results[m] # Incomplete
                    /\ \A i \in DOMAIN report.findings :
                         report.findings[i].severity = "critical" => report.findings[i].tier = "hardening"
  BY DEF ReliableAIsEarned
<1> DEFINE s == report.findings
<1>1. /\ s \in Seq(Finding)
      /\ report.scoreInfo = ScoreInfo(s, Cardinality(Completed), Len(Scouts), Representative)
  BY ReportSays
<1> HIDE DEF s
<1>2. Deductions(s) \in Nat
  BY <1>1, DeductionsAreCapped
<1>3. Deductions(s) <= 15 /\ Representative /\ Cardinality(Completed) >= Len(Scouts)
  <2> DEFINE info == ScoreInfo(s, Cardinality(Completed), Len(Scouts), Representative)
  <2>1. /\ info.grade = "A" <=> Deductions(s) <= 15
        /\ info.reliable = (Representative /\ Cardinality(Completed) >= Len(Scouts))
    BY <1>2, ScoreFollows
  <2> HIDE DEF info
  <2>2. report.scoreInfo = info
    BY <1>1 DEF info
  <2> QED BY <2>1, <2>2
<1>4. /\ page # NoPage /\ page.status < 400
      /\ \A v \in Range(ChallengeVendors) : \A marks \in v.marks : ~ marks \subseteq page.body
  BY <1>3, NoVendorNoMarks DEF Representative
<1>5. \A m \in ScoutNames : results[m] # Incomplete
  <2>1. Len(Scouts) \in Nat /\ DOMAIN Scouts = 1..Len(Scouts)
    BY FindingsAssumption
  <2>2. IsFiniteSet(1..Len(Scouts)) /\ Cardinality(1..Len(Scouts)) = Len(Scouts)
    BY <2>1, UpToIsFinite
  <2>3. Completed \subseteq 1..Len(Scouts)
    BY <2>1 DEF Completed
  <2>4. IsFiniteSet(Completed) /\ Cardinality(Completed) <= Len(Scouts)
    BY <2>2, <2>3, FS_Subset
  <2>5. Cardinality(Completed) = Len(Scouts)
    BY <1>3, <2>1, <2>4, FS_CardinalityType
  <2>6. Completed = 1..Len(Scouts)
    BY <2>2, <2>3, <2>5, FS_Subset
  <2> SUFFICES ASSUME NEW m \in ScoutNames PROVE results[m] # Incomplete
    OBVIOUS
  <2>7. PICK j \in DOMAIN Scouts : Scouts[j] = m
    BY DEF ScoutNames, Range
  <2> QED BY <2>1, <2>6, <2>7 DEF Completed
<1>6. ASSUME NEW i \in DOMAIN s, s[i].severity = "critical" PROVE s[i].tier = "hardening"
  BY <1>1, <1>2, <1>3, <1>6, CriticalCostsTheA
<1> QED BY <1>4, <1>5, <1>6 DEF s

\* The report has of each scout, title, class and place exactly one finding, the first of the
\* best, as a scout returned it; and a finding alone in its place never raises the
\* score.  For any scouts, findings and any rules that fold titles and places.
THEOREM ReportsAreSound == FindingsSpec => []DeduplicationIsSound
<1>1. FindingsTypeOK /\ ReportInv => DeduplicationIsSound
  BY BestIsReported, FreshNeverHelps DEF DeduplicationIsSound
<1> QED BY <1>1, FindingsTyped, ReportInvHolds, PTL

\* A report of hardening findings only is graded A, the tier fix never lowers a score
\* or raises it by more than it moved, and a reliable A means that every scout
\* examined a page that was served and that no critical finding counted in full.
THEOREM GradesFollow == FindingsSpec => []GradesAreEarned
<1>1. FindingsTypeOK /\ ReportInv => GradesAreEarned
  BY HardeningStaysMild, ReliableIsEarned DEF GradesAreEarned
<1> QED BY <1>1, FindingsTyped, ReportInvHolds, PTL

-----------------------------------------------------------------------------
(* The HTML page *)

TitlePairs(findings) == {p \in Range(findings) \X Range(findings) : WorseOfTitle(p[1], p[2])}
Titles(findings) == [f \in Range(findings) |-> TitleKey(f)]

\* Of each title the page keeps one of its findings, and none of that title is more severe.
LEMMA TitleIsKept ==
  ASSUME NEW s \in Seq(Finding)
  PROVE  /\ OnePerTitle(s) \in Seq(Finding)
         /\ \A i \in DOMAIN s : \E k \in DOMAIN OnePerTitle(s) :
              LET kept == OnePerTitle(s) IN
              /\ \A l \in DOMAIN kept : TitleKey(kept[l]) = TitleKey(s[i]) <=> l = k
              /\ SevRank[kept[k].severity] >= SevRank[s[i].severity]
              /\ \E j \in DOMAIN s : kept[k] = s[j]
<1> DEFINE D == Range(s)
           u == [f \in D |-> SevRank[f.severity]]
           v == [f \in D |-> TextRank[f.confidence]]
           kept == OnePerTitle(s)
<1>1. s \in Seq(D) /\ D \subseteq Finding /\ \A i \in DOMAIN s : s[i] \in D
  BY BetterIsWeak
<1>2. kept = BestPerKey(s, Titles(s), TitlePairs(s))
  BY DEF OnePerTitle, Titles, TitlePairs
<1> HIDE DEF D, kept
<1>3. \A f \in D : /\ TextRank[f.confidence] \in Int /\ SevRank[f.severity] \in Int
                   /\ f.severity \in Severities
  BY <1>1, FindingHasRanks, RanksAreStrict
<1>4. u \in [D -> Int] /\ v \in [D -> Int]
  BY <1>3
<1>5. \A f, g \in D : <<f, g>> \in TitlePairs(s) <=> WorseOfTitle(f, g)
  BY DEF TitlePairs, D
<1>6. ASSUME NEW f \in D, NEW g \in D
      PROVE  <<f, g>> \in TitlePairs(s) <=> (u[f] > u[g] \/ (u[f] = u[g] /\ v[f] > v[g]))
  <2>1. f.severity = g.severity <=> SevRank[f.severity] = SevRank[g.severity]
    BY <1>3, RanksAreStrict
  <2> QED BY <1>5, <2>1 DEF WorseOfTitle
<1>7. WeakOrder(TitlePairs(s), D)
  <2> HIDE DEF u, v
  <2> QED BY <1>4, <1>6, RankedIsWeak
<1>8. kept \in Seq(D)
  BY <1>1, <1>2, <1>7, WinnersAreKept
<1>9. kept \in Seq(Finding)
  <2>1. Len(kept) \in Nat /\ kept \in [1..Len(kept) -> D]
    BY <1>8
  <2>2. kept \in [1..Len(kept) -> Finding]
    BY <1>1, <2>1
  <2> QED BY <2>1, <2>2
<1>10. ASSUME NEW i \in DOMAIN s
       PROVE  \E k \in DOMAIN kept :
                /\ \A l \in DOMAIN kept : TitleKey(kept[l]) = TitleKey(s[i]) <=> l = k
                /\ SevRank[kept[k].severity] >= SevRank[s[i].severity]
                /\ \E j \in DOMAIN s : kept[k] = s[j]
  <2>1. PICK k \in DOMAIN kept :
          /\ \A l \in DOMAIN kept : Titles(s)[kept[l]] = Titles(s)[s[i]] <=> l = k
          /\ <<s[i], kept[k]>> \notin TitlePairs(s)
          /\ \E j \in DOMAIN s : kept[k] = s[j]
    BY <1>1, <1>2, <1>7, <1>10, BestIsKept
  <2>2. \A l \in DOMAIN kept : kept[l] \in D
    BY <1>8
  <2>3. \A f \in D : Titles(s)[f] = TitleKey(f)
    BY DEF Titles, D
  <2>4. \A l \in DOMAIN kept : TitleKey(kept[l]) = TitleKey(s[i]) <=> l = k
    BY <1>1, <2>1, <2>2, <2>3
  <2>5. ~WorseOfTitle(s[i], kept[k])
    BY <1>1, <1>5, <2>1, <2>2
  <2>6. SevRank[kept[k].severity] >= SevRank[s[i].severity]
    BY <1>1, <1>3, <2>2, <2>5 DEF WorseOfTitle
  <2> QED BY <2>1, <2>4, <2>6
<1> QED BY <1>9, <1>10 DEF kept

\* Some places of a sequence, in their order.
LEMMA PickedOnce ==
  ASSUME NEW D, NEW s \in Seq(D), NEW P \in SUBSET DOMAIN s
  PROVE  LET n == Cardinality(P) IN
         /\ n \in Nat /\ Picked(s, P) \in Seq(D) /\ Len(Picked(s, P)) = n /\ DOMAIN Picked(s, P) = 1..n
         /\ \E w : Numbers(w, n, P) /\ \A k \in 1..n : Picked(s, P)[k] = s[w[k]]
<1> DEFINE n == Cardinality(P)
           before == {p \in P \X P : p[1] < p[2]}
           w == Ascending(P)
           picked == Picked(s, P)
<1>1. P \subseteq Nat /\ \A i \in P : s[i] \in D
  OBVIOUS
<1>2. IsFiniteSet(P)
  BY PlacesAreFinite
<1>3. w = Arranged(P, before)
  BY DEF Ascending
<1>4. \A i, j \in P : <<i, j>> \in before <=> i < j
  OBVIOUS
<1> HIDE DEF before, w
<1>5. Orders(before, P)
  BY <1>1, <1>4 DEF Orders
<1>6. n \in Nat /\ Numbers(w, n, P)
  BY <1>2, <1>3, <1>5, ArrangedOnce
<1>7. picked = [k \in DOMAIN w |-> s[w[k]]]
  BY DEF Picked, w
<1> HIDE DEF picked, n
<1>8. DOMAIN picked = 1..n /\ \A k \in 1..n : picked[k] = s[w[k]] /\ picked[k] \in D
  BY <1>1, <1>6, <1>7 DEF Numbers
<1>9. picked \in [1..n -> D]
  BY <1>7, <1>8
<1>10. picked \in Seq(D) /\ Len(picked) = n
  BY <1>6, <1>9
<1> QED BY <1>6, <1>8, <1>10 DEF picked, n

\* The page has a row for every finding that is kept, and no other.
LEMMA RowsAreKept ==
  ASSUME NEW r, r.findings \in Seq(Finding)
  PROVE  LET unique == OnePerTitle(r.findings) IN
         /\ unique \in Seq(Finding)
         /\ \E n \in Nat : \E w : /\ Numbers(w, n, DOMAIN unique) /\ DOMAIN TableRows(r) = 1..n
                                 /\ \A k \in 1..n : TableRows(r)[k] = unique[w[k]]
<1> DEFINE unique == OnePerTitle(r.findings)
           A == {i \in DOMAIN unique : unique[i].severity # "info"}
           B == {i \in DOMAIN unique : unique[i].severity = "info"}
           p == Picked(unique, A)
           q == Picked(unique, B)
           a == Cardinality(A)
           b == Cardinality(B)
           rows == TableRows(r)
<1>1. unique \in Seq(Finding)
  BY TitleIsKept
<1>2. rows = p \o q
  BY DEF TableRows, Actionable, HiddenInfo
<1> HIDE DEF unique
<1>3. A \cup B = DOMAIN unique /\ A \cap B = {} /\ A \in SUBSET DOMAIN unique /\ B \in SUBSET DOMAIN unique
  OBVIOUS
<1> HIDE DEF A, B, p, q, rows
<1>4. a \in Nat /\ p \in Seq(Finding) /\ Len(p) = a /\ DOMAIN p = 1..a
  BY <1>1, <1>3, PickedOnce DEF p
<1>5. b \in Nat /\ q \in Seq(Finding) /\ Len(q) = b /\ DOMAIN q = 1..b
  BY <1>1, <1>3, PickedOnce DEF q
<1>6. PICK x : Numbers(x, a, A) /\ \A k \in 1..a : p[k] = unique[x[k]]
  BY <1>1, <1>3, PickedOnce DEF p
<1>7. PICK y : Numbers(y, b, B) /\ \A k \in 1..b : q[k] = unique[y[k]]
  BY <1>1, <1>3, PickedOnce DEF q
<1> HIDE DEF a, b
<1> DEFINE n == a + b
           w == [k \in 1..n |-> IF k <= a THEN x[k] ELSE y[k - a]]
<1>8. n \in Nat /\ DOMAIN rows = 1..n
  BY <1>2, <1>4, <1>5
<1>9. ASSUME NEW k \in 1..n
      PROVE  /\ k <= a => k \in 1..a /\ w[k] = x[k] /\ w[k] \in A
             /\ ~(k <= a) => k - a \in 1..b /\ w[k] = y[k - a] /\ w[k] \in B
             /\ rows[k] = unique[w[k]]
  <2>1. CASE k <= a
    <3>1. k \in 1..a /\ w[k] = x[k]
      BY <1>4, <1>5, <2>1
    <3>2. x[k] \in A
      BY <1>6, <3>1 DEF Numbers
    <3>3. rows[k] = p[k]
      BY <1>2, <1>4, <1>5, <3>1
    <3> HIDE DEF w
    <3> QED BY <1>6, <2>1, <3>1, <3>2, <3>3
  <2>2. CASE ~(k <= a)
    <3>1. k - a \in 1..b /\ w[k] = y[k - a]
      BY <1>4, <1>5, <2>2
    <3>2. y[k - a] \in B
      BY <1>7, <3>1 DEF Numbers
    <3>3. rows[k] = q[k - a]
      BY <1>2, <1>4, <1>5, <2>2
    <3> HIDE DEF w
    <3> QED BY <1>7, <2>2, <3>1, <3>2, <3>3
  <2> QED BY <2>1, <2>2
<1>10. w \in [1..n -> DOMAIN unique]
  BY <1>3, <1>9
<1>11. ASSUME NEW i \in DOMAIN unique PROVE \E k \in 1..n : w[k] = i
  <2>1. CASE i \in A
    <3>1. PICK k \in 1..a : x[k] = i
      BY <1>6, <2>1 DEF Numbers
    <3>2. k \in 1..n /\ w[k] = i
      BY <1>4, <1>5, <3>1
    <3> QED BY <3>2
  <2>2. CASE i \in B
    <3>1. PICK k \in 1..b : y[k] = i
      BY <1>7, <2>2 DEF Numbers
    <3>2. k + a \in 1..n /\ ~(k + a <= a) /\ (k + a) - a = k
      BY <1>4, <1>5, <3>1
    <3>3. w[k + a] = i
      BY <3>1, <3>2
    <3> QED BY <3>2, <3>3
  <2> QED BY <1>3, <2>1, <2>2
<1>12. ASSUME NEW k \in 1..n, NEW l \in 1..n, k < l PROVE w[k] # w[l]
  <2> HIDE DEF w
  <2>1. CASE l <= a
    <3>1. k <= a
      BY <1>4, <1>5, <1>12, <2>1
    <3> QED BY <1>6, <1>9, <1>12, <2>1, <3>1 DEF Numbers
  <2>2. CASE k <= a /\ ~(l <= a)
    BY <1>3, <1>9, <2>2
  <2>3. CASE ~(k <= a)
    <3>1. ~(l <= a) /\ k - a < l - a
      BY <1>4, <1>5, <1>12, <2>3
    <3>2. /\ k - a \in 1..b /\ w[k] = y[k - a] /\ l - a \in 1..b /\ w[l] = y[l - a]
      BY <1>9, <2>3, <3>1
    <3> QED BY <1>7, <3>1, <3>2 DEF Numbers
  <2> QED BY <2>1, <2>2, <2>3
<1> HIDE DEF w, n
<1>13. Numbers(w, n, DOMAIN unique)
  BY <1>10, <1>11, <1>12 DEF Numbers
<1> QED BY <1>1, <1>8, <1>9, <1>13 DEF unique, rows

\* Every title has one row, and it is no milder than a finding of that title.
LEMMA TitlesAreKept ==
  ASSUME NEW r, r.findings \in Seq(Finding)
  PROVE  TitlesKeepTheirWorst(r)
<1> DEFINE s == r.findings
           unique == OnePerTitle(s)
           table == TableRows(r)
<1> DEFINE Shows(w, n) == /\ Numbers(w, n, DOMAIN unique) /\ DOMAIN table = 1..n
                          /\ \A k \in 1..n : table[k] = unique[w[k]]
<1>0. PICK n \in Nat : \E w : Shows(w, n)
  BY RowsAreKept
<1>1. PICK w : Shows(w, n)
  BY <1>0
<1> SUFFICES ASSUME NEW i \in DOMAIN s
             PROVE  LET rows == {j \in DOMAIN table : TitleKey(table[j]) = TitleKey(s[i])}
                    IN  /\ Cardinality(rows) = 1
                        /\ \A j \in rows : SevRank[table[j].severity] >= SevRank[s[i].severity]
  BY DEF TitlesKeepTheirWorst
<1> DEFINE rows == {j \in DOMAIN table : TitleKey(table[j]) = TitleKey(s[i])}
<1>2. PICK k \in DOMAIN unique :
        /\ \A l \in DOMAIN unique : TitleKey(unique[l]) = TitleKey(s[i]) <=> l = k
        /\ SevRank[unique[k].severity] >= SevRank[s[i].severity]
  BY TitleIsKept
<1> HIDE DEF table, unique, s
<1>3. PICK j \in 1..n : w[j] = k
  BY <1>1, <1>2 DEF Numbers
<1>4. ASSUME NEW l \in 1..n PROVE TitleKey(table[l]) = TitleKey(s[i]) <=> l = j
  <2>1. w[l] \in DOMAIN unique /\ table[l] = unique[w[l]]
    BY <1>1 DEF Numbers
  <2>2. w[l] = k <=> l = j
    <3>1. l # j => l < j \/ j < l
      BY <1>1
    <3> QED BY <1>1, <1>3, <3>1 DEF Numbers
  <2> QED BY <1>2, <2>1, <2>2
<1>5. rows = {j}
  BY <1>1, <1>3, <1>4
<1>6. table[j] = unique[k]
  BY <1>1, <1>3
<1>7. Cardinality(rows) = 1
  BY <1>5, FS_Singleton
<1> HIDE DEF rows
<1> QED BY <1>2, <1>5, <1>6, <1>7 DEF rows, table, s

\* The rows that ask for something: findings of a severity that is not "info".
LEMMA ActionableRows ==
  ASSUME NEW r, r.findings \in Seq(Finding)
  PROVE  LET rows == Actionable(r) IN
         /\ rows \in Seq(Finding) /\ Len(rows) \in Nat /\ DOMAIN rows = 1..Len(rows)
         /\ \A i \in DOMAIN rows : rows[i] \in Finding /\ rows[i].severity \in Rendered
<1> DEFINE unique == OnePerTitle(r.findings)
           A == {i \in DOMAIN unique : unique[i].severity # "info"}
           rows == Actionable(r)
<1>1. unique \in Seq(Finding)
  BY TitleIsKept
<1>2. rows = Picked(unique, A)
  BY DEF Actionable
<1> HIDE DEF unique, rows
<1>3. A \in SUBSET DOMAIN unique
  OBVIOUS
<1>4. \A i \in A : unique[i].severity \in Rendered
  <2> SUFFICES ASSUME NEW i \in A PROVE unique[i].severity \in Rendered
    OBVIOUS
  <2>1. unique[i] \in Finding /\ unique[i].severity # "info"
    BY <1>1
  <2>2. unique[i].severity \in Severities
    BY <2>1, FindingHasRanks
  <2> QED BY <2>1, <2>2 DEF Severities, Rendered
<1> HIDE DEF A
<1> DEFINE n == Cardinality(A)
<1>5. n \in Nat /\ rows \in Seq(Finding) /\ Len(rows) = n /\ DOMAIN rows = 1..n
  BY <1>1, <1>2, <1>3, PickedOnce
<1>6. PICK w : Numbers(w, n, A) /\ \A k \in 1..n : rows[k] = unique[w[k]]
  BY <1>1, <1>2, <1>3, PickedOnce
<1>7. \A i \in DOMAIN rows : rows[i] \in Finding /\ rows[i].severity \in Rendered
  BY <1>4, <1>5, <1>6 DEF Numbers
<1> QED BY <1>5, <1>7 DEF rows

\* Four kinds that are all there are, and of which no two are one, are counted apart.
LEMMA FourKinds ==
  ASSUME NEW s \in Seq(Finding), \A i \in DOMAIN s : s[i].severity \in Rendered
  PROVE  LET At(severity) == {i \in DOMAIN s : s[i].severity = severity}
         IN  Len(s) = Cardinality(At("critical")) + Cardinality(At("high"))
                        + Cardinality(At("medium")) + Cardinality(At("low"))
<1> DEFINE At(severity) == {i \in DOMAIN s : s[i].severity = severity}
           C == At("critical")
           H == At("high")
           M == At("medium")
           L == At("low")
<1>1. C \in SUBSET DOMAIN s /\ H \in SUBSET DOMAIN s /\ M \in SUBSET DOMAIN s /\ L \in SUBSET DOMAIN s
  OBVIOUS
<1>2. /\ C \cap H = {} /\ M \cap L = {} /\ (C \cup H) \cap (M \cup L) = {}
      /\ (C \cup H) \cup (M \cup L) = DOMAIN s
  BY DEF Rendered
<1> HIDE DEF C, H, M, L
<1>3. /\ IsFiniteSet(C) /\ IsFiniteSet(H) /\ IsFiniteSet(M) /\ IsFiniteSet(L)
      /\ Cardinality(C) \in Nat /\ Cardinality(H) \in Nat /\ Cardinality(M) \in Nat /\ Cardinality(L) \in Nat
  BY <1>1, PlacesAreFinite
<1>4. IsFiniteSet(C \cup H) /\ Cardinality(C \cup H) = Cardinality(C) + Cardinality(H)
  <2>1. Cardinality(C \cup H) = Cardinality(C) + Cardinality(H) - Cardinality(C \cap H) /\ IsFiniteSet(C \cup H)
    BY <1>3, FS_Union
  <2>2. Cardinality(C \cap H) = 0
    BY <1>2, FS_EmptySet
  <2> QED BY <1>3, <2>1, <2>2
<1>5. IsFiniteSet(M \cup L) /\ Cardinality(M \cup L) = Cardinality(M) + Cardinality(L)
  <2>1. Cardinality(M \cup L) = Cardinality(M) + Cardinality(L) - Cardinality(M \cap L) /\ IsFiniteSet(M \cup L)
    BY <1>3, FS_Union
  <2>2. Cardinality(M \cap L) = 0
    BY <1>2, FS_EmptySet
  <2> QED BY <1>3, <2>1, <2>2
<1>6. Cardinality(DOMAIN s) = Cardinality(C \cup H) + Cardinality(M \cup L)
  <2>1. Cardinality((C \cup H) \cup (M \cup L))
          = Cardinality(C \cup H) + Cardinality(M \cup L) - Cardinality((C \cup H) \cap (M \cup L))
    BY <1>4, <1>5, FS_Union
  <2>2. Cardinality((C \cup H) \cap (M \cup L)) = 0
    BY <1>2, FS_EmptySet
  <2>3. Cardinality(C \cup H) \in Nat /\ Cardinality(M \cup L) \in Nat
    BY <1>3, <1>4, <1>5
  <2> QED BY <1>2, <2>1, <2>2, <2>3
<1>7. Cardinality(DOMAIN s) = Len(s)
  <2>1. Len(s) \in Nat /\ DOMAIN s = 1..Len(s)
    OBVIOUS
  <2> QED BY <2>1, UpToIsFinite
<1>8. Len(s) = Cardinality(C) + Cardinality(H) + Cardinality(M) + Cardinality(L)
  BY <1>3, <1>4, <1>5, <1>6, <1>7
<1> QED BY <1>8 DEF C, H, M, L

\* A row that is not a top risk is no more severe than one that is.
LEMMA RisksAreWorst ==
  ASSUME NEW r, r.findings \in Seq(Finding),
         NEW f \in Range(Actionable(r)) \ Range(TopRisks(r)), NEW g \in Range(TopRisks(r))
  PROVE  SevRank[g.severity] >= SevRank[f.severity]
<1> DEFINE rows == Actionable(r)
           Rank(i) == SevRank[rows[i].severity]
           before == {p \in (DOMAIN rows) \X (DOMAIN rows) :
                        IF Rank(p[1]) = Rank(p[2]) THEN p[1] < p[2] ELSE Rank(p[1]) > Rank(p[2])}
           worst == Arranged(DOMAIN rows, before)
           n == Cardinality(DOMAIN rows)
           top == TopRisks(r)
<1>1. /\ rows \in Seq(Finding) /\ Len(rows) \in Nat /\ DOMAIN rows = 1..Len(rows)
      /\ \A i \in DOMAIN rows : rows[i] \in Finding
  BY ActionableRows
<1>2. top = [k \in 1..Min({3, Len(worst)}) |-> rows[worst[k]]]
  BY DEF TopRisks
<1> HIDE DEF rows, top
<1>3. \A i \in DOMAIN rows : i \in Nat /\ Rank(i) \in Int
  BY <1>1, FindingHasRanks, RanksAreStrict
<1>4. \A i, j \in DOMAIN rows :
        <<i, j>> \in before <=> IF Rank(i) = Rank(j) THEN i < j ELSE Rank(i) > Rank(j)
  <2> HIDE DEF Rank
  <2> QED OBVIOUS
<1> HIDE DEF before, Rank
<1>5. Orders(before, DOMAIN rows)
  <2>1. ASSUME NEW i \in DOMAIN rows PROVE <<i, i>> \notin before
    BY <1>3, <1>4
  <2>2. ASSUME NEW i \in DOMAIN rows, NEW j \in DOMAIN rows, NEW k \in DOMAIN rows,
               <<i, j>> \in before, <<j, k>> \in before
        PROVE  <<i, k>> \in before
    <3>1. /\ IF Rank(i) = Rank(j) THEN i < j ELSE Rank(i) > Rank(j)
          /\ IF Rank(j) = Rank(k) THEN j < k ELSE Rank(j) > Rank(k)
      BY <1>4, <2>2
    <3>2. IF Rank(i) = Rank(k) THEN i < k ELSE Rank(i) > Rank(k)
      BY <1>3, <3>1
    <3> QED BY <1>4, <3>2
  <2>3. ASSUME NEW i \in DOMAIN rows, NEW j \in DOMAIN rows PROVE i = j \/ <<i, j>> \in before \/ <<j, i>> \in before
    <3>1. \/ i = j
          \/ IF Rank(i) = Rank(j) THEN i < j ELSE Rank(i) > Rank(j)
          \/ IF Rank(j) = Rank(i) THEN j < i ELSE Rank(j) > Rank(i)
      BY <1>3
    <3> QED BY <1>4, <3>1
  <2> QED BY <2>1, <2>2, <2>3 DEF Orders
<1>6. IsFiniteSet(DOMAIN rows)
  BY <1>1, UpToIsFinite
<1>7. /\ n \in Nat /\ Numbers(worst, n, DOMAIN rows)
      /\ \A k, l \in 1..n : k < l => <<worst[k], worst[l]>> \in before
  BY <1>6, <1>5, ArrangedOnce
<1> HIDE DEF worst, n
<1>8. /\ Len(worst) = n
      /\ \A k \in 1..n : worst[k] \in DOMAIN rows
      /\ \A i \in DOMAIN rows : \E k \in 1..n : worst[k] = i
  <2>1. worst \in [1..n -> DOMAIN rows]
    BY <1>7 DEF Numbers
  <2>2. worst \in Seq(DOMAIN rows) /\ Len(worst) = n
    BY <1>7, <2>1
  <2> QED BY <1>7, <2>1, <2>2 DEF Numbers
<1> DEFINE m == Min({3, n})
<1>9. m \in Int /\ m <= n
  <2>1. m = (IF 3 <= n THEN 3 ELSE n)
    BY <1>7, MinOfTwo
  <2> HIDE DEF m
  <2> QED BY <1>7, <2>1
<1>10. top = [k \in 1..m |-> rows[worst[k]]]
  BY <1>2, <1>8
<1> HIDE DEF m
<1>11. PICK k \in 1..m : g = rows[worst[k]]
  BY <1>10 DEF Range, top
<1>12. PICK i \in DOMAIN rows : f = rows[i]
  BY DEF Range, rows
<1>13. PICK l \in 1..n : worst[l] = i
  BY <1>8, <1>12
<1>14. ~(l \in 1..m)
  <2>1. l \in 1..m => top[l] = f /\ l \in DOMAIN top
    BY <1>10, <1>12, <1>13
  <2>2. f \notin Range(top)
    BY DEF top
  <2> QED BY <2>1, <2>2 DEF Range
<1>15. k < l /\ k \in 1..n
  BY <1>7, <1>9, <1>14
<1>16. <<worst[k], worst[l]>> \in before /\ worst[k] \in DOMAIN rows
  BY <1>7, <1>8, <1>15
<1>17. Rank(worst[k]) >= Rank(i)
  <2>1. IF Rank(worst[k]) = Rank(i) THEN worst[k] < i ELSE Rank(worst[k]) > Rank(i)
    BY <1>4, <1>13, <1>16
  <2>2. Rank(worst[k]) \in Int /\ Rank(i) \in Int
    BY <1>3, <1>16
  <2> QED BY <2>1, <2>2
<1> QED BY <1>11, <1>12, <1>17 DEF Rank

\* The counts are those of the rows, and the top risks are the worst.
LEMMA CountsAndRisks ==
  ASSUME NEW r, r.findings \in Seq(Finding)
  PROVE  CountsAndRisksAgree(r)
<1> DEFINE rows == Actionable(r)
           count == SummaryCounts(r)
           At(severity) == {i \in DOMAIN rows : rows[i].severity = severity}
<1>1. rows \in Seq(Finding) /\ \A i \in DOMAIN rows : rows[i].severity \in Rendered
  BY ActionableRows
<1>2. Len(rows) = Cardinality(At("critical")) + Cardinality(At("high"))
                    + Cardinality(At("medium")) + Cardinality(At("low"))
  <2> HIDE DEF rows
  <2> QED BY <1>1, FourKinds
<1>3. count = [severity \in Rendered |-> Cardinality(At(severity))]
  BY DEF SummaryCounts
<1> HIDE DEF At, count, rows
<1>4. /\ count["critical"] = Cardinality(At("critical")) /\ count["high"] = Cardinality(At("high"))
      /\ count["medium"] = Cardinality(At("medium")) /\ count["low"] = Cardinality(At("low"))
  BY <1>3 DEF Rendered
<1>5. Len(rows) = count["critical"] + count["high"] + count["medium"] + count["low"]
  BY <1>2, <1>4
<1> QED BY <1>5, RisksAreWorst DEF CountsAndRisksAgree, count, rows

\* A remediation stands in the tab of the worst row that asks for it, and in no other.
LEMMA AdviceStandsOnce ==
  ASSUME NEW r, r.findings \in Seq(Finding)
  PROVE  AdviceIsInOneTab(r)
<1> DEFINE R == Range(Actionable(r))
           tabs == Recommendations(r)
           Advice(priorities) ==
             {f.remediation : f \in {g \in R : g.remediation # "none" /\ Priority[g.severity] \in priorities}}
           Tab(f) == CASE f.severity = "critical" -> "immediate" [] f.severity = "high" -> "short" [] OTHER -> "long"
<1>1. \A g \in R : g.severity \in Rendered
  BY ActionableRows DEF Range
<1>2. tabs = [immediate |-> Advice({"P0"}), short |-> Advice({"P1"}) \ Advice({"P0"}),
              long |-> Advice({"P2", "P3"}) \ (Advice({"P0"}) \cup (Advice({"P1"}) \ Advice({"P0"})))]
  BY DEF Recommendations
<1>3. /\ Priority["critical"] = "P0" /\ Priority["high"] = "P1"
      /\ Priority["medium"] = "P2" /\ Priority["low"] = "P3"
  BY DEF Priority
<1>4. /\ SevRank["critical"] = 4 /\ SevRank["high"] = 3 /\ SevRank["medium"] = 2 /\ SevRank["low"] = 1
  BY DEF SevRank
<1> HIDE DEF R, tabs
<1>5. ASSUME NEW x
      PROVE  /\ x \in Advice({"P0"}) <=> \E g \in R : g.remediation = x /\ x # "none" /\ g.severity = "critical"
             /\ x \in Advice({"P1"}) <=> \E g \in R : g.remediation = x /\ x # "none" /\ g.severity = "high"
             /\ x \in Advice({"P2", "P3"}) <=>
                  \E g \in R : g.remediation = x /\ x # "none" /\ g.severity \in {"medium", "low"}
  <2>1. \A g \in R : /\ Priority[g.severity] \in {"P0"} <=> g.severity = "critical"
                     /\ Priority[g.severity] \in {"P1"} <=> g.severity = "high"
                     /\ Priority[g.severity] \in {"P2", "P3"} <=> g.severity \in {"medium", "low"}
    BY <1>1, <1>3 DEF Rendered
  <2>2. \A priorities : x \in Advice(priorities) <=>
          \E g \in R : g.remediation = x /\ x # "none" /\ Priority[g.severity] \in priorities
    OBVIOUS
  <2> HIDE DEF Advice
  <2> QED BY <2>1, <2>2
<1> SUFFICES ASSUME NEW f \in R, f.remediation # "none"
             PROVE  LET asking == {g \in R : g.remediation = f.remediation}
                        worst == CHOOSE g \in asking : \A h \in asking : SevRank[g.severity] >= SevRank[h.severity]
                    IN  {t \in DOMAIN tabs : f.remediation \in tabs[t]} = {Tab(worst)}
  BY DEF AdviceIsInOneTab, R, tabs
<1> DEFINE x == f.remediation
           asking == {g \in R : g.remediation = f.remediation}
           Worst(g) == \A h \in asking : SevRank[g.severity] >= SevRank[h.severity]
           worst == CHOOSE g \in asking : Worst(g)
           P0 == Advice({"P0"})
           P1 == Advice({"P1"})
           P2 == Advice({"P2", "P3"})
<1>6. \A g \in asking : g.severity \in Rendered
  BY <1>1
<1>7. f \in asking
  OBVIOUS
<1>8. /\ x \in P0 <=> \E g \in asking : g.severity = "critical"
      /\ x \in P1 <=> \E g \in asking : g.severity = "high"
      /\ x \in P2 <=> \E g \in asking : g.severity \in {"medium", "low"}
  <2> HIDE DEF Advice
  <2> QED BY <1>5
<1> HIDE DEF asking, x, P0, P1, P2
<1>9. \E g \in asking : Worst(g)
  <2>1. CASE \E g \in asking : g.severity = "critical"
    BY <1>4, <1>6, <2>1 DEF Rendered
  <2>2. CASE (\A g \in asking : g.severity # "critical") /\ \E g \in asking : g.severity = "high"
    BY <1>4, <1>6, <2>2 DEF Rendered
  <2>3. CASE (\A g \in asking : g.severity \notin {"critical", "high"}) /\ \E g \in asking : g.severity = "medium"
    BY <1>4, <1>6, <2>3 DEF Rendered
  <2>4. CASE \A g \in asking : g.severity \notin {"critical", "high", "medium"}
    BY <1>4, <1>6, <1>7, <2>4 DEF Rendered
  <2> QED BY <2>1, <2>2, <2>3, <2>4
<1>10. worst \in asking /\ Worst(worst)
  <2> HIDE DEF Worst
  <2> QED BY <1>9
<1>11. /\ DOMAIN tabs = {"immediate", "short", "long"} /\ tabs["immediate"] = P0
       /\ tabs["short"] = P1 \ P0 /\ tabs["long"] = P2 \ (P0 \cup (P1 \ P0))
  <2> HIDE DEF Advice
  <2>1. tabs = [immediate |-> P0, short |-> P1 \ P0, long |-> P2 \ (P0 \cup (P1 \ P0))]
    BY <1>2 DEF P0, P1, P2
  <2> QED BY <2>1
<1> HIDE DEF worst, tabs
<1>12. worst.severity \in Rendered
  BY <1>6, <1>10
<1>13. {t \in DOMAIN tabs : x \in tabs[t]} = {Tab(worst)}
  <2>1. CASE worst.severity = "critical"
    <3>1. x \in P0 /\ Tab(worst) = "immediate"
      BY <1>8, <1>10, <2>1
    <3> HIDE DEF Tab
    <3> QED BY <1>11, <3>1
  <2>2. CASE worst.severity = "high"
    <3>1. \A g \in asking : g.severity # "critical"
      BY <1>4, <1>10, <2>2
    <3>2. x \notin P0 /\ x \in P1 /\ Tab(worst) = "short"
      BY <1>8, <1>10, <2>2, <3>1
    <3> HIDE DEF Tab
    <3> QED BY <1>11, <3>2
  <2>3. CASE worst.severity \in {"medium", "low"}
    <3>1. \A g \in asking : g.severity # "critical" /\ g.severity # "high"
      BY <1>4, <1>10, <2>3
    <3>2. x \notin P0 /\ x \notin P1 /\ x \in P2 /\ Tab(worst) = "long"
      BY <1>8, <1>10, <2>3, <3>1
    <3> HIDE DEF Tab
    <3> QED BY <1>11, <3>2
  <2> QED BY <1>12, <2>1, <2>2, <2>3 DEF Rendered
<1> QED BY <1>13 DEF x, asking, worst

\* A row that is kept and is more than "info" is one that asks for something.
LEMMA KeptIsActionable ==
  ASSUME NEW r, r.findings \in Seq(Finding), NEW k \in DOMAIN OnePerTitle(r.findings),
         OnePerTitle(r.findings)[k].severity # "info"
  PROVE  OnePerTitle(r.findings)[k] \in Range(Actionable(r))
<1> DEFINE unique == OnePerTitle(r.findings)
           A == {i \in DOMAIN unique : unique[i].severity # "info"}
           rows == Actionable(r)
           n == Cardinality(A)
<1>1. unique \in Seq(Finding)
  BY TitleIsKept
<1>2. rows = Picked(unique, A)
  BY DEF Actionable
<1> HIDE DEF unique, rows
<1>3. A \in SUBSET DOMAIN unique
  OBVIOUS
<1>4. k \in A
  BY DEF unique
<1> HIDE DEF A
<1>5. DOMAIN rows = 1..n
  BY <1>1, <1>2, <1>3, PickedOnce
<1>6. PICK w : Numbers(w, n, A) /\ \A l \in 1..n : rows[l] = unique[w[l]]
  BY <1>1, <1>2, <1>3, PickedOnce
<1>7. PICK l \in 1..n : w[l] = k
  BY <1>4, <1>6 DEF Numbers
<1>8. l \in DOMAIN rows /\ rows[l] = unique[k]
  BY <1>5, <1>6, <1>7
<1>9. unique[k] \in Range(rows)
  BY <1>8 DEF Range
<1> QED BY <1>9 DEF unique, rows

\* What the worst findings of a title advise, all of them, the page does not keep back.
LEMMA WorstAdviceStands ==
  ASSUME NEW r, r.findings \in Seq(Finding)
  PROVE  WorstAdviceIsGiven(r)
<1> DEFINE s == r.findings
           unique == OnePerTitle(s)
           R == Range(Actionable(r))
           Worst(i) == \A j \in DOMAIN s :
             TitleKey(s[j]) = TitleKey(s[i]) => SevRank[s[i].severity] >= SevRank[s[j].severity]
           Peers(i) == {j \in DOMAIN s : Worst(j) /\ TitleKey(s[j]) = TitleKey(s[i])}
           tabs == Recommendations(r)
           InTime(f) == CASE f.severity = "critical" -> tabs.immediate
                          [] f.severity = "high" -> tabs.immediate \cup tabs.short
                          [] OTHER -> tabs.immediate \cup tabs.short \cup tabs.long
<1> SUFFICES ASSUME NEW i \in DOMAIN s, s[i].severity # "info", Worst(i),
                    \A j \in Peers(i) : s[j].remediation # "none"
             PROVE  \E j \in Peers(i) : s[j].remediation \in InTime(s[i])
  BY DEF WorstAdviceIsGiven
<1>1. PICK k \in DOMAIN unique :
        /\ \A l \in DOMAIN unique : TitleKey(unique[l]) = TitleKey(s[i]) <=> l = k
        /\ SevRank[unique[k].severity] >= SevRank[s[i].severity]
        /\ \E j \in DOMAIN s : unique[k] = s[j]
  BY TitleIsKept
<1>2. PICK j \in DOMAIN s : unique[k] = s[j]
  BY <1>1
<1>3. TitleKey(s[j]) = TitleKey(s[i]) /\ SevRank[s[j].severity] >= SevRank[s[i].severity]
  BY <1>1, <1>2
<1>4. \A l \in DOMAIN s : s[l] \in Finding /\ s[l].severity \in Severities /\ SevRank[s[l].severity] \in Int
  <2>1. \A l \in DOMAIN s : s[l] \in Finding
    OBVIOUS
  <2> QED BY <2>1, FindingHasRanks, RanksAreStrict
<1>5. SevRank[s[j].severity] = SevRank[s[i].severity] /\ s[j].severity = s[i].severity
  <2>1. SevRank[s[i].severity] >= SevRank[s[j].severity]
    BY <1>3
  <2>2. SevRank[s[j].severity] = SevRank[s[i].severity]
    BY <1>3, <1>4, <2>1
  <2> QED BY <1>4, <2>2, RanksAreStrict
<1>6. j \in Peers(i)
  <2>1. \A l \in DOMAIN s : TitleKey(s[l]) = TitleKey(s[j]) => SevRank[s[j].severity] >= SevRank[s[l].severity]
    BY <1>3, <1>5
  <2> QED BY <1>3, <2>1
<1>7. s[j].remediation # "none" /\ s[j].severity # "info"
  BY <1>5, <1>6
<1>8. s[j] \in R
  BY <1>2, <1>7, KeptIsActionable
<1> HIDE DEF Peers, Worst, R, unique
<1> DEFINE x == s[j].remediation
           Advice(priorities) ==
             {f.remediation : f \in {g \in R : g.remediation # "none" /\ Priority[g.severity] \in priorities}}
<1>9. tabs = [immediate |-> Advice({"P0"}), short |-> Advice({"P1"}) \ Advice({"P0"}),
              long |-> Advice({"P2", "P3"}) \ (Advice({"P0"}) \cup (Advice({"P1"}) \ Advice({"P0"})))]
  BY DEF Recommendations, R
<1>10. \A priorities : Priority[s[j].severity] \in priorities => x \in Advice(priorities)
  BY <1>7, <1>8
<1> HIDE DEF Advice, tabs
<1>11. /\ tabs.immediate = Advice({"P0"}) /\ tabs.short = Advice({"P1"}) \ Advice({"P0"})
       /\ tabs.long = Advice({"P2", "P3"}) \ (Advice({"P0"}) \cup (Advice({"P1"}) \ Advice({"P0"})))
  BY <1>9
<1>12. s[j].severity \in {"critical", "high", "medium", "low"}
  BY <1>4, <1>7 DEF Severities
<1>13. /\ Priority["critical"] = "P0" /\ Priority["high"] = "P1"
       /\ Priority["medium"] = "P2" /\ Priority["low"] = "P3"
  BY DEF Priority
<1>14. x \in InTime(s[i])
  <2>1. CASE s[i].severity = "critical"
    <3>1. x \in Advice({"P0"})
      BY <1>5, <1>10, <1>13, <2>1
    <3> QED BY <1>11, <2>1, <3>1
  <2>2. CASE s[i].severity = "high"
    <3>1. x \in Advice({"P1"})
      BY <1>5, <1>10, <1>13, <2>2
    <3> QED BY <1>11, <2>2, <3>1
  <2>3. CASE s[i].severity \in {"medium", "low"}
    <3>1. x \in Advice({"P2", "P3"})
      BY <1>5, <1>10, <1>13, <2>3
    <3> QED BY <1>11, <2>3, <3>1
  <2> QED BY <1>5, <1>12, <2>1, <2>2, <2>3
<1> QED BY <1>6, <1>14

\* The page of any report shows every title once and no milder than it was found,
\* counts its rows right, names the worst of them, gives each remediation of a row in
\* the most urgent tab that a row asks for, and of a title whose worst findings all
\* advise something the advice of one of them.
THEOREM PageKeepsTheWorst == FindingsSpec => []HtmlKeepsTheWorst
<1>1. FindingsTypeOK /\ ReportInv => HtmlKeepsTheWorst
  BY ReportSays, TitlesAreKept, CountsAndRisks, AdviceStandsOnce, WorstAdviceStands DEF HtmlKeepsTheWorst
<1> QED BY <1>1, FindingsTyped, ReportInvHolds, PTL
=============================================================================
