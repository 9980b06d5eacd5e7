-------------------------- MODULE Selections_proofs --------------------------
(***************************************************************************)
(* What a selection is of a sequence that grows at its end or is read from *)
(* its beginning, and what the numbers of a set are in their order.        *)
(***************************************************************************)
EXTENDS Selections, FiniteSetTheorems, WellFoundedInduction, TLAPS

LEMMA ElementsOf ==
  ASSUME NEW T, NEW s \in Seq(T)
  PROVE  Len(s) \in Nat /\ DOMAIN s = 1..Len(s) /\ \A i \in 1..Len(s) : s[i] \in T
OBVIOUS

\* The i-th of a finite set of numbers is there, for as many i as it has.
LEMMA NthIsThere ==
  ASSUME NEW n \in Nat, NEW K \in SUBSET (1..n)
  PROVE  /\ IsFiniteSet(K) /\ Cardinality(K) \in Nat
         /\ \A k \in K : Rank(K, k) \in 1..Cardinality(K)
         /\ \A i \in 1..Cardinality(K) :
              /\ Nth(K, i) \in K /\ Rank(K, Nth(K, i)) = i
              /\ \A k \in K : Rank(K, k) = i => k = Nth(K, i)
<1> DEFINE UpTo(k) == {j \in K : j <= k}
           rank == [k \in K |-> Cardinality(UpTo(k))]
<1>1. IsFiniteSet(K) /\ Cardinality(K) \in Nat
  <2>1. IsFiniteSet(1..n)
    BY FS_Interval
  <2> QED BY <2>1, FS_Subset, FS_CardinalityType
<1>0. \A k \in K : k \in Nat
  OBVIOUS
<1>2. ASSUME NEW k \in K
      PROVE  IsFiniteSet(UpTo(k)) /\ Cardinality(UpTo(k)) \in 1..Cardinality(K)
  <2>1. UpTo(k) \subseteq K /\ k \in UpTo(k)
    OBVIOUS
  <2>2. IsFiniteSet(UpTo(k)) /\ Cardinality(UpTo(k)) <= Cardinality(K)
    BY <1>1, <2>1, FS_Subset
  <2>3. Cardinality(UpTo(k)) \in Nat /\ Cardinality(UpTo(k)) # 0
    BY <2>1, <2>2, FS_CardinalityType, FS_EmptySet
  <2> QED BY <1>1, <2>2, <2>3
<1>3. ASSUME NEW k \in K, NEW l \in K, k < l
      PROVE  Cardinality(UpTo(k)) < Cardinality(UpTo(l))
  <2>1. UpTo(k) \subseteq UpTo(l) /\ l \in UpTo(l) /\ l \notin UpTo(k)
    <3>0. l <= l
      BY <1>0
    <3>1. \A j \in K : j <= k => j <= l
      BY <1>0, <1>3
    <3>2. ~ (l <= k)
      BY <1>0, <1>3
    <3> QED BY <3>0, <3>1, <3>2, Zenon DEF UpTo
  <2>2. IsFiniteSet(UpTo(k)) /\ IsFiniteSet(UpTo(l))
    BY <1>2
  <2>3. UpTo(k) # UpTo(l)
    BY <2>1
  <2> HIDE DEF UpTo
  <2>4. Cardinality(UpTo(k)) <= Cardinality(UpTo(l)) /\ Cardinality(UpTo(k)) # Cardinality(UpTo(l))
    BY <2>1, <2>2, <2>3, FS_Subset
  <2> QED BY <1>2, <2>4
<1> HIDE DEF UpTo
<1>4. rank \in Injection(K, 1..Cardinality(K))
  <2>1. rank \in [K -> 1..Cardinality(K)]
    BY <1>2
  <2>2. ASSUME NEW k \in K, NEW l \in K, rank[k] = rank[l] PROVE k = l
    <3>1. k < l \/ l < k \/ k = l
      BY <1>0
    <3>2. Cardinality(UpTo(k)) \in Nat /\ Cardinality(UpTo(l)) \in Nat
      BY <1>2
    <3> QED BY <1>3, <2>2, <3>1, <3>2
  <2> QED BY <2>1, <2>2 DEF Injection, IsInjective
<1>5. rank \in Surjection(K, 1..Cardinality(K))
  <2>1. IsFiniteSet(1..Cardinality(K)) /\ Cardinality(1..Cardinality(K)) = Cardinality(K)
    BY <1>1, FS_Interval
  <2> HIDE DEF rank
  <2> QED BY <1>4, <2>1, FS_Injection
<1>6. ASSUME NEW i \in 1..Cardinality(K)
      PROVE  /\ Nth(K, i) \in K /\ Cardinality(UpTo(Nth(K, i))) = i
             /\ \A k \in K : Cardinality(UpTo(k)) = i => k = Nth(K, i)
  <2>1. \E k \in K : Cardinality(UpTo(k)) = i
    BY <1>5 DEF Surjection
  <2>2. Nth(K, i) \in K /\ Cardinality(UpTo(Nth(K, i))) = i
    BY <2>1 DEF Nth, Rank, UpTo
  <2>3. ASSUME NEW k \in K, Cardinality(UpTo(k)) = i PROVE k = Nth(K, i)
    BY <1>4, <2>2, <2>3 DEF Injection, IsInjective
  <2> QED BY <2>2, <2>3
<1>7. \A k : Cardinality(UpTo(k)) = Rank(K, k)
  BY DEF UpTo, Rank
<1> QED BY <1>1, <1>2, <1>6, <1>7

\* A set of natural numbers below a bound has a greatest one.
LEMMA GreatestIsThere ==
  ASSUME NEW n \in Nat, NEW S \in SUBSET (0..n), S # {}
  PROVE  \E m \in S : \A k \in S : k <= m
<1> DEFINE T == {n - k : k \in S}
<1>1. \E x \in T : \A y \in T : ~ (<<y, x>> \in OpToRel(<, Nat))
  <2>1. T \subseteq Nat
    <3>1. ASSUME NEW k \in S PROVE n - k \in Nat
      BY <3>1
    <3> QED BY <3>1
  <2>2. T # {}
    OBVIOUS
  <2> QED BY <2>1, <2>2, NatLessThanWellFounded, WFMin, Zenon
<1>2. PICK k \in S : \A y \in T : ~ (<<y, n - k>> \in OpToRel(<, Nat))
  BY <1>1
<1>3. \A j \in S : j <= k
  <2> SUFFICES ASSUME NEW j \in S, j > k PROVE FALSE
    OBVIOUS
  <2>1. n - j \in T /\ n - j < n - k /\ n - j \in Nat /\ n - k \in Nat
    OBVIOUS
  <2>2. <<n - j, n - k>> \in OpToRel(<, Nat)
    BY <2>1 DEF OpToRel
  <2> QED BY <1>2, <2>1, <2>2
<1> QED BY <1>3

\* The numbers of a finite set, in order: all of them, each once, increasing.
LEMMA InOrderIs ==
  ASSUME NEW n \in Nat, NEW K \in SUBSET (1..n)
  PROVE  /\ Cardinality(K) \in Nat /\ InOrder(K) \in Seq(K) /\ Len(InOrder(K)) = Cardinality(K)
         /\ \A i \in 1..Cardinality(K) : InOrder(K)[i] = Nth(K, i) /\ Nth(K, i) \in K
         /\ \A i, j \in 1..Cardinality(K) : i < j => Nth(K, i) < Nth(K, j)
         /\ \A k \in K : Rank(K, k) \in 1..Cardinality(K) /\ Nth(K, Rank(K, k)) = k
<1> DEFINE c == Cardinality(K)
<1>0. \A k \in K : k \in Nat
  OBVIOUS
<1>1. /\ c \in Nat /\ \A k \in K : Rank(K, k) \in 1..c
      /\ \A i \in 1..c : /\ Nth(K, i) \in K /\ Rank(K, Nth(K, i)) = i
                        /\ \A k \in K : Rank(K, k) = i => k = Nth(K, i)
  BY NthIsThere
<1>2. \A k \in K : Rank(K, k) \in 1..c /\ Nth(K, Rank(K, k)) = k
  BY <1>1
<1>3. ASSUME NEW i \in 1..c, NEW j \in 1..c, i < j PROVE Nth(K, i) < Nth(K, j)
  <2> SUFFICES ASSUME Nth(K, j) <= Nth(K, i) PROVE FALSE
    <3>1. Nth(K, i) \in Nat /\ Nth(K, j) \in Nat
      BY <1>0, <1>1
    <3> QED BY <3>1
  <2> DEFINE P == {k \in K : k <= Nth(K, j)}
             R == {k \in K : k <= Nth(K, i)}
  <2>1. P \subseteq R
    <3>1. Nth(K, i) \in Nat /\ Nth(K, j) \in Nat
      BY <1>0, <1>1
    <3> HIDE DEF c
    <3>2. \A k \in K : k <= Nth(K, j) => k <= Nth(K, i)
      BY <1>0, <3>1
    <3> QED BY <3>2
  <2>2. IsFiniteSet(R) /\ IsFiniteSet(K)
    <3>1. IsFiniteSet(K)
      BY NthIsThere
    <3> QED BY <3>1, FS_Subset
  <2>3. Cardinality(P) <= Cardinality(R)
    <3> HIDE DEF P, R
    <3> QED BY <2>1, <2>2, FS_Subset
  <2>4. Cardinality(P) = j /\ Cardinality(R) = i
    BY <1>1 DEF Rank
  <2> QED BY <1>3, <2>3, <2>4
<1>4. InOrder(K) \in Seq(K) /\ Len(InOrder(K)) = c /\ \A i \in 1..c : InOrder(K)[i] = Nth(K, i)
  BY <1>1 DEF InOrder
<1> QED BY <1>1, <1>2, <1>3, <1>4

LEMMA SelectType ==
  ASSUME NEW T, NEW S, NEW s \in Seq(T)
  PROVE  /\ Select(s, S) \in Seq(T \cap S) /\ Select(s, S) \in Seq(T)
         /\ Places(s, S) \in SUBSET (1..Len(s)) /\ Len(s) \in Nat
         /\ Cardinality(Places(s, S)) \in Nat /\ Len(Select(s, S)) = Cardinality(Places(s, S))
<1> DEFINE K == Places(s, S)
<1>1. K \in SUBSET (1..Len(s)) /\ Len(s) \in Nat
  BY DEF Places
<1>2. \A k \in K : s[k] \in T \cap S
  BY DEF Places
<1> HIDE DEF K
<1>3. Cardinality(K) \in Nat /\ \A i \in 1..Cardinality(K) : Nth(K, i) \in K
  BY <1>1, NthIsThere
<1>4. [i \in 1..Cardinality(K) |-> s[Nth(K, i)]] \in Seq(T \cap S)
  BY <1>2, <1>3
<1>5. Select(s, S) = [i \in 1..Cardinality(K) |-> s[Nth(K, i)]]
  BY DEF Select, K
<1> QED BY <1>1, <1>3, <1>4, <1>5 DEF K

LEMMA SelectOfNone ==
  ASSUME NEW S
  PROVE  Select(<< >>, S) = << >>
<1>1. Places(<< >>, S) = {}
  BY DEF Places
<1>2. Cardinality(Places(<< >>, S)) = 0
  BY <1>1, FS_EmptySet
<1> QED BY <1>2 DEF Select

\* A member appended to the sequence is appended to the selection it is in.
LEMMA SelectOfAppended ==
  ASSUME NEW T, NEW S, NEW s \in Seq(T), NEW x \in T
  PROVE  /\ x \in S => Select(Append(s, x), S) = Append(Select(s, S), x)
         /\ x \notin S => Select(Append(s, x), S) = Select(s, S)
<1> DEFINE z == Append(s, x)
           K == Places(s, S)
           L == Places(z, S)
           n == Len(s) + 1
<1>1. /\ z \in Seq(T) /\ Len(z) = n /\ z[n] = x /\ \A i \in 1..Len(s) : z[i] = s[i]
      /\ s \in Seq(T) /\ Len(s) \in Nat /\ n \in Nat
  OBVIOUS
<1>2. K \in SUBSET (1..Len(s)) /\ L \in SUBSET (1..n)
  BY <1>1 DEF Places
<1>9. /\ \A k \in K : k \in Nat /\ k <= Len(s)
      /\ \A k \in L : k \in Nat /\ k <= n
  BY <1>1, <1>2
<1>3. /\ x \in S => L = K \cup {n}
      /\ x \notin S => L = K
  BY <1>1 DEF Places
<1>4. Select(s, S) = [i \in 1..Cardinality(K) |-> s[Nth(K, i)]]
      /\ Select(z, S) = [i \in 1..Cardinality(L) |-> z[Nth(L, i)]]
  BY DEF Select
<1> HIDE DEF z, K, L, n
<1>5. IsFiniteSet(K) /\ Cardinality(K) \in Nat /\ Cardinality(L) \in Nat
  BY <1>1, <1>2, NthIsThere
<1>6. \A i \in 1..Cardinality(K) : Nth(K, i) \in K /\ z[Nth(K, i)] = s[Nth(K, i)]
  BY <1>1, <1>2, NthIsThere
<1>7. CASE x \notin S
  <2>1. Select(z, S) = Select(s, S)
    BY <1>3, <1>4, <1>6, <1>7
  <2> QED BY <1>7, <2>1 DEF z
<1>8. CASE x \in S
  <2>1. L = K \cup {n} /\ n \notin K
    BY <1>1, <1>2, <1>3, <1>8 DEF n
  <2>2. Cardinality(L) = Cardinality(K) + 1
    BY <1>5, <2>1, FS_AddElement
  <2>3. {j \in L : j <= n} = L
    BY <1>9
  <2>4. Nth(L, Cardinality(K) + 1) = n
    <3>1. n \in L /\ Cardinality(K) + 1 \in 1..Cardinality(L)
      BY <1>5, <2>1, <2>2
    <3>2. Rank(L, n) = Cardinality(K) + 1
      BY <2>2, <2>3 DEF Rank
    <3> QED BY <1>1, <1>2, <3>1, <3>2, NthIsThere
  <2>5. ASSUME NEW i \in 1..Cardinality(K) PROVE Nth(L, i) = Nth(K, i)
    <3>1. Nth(K, i) \in K /\ Rank(K, Nth(K, i)) = i
      BY <1>1, <1>2, NthIsThere
    <3>2. {j \in L : j <= Nth(K, i)} = {j \in K : j <= Nth(K, i)}
      <4>1. ~ (n <= Nth(K, i))
        BY <1>1, <1>9, <3>1 DEF n
      <4> QED BY <4>1, <2>1
    <3>3. i \in 1..Cardinality(L) /\ Nth(K, i) \in L
      BY <1>5, <2>1, <2>2, <3>1
    <3>4. Rank(L, Nth(K, i)) = i
      BY <3>1, <3>2 DEF Rank
    <3> QED BY <3>4, <1>1, <1>2, <3>1, <3>2, <3>3, NthIsThere
  <2>6. Select(z, S) = [i \in 1..(Cardinality(K) + 1) |->
                          IF i = Cardinality(K) + 1 THEN x ELSE s[Nth(K, i)]]
    BY <1>1, <1>4, <1>5, <1>6, <2>2, <2>4, <2>5
  <2>7. Select(s, S) \in Seq(T) /\ Len(Select(s, S)) = Cardinality(K)
    BY <1>1, SelectType DEF K
  <2>8. Append(Select(s, S), x) = [i \in 1..(Cardinality(K) + 1) |->
                          IF i = Cardinality(K) + 1 THEN x ELSE s[Nth(K, i)]]
    BY <1>4, <1>5, <2>7
  <2> QED BY <1>8, <2>6, <2>8 DEF z
<1> QED BY <1>7, <1>8

LEMMA TailIs ==
  ASSUME NEW T, NEW s \in Seq(T), s # << >>
  PROVE  Tail(s) = [i \in 1..(Len(s) - 1) |-> s[i + 1]]
<1> DEFINE r == [i \in 1..(Len(s) - 1) |-> s[i + 1]]
<1>1. Len(s) - 1 \in Nat /\ \A i \in 1..(Len(s) - 1) : s[i + 1] \in T
  OBVIOUS
<1>2. r \in Seq(T) /\ Len(r) = Len(s) - 1 /\ \A i \in 1..Len(r) : r[i] = s[i + 1]
  BY <1>1
<1>3. /\ Tail(s) \in Seq(T) /\ Len(Tail(s)) = Len(s) - 1
      /\ \A i \in 1..(Len(s) - 1) : Tail(s)[i] = s[i + 1]
  OBVIOUS
<1> HIDE DEF r
<1>4. Tail(s) = r
  BY <1>2, <1>3
<1> QED BY <1>4 DEF r

\* Reading the first member of the sequence reads the first of the selection,
\* or nothing of it.
LEMMA SelectOfTail ==
  ASSUME NEW T, NEW S, NEW s \in Seq(T), s # << >>
  PROVE  /\ s[1] \in S => /\ Select(s, S) # << >> /\ Select(s, S)[1] = s[1]
                          /\ Select(Tail(s), S) = Tail(Select(s, S))
         /\ s[1] \notin S => Select(Tail(s), S) = Select(s, S)
<1> DEFINE z == Tail(s)
           K == Places(s, S)
           L == Places(z, S)
<1>1. /\ z \in Seq(T) /\ Len(z) = Len(s) - 1 /\ Len(z) \in Nat
      /\ \A i \in 1..Len(z) : z[i] = s[i + 1]
      /\ s \in Seq(T) /\ Len(s) \in Nat /\ 1 \in 1..Len(s)
  OBVIOUS
<1>2. K \in SUBSET (1..Len(s)) /\ L \in SUBSET (1..Len(z))
  BY <1>1 DEF Places
<1>15. (\A k \in K : k \in Nat /\ k >= 1) /\ (\A k \in L : k \in Nat /\ k >= 1)
  BY <1>1, <1>2
<1>3. \A k \in L : k + 1 \in K
  BY <1>1 DEF Places
<1>4. \A k \in K : k # 1 => k - 1 \in L
  BY <1>1 DEF Places
<1>5. 1 \in K <=> s[1] \in S
  BY <1>1 DEF Places
<1>6. Select(s, S) = [i \in 1..Cardinality(K) |-> s[Nth(K, i)]]
      /\ Select(z, S) = [i \in 1..Cardinality(L) |-> z[Nth(L, i)]]
  BY DEF Select
<1> HIDE DEF z, K, L
<1>7. /\ IsFiniteSet(K) /\ Cardinality(K) \in Nat /\ IsFiniteSet(L) /\ Cardinality(L) \in Nat
      /\ \A i \in 1..Cardinality(L) : Nth(L, i) \in L
      /\ \A i \in 1..Cardinality(K) : Nth(K, i) \in K
  BY <1>1, <1>2, NthIsThere
<1>16. \A i \in 1..Cardinality(L) : Nth(L, i) \in L /\ Rank(L, Nth(L, i)) = i
  BY <1>1, <1>2, NthIsThere
\* Moving the places of the rest by one.
<1>8. ASSUME NEW A \in SUBSET L
      PROVE  Cardinality({k + 1 : k \in A}) = Cardinality(A) /\ IsFiniteSet({k + 1 : k \in A})
  <2> DEFINE B == {k + 1 : k \in A}
             f == [k \in A |-> k + 1]
  <2>1. IsFiniteSet(A)
    BY <1>7, FS_Subset
  <2>2. f \in Surjection(A, B)
    BY DEF Surjection
  <2>3. f \in Injection(A, B)
    <3>1. f \in [A -> B]
      OBVIOUS
    <3>2. \A k, l \in A : f[k] = f[l] => k = l
      BY <1>2
    <3> QED BY <3>1, <3>2 DEF Injection, IsInjective
  <2> HIDE DEF f, B
  <2>4. IsFiniteSet(B) /\ Cardinality(B) = Cardinality(A)
    BY <2>1, <2>2, <2>3, FS_Surjection
  <2> QED BY <2>4 DEF B
<1> DEFINE M == {k + 1 : k \in L}
<1>14. \A k \in M : k \in Nat /\ k > 1
  BY <1>15
<1>9. Cardinality(M) = Cardinality(L) /\ IsFiniteSet(M) /\ 1 \notin M
  BY <1>2, <1>8
<1>10. M = K \ {1}
  <2>1. ASSUME NEW k \in L PROVE k + 1 \in K /\ k + 1 # 1
    BY <1>3, <1>15
  <2>2. ASSUME NEW k \in K, k # 1 PROVE \E l \in L : k = l + 1
    <3>1. k - 1 \in L /\ k = (k - 1) + 1
      BY <1>4, <1>15, <2>2
    <3> QED BY <3>1
  <2> QED BY <2>1, <2>2
<1>11. ASSUME NEW k \in L
       PROVE  Rank(M, k + 1) = Rank(L, k)
              /\ IsFiniteSet({j \in M : j <= k + 1})
  <2>1. {j \in M : j <= k + 1} = {j + 1 : j \in {l \in L : l <= k}}
    BY <1>2
  <2> QED BY <1>8, <2>1 DEF Rank
<1> HIDE DEF M
<1>12. CASE s[1] \notin S
  <2>1. M = K
    BY <1>5, <1>10, <1>12
  <2>2. ASSUME NEW i \in 1..Cardinality(L) PROVE Nth(K, i) = Nth(L, i) + 1
    <3>1. Nth(L, i) \in L /\ Rank(L, Nth(L, i)) = i
      BY <1>16
    <3>2. Rank(K, Nth(L, i) + 1) = i /\ Nth(L, i) + 1 \in K
      BY <1>3, <1>11, <2>1, <3>1
    <3>3. i \in 1..Cardinality(K)
      BY <1>9, <2>1
    <3>4. Nth(L, i) + 1 = Nth(K, i)
      BY <1>1, <1>2, <3>2, <3>3, NthIsThere
    <3> QED BY <3>4
  <2>3. \A i \in 1..Cardinality(L) : z[Nth(L, i)] = s[Nth(K, i)]
    BY <1>1, <1>2, <1>7, <2>2
  <2>4. Select(z, S) = Select(s, S)
    BY <1>6, <1>9, <2>1, <2>3
  <2> QED BY <1>12, <2>4 DEF z
<1>13. CASE s[1] \in S
  <2>1. K = M \cup {1}
    BY <1>5, <1>10, <1>13
  <2>2. Cardinality(K) = Cardinality(L) + 1
    BY <1>9, <2>1, FS_AddElement
  <2>3. Nth(K, 1) = 1
    <3>1. {j \in K : j <= 1} = {1}
      BY <1>14, <2>1
    <3>4. Rank(K, 1) = 1
      BY <3>1, FS_Singleton DEF Rank
    <3>2. Rank(K, 1) = 1 /\ 1 \in 1..Cardinality(K) /\ 1 \in K
      BY <1>7, <2>1, <2>2, <3>4
    <3> QED BY <1>1, <1>2, <3>2, NthIsThere
  <2>4. ASSUME NEW i \in 1..Cardinality(L) PROVE Nth(K, i + 1) = Nth(L, i) + 1
    <3>1. Nth(L, i) \in L /\ Rank(L, Nth(L, i)) = i
      BY <1>16
    <3> DEFINE m == Nth(L, i) + 1
               A == {j \in M : j <= m}
    <3>2. {j \in K : j <= m} = A \cup {1} /\ 1 \notin A
      <4>1. 1 <= m
        BY <1>15, <3>1
      <4> QED BY <4>1, <1>14, <2>1
    <3>5. Cardinality(A) = i /\ IsFiniteSet(A)
      BY <1>11, <3>1 DEF Rank
    <3> HIDE DEF A
    <3>6. Cardinality(A \cup {1}) = i + 1
      BY <3>2, <3>5, FS_AddElement
    <3>3. Rank(K, m) = i + 1
      BY <3>2, <3>6 DEF Rank
    <3>4. i + 1 \in 1..Cardinality(K) /\ Nth(L, i) + 1 \in K
      BY <1>3, <1>7, <2>2, <3>1
    <3> QED BY <1>1, <1>2, <3>3, <3>4, NthIsThere, ZenonT(60)
  <2>5. \A i \in 1..Cardinality(L) : z[Nth(L, i)] = s[Nth(K, i + 1)]
    BY <1>1, <1>2, <1>7, <2>4
  <2>6. Select(s, S) \in Seq(T) /\ Len(Select(s, S)) = Cardinality(K)
    BY <1>1, SelectType DEF K
  <2>7. Select(s, S) # << >> /\ Select(s, S)[1] = s[1]
    BY <1>6, <1>7, <2>2, <2>3, <2>6
  <2>8. Tail(Select(s, S)) = [i \in 1..Cardinality(L) |-> s[Nth(K, i + 1)]]
    <3> DEFINE w == Select(s, S)
    <3>1. \A i \in 1..Cardinality(L) : i + 1 \in 1..Cardinality(K) /\ w[i + 1] = s[Nth(K, i + 1)]
      BY <1>6, <1>7, <2>2
    <3>2. w \in Seq(T) /\ w # << >> /\ Len(w) = Cardinality(L) + 1
      BY <2>2, <2>6, <2>7
    <3> HIDE DEF w
    <3>3. Tail(w) = [i \in 1..Cardinality(L) |-> w[i + 1]]
      <4>1. Len(w) - 1 = Cardinality(L)
        BY <1>7, <3>2
      <4> QED BY <3>2, <4>1, TailIs
    <3>4. Tail(w) = [i \in 1..Cardinality(L) |-> s[Nth(K, i + 1)]]
      BY <3>1, <3>3
    <3> QED BY <3>4 DEF w
  <2>9. Select(z, S) = Tail(Select(s, S))
    BY <1>6, <2>5, <2>8
  <2> QED BY <1>13, <2>7, <2>9 DEF z
<1> QED BY <1>12, <1>13
=============================================================================
