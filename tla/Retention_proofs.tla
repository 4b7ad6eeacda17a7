--------------------------- MODULE Retention_proofs ---------------------------
(* Induction up to a number, recursion up to a number, and what they say of    *)
(* Retention's walk over the entries of a store.  The first three lemmas take  *)
(* a set or a function where the library's theorems take an operator.          *)
EXTENDS Retention, FunctionTheorems, FiniteSetTheorems, WellFoundedInduction, TLAPS

\* A set that has 0, and the successor of each member below n, has all up to n.
LEMMA InductionUpTo ==
  ASSUME NEW n \in Nat, NEW P, 0 \in P, \A i \in 1 .. n : i - 1 \in P => i \in P
  PROVE  \A i \in 0 .. n : i \in P
<1> DEFINE T == {i \in 0 .. n : i \notin P}
           R == OpToRel(<, Nat)
<1>1. SUFFICES ASSUME T # {} PROVE FALSE
  OBVIOUS
<1>2. IsWellFoundedOn(R, Nat)
  BY NatLessThanWellFounded
<1>3. T \subseteq Nat
  OBVIOUS
<1>4. PICK k \in T : \A j \in T : <<j, k>> \notin R
  <2> HIDE DEF T, R
  <2>1. QED
    BY <1>1, <1>2, <1>3, WFMin
<1>5. ASSUME NEW j \in Nat, j < k PROVE <<j, k>> \in R
  <2>1. k \in Nat
    OBVIOUS
  <2>2. QED
    BY <1>5, <2>1, Zenon DEF OpToRel
<1> HIDE DEF R
<1>6. k \in 0 .. n /\ k \notin P /\ k # 0
  OBVIOUS
<1>7. k - 1 \in Nat /\ k - 1 < k /\ k - 1 \in 0 .. n
  BY <1>6
<1>8. k - 1 \in P
  BY <1>4, <1>5, <1>7
<1>9. QED
  BY <1>6, <1>8

\* A base and a step make a function of the numbers up to n.
Steps(n, X) == [1 .. n -> [X -> X]]
Iterations(n, X, base, step) ==
    {f \in [0 .. n -> X] : f[0] = base /\ \A i \in 1 .. n : f[i] = step[i][f[i - 1]]}

LEMMA RecursionUpTo ==
  ASSUME NEW n \in Nat, NEW X, NEW base \in X, NEW step \in Steps(n, X)
  PROVE  \E f : f \in Iterations(n, X, base, step)
<1> USE DEF Steps, Iterations
<1> DEFINE Good(k, f) == f[0] = base /\ \A i \in 1 .. k : f[i] = step[i][f[i - 1]]
           P == {k \in 0 .. n : \E f \in [0 .. k -> X] : Good(k, f)}
<1>1. 0 \in P
  <2> DEFINE g == [i \in 0 .. 0 |-> base]
  <2>1. g \in [0 .. 0 -> X] /\ Good(0, g)
    OBVIOUS
  <2> HIDE DEF g
  <2>2. QED
    BY <2>1
<1>2. ASSUME NEW k \in 1 .. n, k - 1 \in P PROVE k \in P
  <2>1. PICK f \in [0 .. k - 1 -> X] : Good(k - 1, f)
    BY <1>2
  <2> DEFINE g == [i \in 0 .. k |-> IF i = k THEN step[k][f[k - 1]] ELSE f[i]]
  <2>2. f[k - 1] \in X /\ step[k][f[k - 1]] \in X
    OBVIOUS
  <2>3. g \in [0 .. k -> X]
    BY <2>2
  <2>4. g[0] = base
    BY <2>1
  <2>5. ASSUME NEW i \in 1 .. k PROVE g[i] = step[i][g[i - 1]]
    <3>1. CASE i = k
      BY <3>1
    <3>2. CASE i # k
      <4>1. i \in 1 .. k - 1 /\ i - 1 \in 0 .. k - 1 /\ i - 1 # k
        BY <3>2
      <4>2. QED
        BY <4>1, <3>2, <2>1
    <3>3. QED
      BY <3>1, <3>2
  <2> HIDE DEF g
  <2>6. QED
    BY SMTT(30), <2>3, <2>4, <2>5
<1>3. n \in P
  <2> HIDE DEF P
  <2>1. \A k \in 0 .. n : k \in P
    BY <1>1, <1>2, InductionUpTo
  <2>2. QED
    BY <2>1
<1>4. QED
  BY <1>3

\* The walk of Without: what is left of the first n entries, for every n.
IsWalk(left, T, s, goes) ==
    /\ left \in [0 .. Len(s) -> Seq(T)]
    /\ left[0] = <<>>
    /\ \A n \in 1 .. Len(s) :
          left[n] = IF s[n] \in goes THEN left[n - 1] ELSE Append(left[n - 1], s[n])
    /\ Without(s, goes) = left[Len(s)]

LEMMA WalkOfWithout ==
  ASSUME NEW T, NEW s \in Seq(T), NEW goes
  PROVE  \E left : IsWalk(left, T, s, goes)
<1> DEFINE step == [n \in 1 .. Len(s) |-> [so_far \in Seq(T) |->
                       IF s[n] \in goes THEN so_far ELSE Append(so_far, s[n])]]
           Walk(f) == [n \in 0 .. Len(s) |->
                          IF n = 0 THEN <<>>
                          ELSE IF s[n] \in goes THEN f[n - 1] ELSE Append(f[n - 1], s[n])]
<1>1. step \in [1 .. Len(s) -> [Seq(T) -> Seq(T)]] /\ <<>> \in Seq(T) /\ Len(s) \in Nat
  <2>1. \A n \in 1 .. Len(s) : s[n] \in T
    OBVIOUS
  <2>2. ASSUME NEW n \in 1 .. Len(s) PROVE step[n] \in [Seq(T) -> Seq(T)]
    BY <2>1
  <2>3. QED
    BY <2>2
<1> DEFINE N == Len(s)
           X == Seq(T)
           empty == <<>>
<1>2. step \in Steps(N, X) /\ empty \in X /\ N \in Nat
  BY <1>1 DEF Steps
<1> HIDE DEF step, N, X, empty
<1>3. PICK f : f \in Iterations(N, X, empty, step)
  BY <1>2, RecursionUpTo
<1>4. /\ f \in [0 .. Len(s) -> Seq(T)] /\ f[0] = <<>>
      /\ \A n \in 1 .. Len(s) :
            f[n] = IF s[n] \in goes THEN f[n - 1] ELSE Append(f[n - 1], s[n])
  <2>1. /\ f \in [0 .. N -> X] /\ f[0] = empty
        /\ \A n \in 1 .. N : f[n] = step[n][f[n - 1]]
    BY <1>3 DEF Iterations
  <2>2. ASSUME NEW n \in 1 .. Len(s)
        PROVE  f[n] = IF s[n] \in goes THEN f[n - 1] ELSE Append(f[n - 1], s[n])
    <3>1. f[n - 1] \in Seq(T) /\ f[n] = step[n][f[n - 1]]
      BY <2>1, <1>2 DEF N, X
    <3>2. QED
      BY <3>1 DEF step
  <2>3. QED
    BY <2>1, <2>2 DEF N, X, empty
<1>5. f = Walk(f)
  <2>1. ASSUME NEW n \in 0 .. Len(s) PROVE f[n] = Walk(f)[n]
    <3>1. n = 0 \/ (n \in 1 .. Len(s) /\ n # 0)
      BY <1>1
    <3>2. QED
      BY <3>1, <1>4
  <2>2. DOMAIN f = 0 .. Len(s) /\ f = [n \in 0 .. Len(s) |-> f[n]]
    BY <1>4
  <2>3. QED
    BY <2>1, <2>2
<1> DEFINE g == CHOOSE h : h = Walk(h)
<1>6. g = Walk(g)
  <2> HIDE DEF Walk
  <2>1. QED
    BY <1>5
<1>7. ASSUME NEW n \in 0 .. Len(s) PROVE g[n] = f[n]
  <2> DEFINE P == {k \in 0 .. Len(s) : g[k] = f[k]}
  <2> HIDE DEF g
  <2>1. 0 \in P
    BY <1>4, <1>6
  <2>2. ASSUME NEW k \in 1 .. Len(s), k - 1 \in P PROVE k \in P
    <3>1. k # 0 /\ k \in 0 .. Len(s) /\ g[k - 1] = f[k - 1]
      BY <2>2
    <3>2. g[k] = IF s[k] \in goes THEN g[k - 1] ELSE Append(g[k - 1], s[k])
      BY <3>1, <1>6
    <3>3. QED
      BY <3>1, <3>2, <1>4
  <2>3. n \in P
    <3> HIDE DEF P
    <3>1. QED
      BY <1>1, <2>1, <2>2, InductionUpTo
  <2>4. QED
    BY <2>3
<1>8. Without(s, goes) = g[Len(s)]
  BY DEF Without
<1>9. Without(s, goes) = f[Len(s)]
  BY SMTT(30), <1>1, <1>7, <1>8
<1>10. QED
  BY <1>4, <1>9 DEF IsWalk

\* The entries w are those of the first n of s that do not go, in their order: at
\* says at which place of s each of them is.
Picks(at, w, s, goes, n) ==
    /\ at \in [1 .. Len(w) -> 1 .. n]
    /\ \A k \in 1 .. Len(w) : w[k] = s[at[k]] /\ s[at[k]] \notin goes
    /\ \A j, k \in 1 .. Len(w) : j < k => at[j] < at[k]
    /\ \A i \in 1 .. n : s[i] \notin goes => \E k \in 1 .. Len(w) : at[k] = i

\* What Without leaves: just the entries that do not go, in their order.
LEMMA WithoutPicks ==
  ASSUME NEW T, NEW s \in Seq(T), NEW goes
  PROVE  Without(s, goes) \in Seq(T) /\ \E at : Picks(at, Without(s, goes), s, goes, Len(s))
<1>0. PICK left : IsWalk(left, T, s, goes)
  BY WalkOfWithout
<1>1. /\ left \in [0 .. Len(s) -> Seq(T)]
      /\ left[0] = <<>>
      /\ \A n \in 1 .. Len(s) :
            left[n] = IF s[n] \in goes THEN left[n - 1] ELSE Append(left[n - 1], s[n])
      /\ Without(s, goes) = left[Len(s)]
  BY <1>0 DEF IsWalk
<1> DEFINE P == {n \in 0 .. Len(s) : \E at : Picks(at, left[n], s, goes, n)}
<1>2. 0 \in P
  <2>1. Picks(<<>>, <<>>, s, goes, 0)
    BY DEF Picks
  <2>2. QED
    BY <2>1, <1>1
<1>3. ASSUME NEW n \in 1 .. Len(s), n - 1 \in P PROVE n \in P
  <2>1. PICK at : Picks(at, left[n - 1], s, goes, n - 1)
    BY <1>3
  <2> DEFINE w == left[n - 1]
  <2>2. w \in Seq(T) /\ s[n] \in T
    BY <1>1
  <2>3. CASE s[n] \in goes
    <3>1. left[n] = w
      BY <1>1, <2>3
    <3>2. Picks(at, w, s, goes, n)
      <4> HIDE DEF w
      <4>1. QED
        BY <2>1, <2>2, <2>3 DEF Picks, w
    <3>3. QED
      BY <3>1, <3>2
  <2>4. CASE s[n] \notin goes
    <3> DEFINE v == Append(w, s[n])
               to == [k \in 1 .. Len(v) |-> IF k = Len(v) THEN n ELSE at[k]]
    <3>1. left[n] = v
      BY <1>1, <2>4
    <3>2. /\ Len(w) \in Nat /\ Len(v) = Len(w) + 1
          /\ v[Len(v)] = s[n] /\ \A k \in 1 .. Len(w) : v[k] = w[k]
      BY <2>2
    <3>3. /\ at \in [1 .. Len(w) -> 1 .. n - 1]
          /\ \A k \in 1 .. Len(w) : w[k] = s[at[k]] /\ s[at[k]] \notin goes
          /\ \A j, k \in 1 .. Len(w) : j < k => at[j] < at[k]
          /\ \A i \in 1 .. n - 1 : s[i] \notin goes => \E k \in 1 .. Len(w) : at[k] = i
      BY <2>1 DEF Picks
    <3> HIDE DEF w, v
    <3>4. /\ to[Len(v)] = n /\ \A k \in 1 .. Len(w) : to[k] = at[k] /\ at[k] \in 1 .. n - 1
          /\ \A k \in 1 .. Len(v) : k \in 1 .. Len(w) \/ k = Len(v)
          /\ to \in [1 .. Len(v) -> 1 .. n]
      BY <3>2, <3>3
    <3> HIDE DEF to
    <3>5. \A k \in 1 .. Len(v) : v[k] = s[to[k]] /\ s[to[k]] \notin goes
      BY <3>2, <3>3, <3>4, <2>4
    <3>6. ASSUME NEW j \in 1 .. Len(v), NEW k \in 1 .. Len(v), j < k PROVE to[j] < to[k]
      <4>1. j \in 1 .. Len(w)
        BY <3>2, <3>6
      <4>2. to[j] = at[j] /\ at[j] \in 1 .. n - 1
        BY <4>1, <3>4
      <4>3. CASE k = Len(v)
        BY <4>2, <4>3, <3>4
      <4>4. CASE k \in 1 .. Len(w)
        <5>1. to[k] = at[k] /\ at[j] < at[k]
          BY <4>1, <4>4, <3>3, <3>4, <3>6
        <5>2. QED
          BY <4>2, <5>1
      <4>5. QED
        BY <4>3, <4>4, <3>4
    <3>7. ASSUME NEW i \in 1 .. n, s[i] \notin goes
          PROVE  \E k \in 1 .. Len(v) : to[k] = i
      <4>1. CASE i = n
        BY <4>1, <3>2, <3>4
      <4>2. CASE i # n
        <5>1. PICK k \in 1 .. Len(w) : at[k] = i
          BY <4>2, <3>3, <3>7
        <5>2. QED
          BY <5>1, <3>2, <3>4
      <4>3. QED
        BY <4>1, <4>2
    <3>8. Picks(to, v, s, goes, n)
      BY <3>4, <3>5, <3>6, <3>7 DEF Picks
    <3>9. QED
      BY <3>1, <3>8
  <2>5. QED
    BY <2>3, <2>4
<1>4. Len(s) \in P
  <2>1. Len(s) \in Nat
    OBVIOUS
  <2> HIDE DEF P
  <2>2. \A n \in 0 .. Len(s) : n \in P
    BY <1>2, <1>3, <2>1, InductionUpTo
  <2>3. QED
    BY <2>1, <2>2
<1>5. QED
  BY <1>1, <1>4

\* The entries that are left are the ones of s that do not go.
LEMMA WithoutContents ==
  ASSUME NEW T, NEW s \in Seq(T), NEW goes
  PROVE  /\ Without(s, goes) \in Seq(T)
         /\ \A k \in 1 .. Len(Without(s, goes)) :
               Without(s, goes)[k] \notin goes
               /\ \E i \in 1 .. Len(s) : s[i] = Without(s, goes)[k]
         /\ \A i \in 1 .. Len(s) : s[i] \notin goes =>
               \E k \in 1 .. Len(Without(s, goes)) : Without(s, goes)[k] = s[i]
         /\ (\A i, j \in 1 .. Len(s) : s[i] = s[j] => i = j) =>
               \A i, j \in 1 .. Len(Without(s, goes)) :
                   Without(s, goes)[i] = Without(s, goes)[j] => i = j
<1> DEFINE w == Without(s, goes)
<1>1. w \in Seq(T) /\ \E at : Picks(at, w, s, goes, Len(s))
  BY WithoutPicks
<1> HIDE DEF w
<1>2. PICK at : Picks(at, w, s, goes, Len(s))
  BY <1>1
<1>3. /\ \A k \in 1 .. Len(w) : w[k] = s[at[k]] /\ s[at[k]] \notin goes /\ at[k] \in 1 .. Len(s)
      /\ \A j, k \in 1 .. Len(w) : j < k => at[j] < at[k]
      /\ \A i \in 1 .. Len(s) : s[i] \notin goes => \E k \in 1 .. Len(w) : at[k] = i
  BY <1>2 DEF Picks
<1>4. ASSUME \A i, j \in 1 .. Len(s) : s[i] = s[j] => i = j,
             NEW i \in 1 .. Len(w), NEW j \in 1 .. Len(w), w[i] = w[j]
      PROVE  i = j
  <2>1. at[i] = at[j] /\ at[i] \in Int
    BY <1>3, <1>4
  <2>2. QED
    BY <2>1, <1>3
<1>5. /\ \A k \in 1 .. Len(w) : w[k] \notin goes /\ \E i \in 1 .. Len(s) : s[i] = w[k]
      /\ \A i \in 1 .. Len(s) : s[i] \notin goes => \E k \in 1 .. Len(w) : w[k] = s[i]
  BY SMTT(30), <1>3
<1>6. QED
  BY <1>1, <1>4, <1>5 DEF w

\* As many entries are left as do not go.
LEMMA WithoutLength ==
  ASSUME NEW T, NEW s \in Seq(T), NEW goes
  PROVE  Len(Without(s, goes)) = Cardinality({i \in 1 .. Len(s) : s[i] \notin goes})
<1> DEFINE w == Without(s, goes)
           stay == {i \in 1 .. Len(s) : s[i] \notin goes}
<1>1. w \in Seq(T) /\ \E at : Picks(at, w, s, goes, Len(s))
  BY WithoutPicks
<1> HIDE DEF w
<1>2. PICK at : Picks(at, w, s, goes, Len(s))
  BY <1>1
<1>3. Len(w) \in Nat
  BY <1>1
<1>4. /\ at \in [1 .. Len(w) -> 1 .. Len(s)]
      /\ \A k \in 1 .. Len(w) : s[at[k]] \notin goes
      /\ \A j, k \in 1 .. Len(w) : j < k => at[j] < at[k]
      /\ \A i \in 1 .. Len(s) : s[i] \notin goes => \E k \in 1 .. Len(w) : at[k] = i
  BY <1>2 DEF Picks
<1>5. at \in [1 .. Len(w) -> stay]
  BY <1>4
<1>6. ASSUME NEW j \in 1 .. Len(w), NEW k \in 1 .. Len(w), at[j] = at[k] PROVE j = k
  <2>1. at[j] \in Int
    BY <1>4
  <2>2. QED
    BY <1>3, <1>4, <1>6, <2>1
<1>7. \A i \in stay : \E k \in 1 .. Len(w) : at[k] = i
  BY <1>4
<1>8. at \in Bijection(1 .. Len(w), stay)
  BY <1>5, <1>6, <1>7, Fun_IsBij
<1>9. Cardinality(stay) = Len(w)
  <2> HIDE DEF stay
  <2>1. ExistsBijection(1 .. Len(w), stay)
    BY <1>8 DEF ExistsBijection
  <2>2. QED
    BY <1>3, <2>1, FS_CountingElements
<1>10. QED
  BY <1>9 DEF w

\* A set of numbers has a least member.
LEMMA LeastMember ==
  ASSUME NEW S, S \subseteq Nat, S # {}
  PROVE  \E k \in S : \A j \in S : k <= j
<1> DEFINE R == OpToRel(<, Nat)
<1>1. IsWellFoundedOn(R, Nat)
  BY NatLessThanWellFounded
<1>2. PICK k \in S : \A j \in S : <<j, k>> \notin R
  <2> HIDE DEF R
  <2>1. QED
    BY <1>1, WFMin
<1>3. ASSUME NEW j \in S PROVE k <= j
  <2>1. j \in Nat /\ k \in Nat /\ (j < k => <<j, k>> \in R)
    BY Zenon DEF OpToRel
  <2>2. <<j, k>> \notin R
    BY <1>2
  <2> HIDE DEF R
  <2>3. QED
    BY <2>1, <2>2
<1>4. QED
  BY <1>3

\* The places of the oldest of some entries, as many as e says: all of them, or e.
Oldest(S, e) == {i \in S : Cardinality({j \in S : j <= i}) <= e}

LEMMA OldestOnes ==
  ASSUME NEW n \in Nat, NEW S \in SUBSET (1 .. n), NEW e \in Int
  PROVE  Oldest(S, e) = S \/ Cardinality(Oldest(S, e)) >= e
<1>1. SUFFICES ASSUME Oldest(S, e) # S PROVE Cardinality(Oldest(S, e)) >= e
  OBVIOUS
<1>2. IsFiniteSet(1 .. n)
  BY FS_Interval
<1>3. ASSUME NEW T \in SUBSET S PROVE IsFiniteSet(T) /\ Cardinality(T) \in Nat
  BY <1>2, FS_Subset, FS_CardinalityType
<1> DEFINE left == S \ Oldest(S, e)
<1>0. Oldest(S, e) \subseteq S
  BY DEF Oldest
<1>4. left \subseteq Nat /\ left # {} /\ left \subseteq S
  <2>1. S \subseteq Nat
    OBVIOUS
  <2>2. left # {}
    BY <1>0, <1>1, Zenon
  <2>3. QED
    BY <2>1, <2>2
<1>5. PICK k \in left : \A j \in left : k <= j
  <2> HIDE DEF left
  <2>1. QED
    BY <1>4, LeastMember
<1> DEFINE before == {j \in S : j < k}
           upTo == {j \in S : j <= k}
<1>6. k \in S /\ k \in Nat /\ ~(Cardinality(upTo) <= e)
  BY <1>4, <1>5 DEF Oldest
<1>7. before \subseteq Oldest(S, e)
  <2>1. ASSUME NEW j \in before PROVE j \in Oldest(S, e)
    <3>1. j \in S /\ j \in Nat /\ ~(k <= j)
      BY <1>6
    <3>2. QED
      BY <3>1, <1>5
  <2>2. QED
    BY <2>1
<1>8. upTo = before \cup {k} /\ k \notin before
  <2>1. \A j \in S : j \in Nat
    OBVIOUS
  <2>2. \A j \in S : j <= k <=> (j < k \/ j = k)
    BY <2>1, <1>6
  <2>3. ~(k < k)
    BY <1>6
  <2>4. QED
    BY <2>2, <2>3, <1>6, Zenon
<1>9. before \subseteq S /\ upTo \subseteq S
  OBVIOUS
<1> HIDE DEF before, upTo, left
<1>10. Cardinality(upTo) = Cardinality(before) + 1
  BY <1>3, <1>8, <1>9, FS_AddElement
<1>11. Cardinality(before) <= Cardinality(Oldest(S, e))
  BY <1>0, <1>3, <1>7, <1>9, FS_Subset
<1>12. /\ Cardinality(before) \in Nat /\ Cardinality(upTo) \in Nat
       /\ Cardinality(Oldest(S, e)) \in Nat
  BY <1>0, <1>3, <1>9
<1>13. QED
  BY <1>6, <1>10, <1>11, <1>12
=============================================================================
