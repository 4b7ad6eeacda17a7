------------------------ MODULE ScenarioVerdicts_proofs ------------------------
(* What the fit of a formation finds, and what the verdicts of ScenarioVerdicts *)
(* say, for every scenario and every trace.                                   *)
EXTENDS ScenarioVerdicts, Retention_proofs, SequenceTheorems

-----------------------------------------------------------------------------
(* Least and greatest members, and recursion. *)

\* Every finite set of integers that is not empty has a least and a greatest
\* member: what Min and Max return.
LEMMA Extremes ==
  ASSUME NEW S, S \subseteq Int, IsFiniteSet(S), S # {}
  PROVE  /\ Min(S) \in S /\ \A x \in S : Min(S) <= x
         /\ Max(S) \in S /\ \A x \in S : x <= Max(S)
<1> DEFINE n == Cardinality(S)
<1>1. n \in Nat /\ n # 0 /\ ExistsBijection(1 .. n, S)
  BY FS_CardinalityType, FS_EmptySet
<1> HIDE DEF n
<1>2. PICK f : f \in Bijection(1 .. n, S)
  BY <1>1 DEF ExistsBijection
<1>3. f \in [1 .. n -> S] /\ \A x \in S : \E i \in 1 .. n : f[i] = x
  BY <1>2 DEF Bijection, Injection, Surjection
<1>4. \A i \in 1 .. n : f[i] \in Int
  BY <1>3
<1> DEFINE P == {k \in 0 .. n : k = 0 \/ \E l, g \in 1 .. k : \A j \in 1 .. k : f[l] <= f[j] /\ f[j] <= f[g]}
<1>5. 0 \in P
  BY <1>1
<1>6. ASSUME NEW k \in 1 .. n, k - 1 \in P PROVE k \in P
  <2>1. CASE k = 1
    <3>1. \A j \in 1 .. k : f[k] <= f[j] /\ f[j] <= f[k]
      BY <2>1, <1>4
    <3>2. QED
      BY <3>1
  <2>2. CASE k # 1
    <3>1. PICK l, g \in 1 .. k - 1 : \A j \in 1 .. k - 1 : f[l] <= f[j] /\ f[j] <= f[g]
      BY <1>6, <2>2
    <3> DEFINE low == IF f[k] < f[l] THEN k ELSE l
               high == IF f[k] > f[g] THEN k ELSE g
    <3>2. low \in 1 .. k /\ high \in 1 .. k
      OBVIOUS
    <3>3. ASSUME NEW j \in 1 .. k PROVE f[low] <= f[j] /\ f[j] <= f[high]
      <4>1. f[k] \in Int /\ f[l] \in Int /\ f[g] \in Int /\ f[j] \in Int
        BY <1>1, <1>4
      <4>2. j = k \/ j \in 1 .. k - 1
        OBVIOUS
      <4>3. QED
        BY <3>1, <4>1, <4>2
    <3> HIDE DEF low, high
    <3>4. QED
      BY <3>2, <3>3
  <2>3. QED
    BY <2>1, <2>2
<1>7. n \in P
  <2> HIDE DEF P
  <2>1. \A i \in 0 .. n : i \in P
    BY <1>1, <1>5, <1>6, InductionUpTo
  <2>2. QED
    BY <1>1, <2>1
<1>8. PICK l, g \in 1 .. n : \A j \in 1 .. n : f[l] <= f[j] /\ f[j] <= f[g]
  BY <1>1, <1>7
<1>9. f[l] \in S /\ \A x \in S : f[l] <= x
  BY <1>3, <1>8
<1>10. f[g] \in S /\ \A x \in S : x <= f[g]
  BY <1>3, <1>8
<1>11. Min(S) \in S /\ \A x \in S : Min(S) <= x
  BY <1>9 DEF Min
<1>12. Max(S) \in S /\ \A x \in S : x <= Max(S)
  <2>1. \E m \in S : \A x \in S : m >= x
    BY <1>10
  <2> DEFINE m == CHOOSE m \in S : \A x \in S : m >= x
  <2>2. m \in S /\ \A x \in S : m >= x
    BY <2>1
  <2>3. Max(S) = m
    BY DEF Max
  <2> HIDE DEF m
  <2>4. QED
    BY <2>2, <2>3
<1>13. QED
  BY <1>11, <1>12

\* There is one least member and one greatest.
LEMMA MinIs ==
  ASSUME NEW S, S \subseteq Int, NEW m \in S, \A x \in S : m <= x
  PROVE  Min(S) = m
<1> DEFINE least == CHOOSE y \in S : \A x \in S : y <= x
<1>1. least \in S /\ \A x \in S : least <= x
  OBVIOUS
<1>2. Min(S) = least
  BY DEF Min
<1> HIDE DEF least
<1>3. m \in Int /\ least \in Int /\ m <= least /\ least <= m
  BY <1>1
<1>4. QED
  BY <1>2, <1>3

\* And the greatest.
LEMMA MaxIs ==
  ASSUME NEW S, S \subseteq Int, NEW m \in S, \A x \in S : x <= m
  PROVE  Max(S) = m
<1> DEFINE greatest == CHOOSE y \in S : \A x \in S : y >= x
<1>1. \E y \in S : \A x \in S : y >= x
  OBVIOUS
<1>2. greatest \in S /\ \A x \in S : greatest >= x
  BY <1>1
<1>3. Max(S) = greatest
  BY DEF Max
<1> HIDE DEF greatest
<1>4. m \in Int /\ greatest \in Int /\ m <= greatest /\ greatest <= m
  BY <1>2
<1>5. QED
  BY <1>3, <1>4

\* The values of a function on a finite set are finitely many.
LEMMA FiniteImage ==
  ASSUME NEW T, IsFiniteSet(T), NEW f
  PROVE  IsFiniteSet({f[x] : x \in T})
<1> DEFINE S == {f[x] : x \in T}
           g == [x \in T |-> f[x]]
<1>1. g \in Surjection(T, S)
  BY DEF Surjection
<1> HIDE DEF g, S
<1>2. IsFiniteSet(S)
  BY <1>1, FS_Surjection
<1>3. QED
  BY <1>2 DEF S

\* A recursion that asks only for values of a lower rank defines a function.  G is
\* a set of functions on X that the body F of the definition maps to itself.
Bodies(X, G) == {F \in [G -> G] : \A g \in G : g = [x \in X |-> g[x]]}
AsksBelow(X, G, F, rank) ==
    \A g, h \in G : \A x \in X :
        (\A y \in X : rank[y] < rank[x] => g[y] = h[y]) => F[g][x] = F[h][x]

\* A body that asks only below is that of a function: as many turns as there are ranks
\* reach its fixed point.
LEMMA RecursionByRank ==
  ASSUME NEW X, NEW K \in Nat, NEW rank \in [X -> 0 .. K], NEW G, NEW F \in Bodies(X, G),
         NEW g0 \in G, AsksBelow(X, G, F, rank)
  PROVE  \E g \in G : g = F[g]
<1> DEFINE n == K + 1
           step == [i \in 1 .. n + 1 |-> F]
<1>1. n + 1 \in Nat /\ F \in [G -> G]
  BY DEF Bodies
<1>2. step \in Steps(n + 1, G)
  BY <1>1 DEF Steps
<1>3. \A i \in 1 .. n + 1 : step[i] = F
  OBVIOUS
<1> HIDE DEF step
<1>4. PICK f : f \in Iterations(n + 1, G, g0, step)
  <2> HIDE DEF n
  <2>1. QED
    BY <1>1, <1>2, RecursionUpTo
<1>5. /\ f \in [0 .. n + 1 -> G]
      /\ \A i \in 1 .. n + 1 : f[i] = F[f[i - 1]]
  BY <1>3, <1>4 DEF Iterations
<1> DEFINE P == {k \in 0 .. n : \A x \in X : rank[x] < k => f[k][x] = f[k + 1][x]}
<1>6. 0 \in P
  <2>1. \A x \in X : ~(rank[x] < 0)
    OBVIOUS
  <2>2. QED
    BY <2>1
<1>7. ASSUME NEW k \in 1 .. n, k - 1 \in P PROVE k \in P
  <2>1. k - 1 \in 0 .. n + 1 /\ k \in 0 .. n + 1 /\ k \in 1 .. n + 1 /\ k + 1 \in 1 .. n + 1 /\ k + 1 - 1 = k
        /\ k - 1 + 1 = k
    OBVIOUS
  <2>2. f[k] = F[f[k - 1]] /\ f[k + 1] = F[f[k]] /\ f[k] \in G /\ f[k - 1] \in G
    BY <1>5, <2>1
  <2>3. \A x \in X : rank[x] < k - 1 => f[k - 1][x] = f[k][x]
    BY <1>7, <2>1
  <2>4. ASSUME NEW x \in X, rank[x] < k PROVE f[k][x] = f[k + 1][x]
    <3>1. \A y \in X : rank[y] < rank[x] => rank[y] < k - 1
      BY <2>4
    <3>2. \A y \in X : rank[y] < rank[x] => f[k - 1][y] = f[k][y]
      BY <2>3, <3>1
    <3>3. F[f[k - 1]][x] = F[f[k]][x]
      BY <2>2, <3>2, Zenon DEF AsksBelow
    <3>4. QED
      BY <2>2, <3>3
  <2>5. k \in 0 .. n
    OBVIOUS
  <2>6. QED
    BY <2>4, <2>5
<1>8. n \in P
  <2> HIDE DEF P
  <2>1. \A i \in 0 .. n : i \in P
    BY <1>6, <1>7, InductionUpTo
  <2>2. QED
    BY <2>1
<1>9. \A x \in X : f[n][x] = f[n + 1][x]
  <2>1. \A x \in X : rank[x] < n
    OBVIOUS
  <2>2. QED
    BY <1>8, <2>1
<1>10. f[n] \in G /\ f[n + 1] \in G /\ f[n + 1] = F[f[n]]
  <2>1. n \in 0 .. n + 1 /\ n + 1 \in 1 .. n + 1 /\ n + 1 - 1 = n
    OBVIOUS
  <2>2. QED
    BY <1>5, <2>1
<1>11. f[n] = f[n + 1]
  <2> HIDE DEF n
  <2>1. f[n] = [x \in X |-> f[n][x]] /\ f[n + 1] = [x \in X |-> f[n + 1][x]]
    BY <1>10 DEF Bodies
  <2>2. QED
    BY <1>9, <2>1, Zenon
<1>12. QED
  BY <1>10, <1>11

-----------------------------------------------------------------------------
(* The search for a column. *)

\* A function on 1 .. n is a sequence of that length.
LEMMA Sequence ==
  ASSUME NEW n \in Nat, NEW S, NEW f \in [1 .. n -> S]
  PROVE  f \in Seq(S) /\ Len(f) = n
OBVIOUS

Matrices(n) == [1 .. n -> [1 .. n -> BOOLEAN]]

\* The attempt made for the row that holds the column, what it comes to, and the
\* next column for the row.
Marked(x) == [x.s EXCEPT !.seen = @ \cup {x.column}]
Displaced(x) == Attempt(x.s.row_of[x.column], 1, Marked(x))
Freed(g, x) ==
    IF x.s.row_of[x.column] = Unheld THEN [Marked(x) EXCEPT !.found = TRUE] ELSE g[Displaced(x)]
Onward(x, s) == Attempt(x.row, x.column + 1, s)
Taken(x, s) == [s EXCEPT !.row_of[x.column] = x.row]
Passed(allowed, x) == x.column \in x.s.seen \/ ~allowed[x.row][x.column]

\* TryColumn in these terms.
LEMMA TryColumnIs ==
  ASSUME NEW n \in Nat, NEW allowed \in Matrices(n), NEW g, NEW x
  PROVE  TryColumn(allowed, g, x) =
           IF x.column > n THEN x.s
           ELSE IF Passed(allowed, x) THEN g[Onward(x, x.s)]
           ELSE IF Freed(g, x).found THEN Taken(x, Freed(g, x))
           ELSE g[Onward(x, Freed(g, x))]
<1>1. Len(allowed) = n
  BY Sequence DEF Matrices
<1>2. QED
  BY <1>1 DEF TryColumn, Passed, Freed, Marked, Displaced, Onward, Taken

\* Searches that forget no column they saw.
Keepers(n) == {g \in [Attempts(n) -> Searches(n)] : \A x \in Attempts(n) : x.s.seen \subseteq g[x].seen}

\* What an attempt holds.
LEMMA AttemptHolds ==
  ASSUME NEW n \in Nat, NEW x \in Attempts(n)
  PROVE  /\ x.s \in Searches(n) /\ x.row \in 1 .. n /\ x.column \in 1 .. n + 1
         /\ x.s.row_of \in [1 .. n -> 0 .. n] /\ x.s.seen \subseteq 1 .. n
         /\ x.column <= n => x.column \in 1 .. n /\ x.s.row_of[x.column] \in 0 .. n
<1>1. x.s \in Searches(n) /\ x.row \in 1 .. n /\ x.column \in 1 .. n + 1
  BY DEF Attempts
<1>2. x.s.row_of \in [1 .. n -> 0 .. n] /\ x.s.seen \subseteq 1 .. n
  BY <1>1 DEF Searches
<1>3. QED
  BY <1>1, <1>2

\* The column of the attempt is marked as seen, and nothing else changes.
LEMMA MarkedIs ==
  ASSUME NEW n \in Nat, NEW x \in Attempts(n), x.column <= n
  PROVE  /\ Marked(x) \in Searches(n) /\ Marked(x).seen = x.s.seen \cup {x.column}
         /\ Marked(x).row_of = x.s.row_of /\ Marked(x).found = x.s.found
         /\ [Marked(x) EXCEPT !.found = TRUE] \in Searches(n)
         /\ [Marked(x) EXCEPT !.found = TRUE].seen = Marked(x).seen
         /\ [Marked(x) EXCEPT !.found = TRUE].row_of = Marked(x).row_of
         /\ [Marked(x) EXCEPT !.found = TRUE].found
<1>1. Marked(x) \in Searches(n) /\ Marked(x).seen = x.s.seen \cup {x.column}
         /\ Marked(x).row_of = x.s.row_of /\ Marked(x).found = x.s.found
  BY AttemptHolds DEF Searches, Marked
<1>2. QED
  BY <1>1 DEF Searches

\* The attempt that goes on from the next column.
LEMMA OnwardIs ==
  ASSUME NEW n \in Nat, NEW x \in Attempts(n), x.column <= n, NEW s \in Searches(n)
  PROVE  /\ Onward(x, s) \in Attempts(n) /\ Onward(x, s).s = s
         /\ Onward(x, s).row = x.row /\ Onward(x, s).column = x.column + 1
BY AttemptHolds DEF Attempts, Onward, Attempt

\* The attempt for the row that holds the column.
LEMMA DisplacedIs ==
  ASSUME NEW n \in Nat, NEW x \in Attempts(n), x.column <= n, x.s.row_of[x.column] # Unheld
  PROVE  /\ Displaced(x) \in Attempts(n) /\ Displaced(x).s = Marked(x)
         /\ Displaced(x).row = x.s.row_of[x.column] /\ Displaced(x).column = 1
<1>1. x.s.row_of[x.column] \in 1 .. n /\ 1 \in 1 .. n + 1 /\ Marked(x) \in Searches(n)
  <2>1. x.s.row_of[x.column] \in 0 .. n /\ 1 \in 1 .. n + 1
    BY AttemptHolds
  <2>2. Marked(x) \in Searches(n)
    BY MarkedIs
  <2>3. QED
    BY <2>1, <2>2 DEF Unheld
<1>2. QED
  BY <1>1 DEF Attempts, Displaced, Attempt

\* The row takes the column.
LEMMA TakenIs ==
  ASSUME NEW n \in Nat, NEW x \in Attempts(n), x.column <= n, NEW s \in Searches(n)
  PROVE  /\ Taken(x, s) \in Searches(n) /\ Taken(x, s).seen = s.seen
         /\ Taken(x, s).found = s.found
         /\ Taken(x, s).row_of = [s.row_of EXCEPT ![x.column] = x.row]
<1>1. s.row_of \in [1 .. n -> 0 .. n]
  BY DEF Searches
<1>2. [s.row_of EXCEPT ![x.column] = x.row] \in [1 .. n -> 0 .. n]
  BY <1>1, AttemptHolds
<1>3. QED
  BY <1>2 DEF Taken, Searches

\* A turn keeps what was seen, if the attempts it makes do.
LEMMA TurnKeeps ==
  ASSUME NEW n \in Nat, NEW allowed \in Matrices(n), NEW g \in Keepers(n), NEW x \in Attempts(n)
  PROVE  /\ TryColumn(allowed, g, x) \in Searches(n)
         /\ x.s.seen \subseteq TryColumn(allowed, g, x).seen
         /\ x.column <= n => /\ Freed(g, x) \in Searches(n)
                             /\ x.s.seen \cup {x.column} \subseteq Freed(g, x).seen
<1>1. CASE x.column > n
  <2>1. x.s \in Searches(n) /\ ~(x.column <= n)
    BY <1>1, AttemptHolds
  <2>2. QED
    BY <1>1, <2>1, TryColumnIs
<1>2. CASE x.column <= n
  <2>1. \A y \in Attempts(n) : g[y] \in Searches(n) /\ y.s.seen \subseteq g[y].seen
    BY DEF Keepers
  <2>2. Freed(g, x) \in Searches(n) /\ x.s.seen \cup {x.column} \subseteq Freed(g, x).seen
    <3>1. CASE x.s.row_of[x.column] = Unheld
      <4>1. Freed(g, x) = [Marked(x) EXCEPT !.found = TRUE]
        BY <3>1 DEF Freed
      <4>2. QED
        BY <1>2, <4>1, MarkedIs
    <3>2. CASE x.s.row_of[x.column] # Unheld
      <4>1. Freed(g, x) = g[Displaced(x)] /\ Displaced(x) \in Attempts(n) /\ Displaced(x).s = Marked(x)
        BY <1>2, <3>2, DisplacedIs DEF Freed
      <4>2. Marked(x).seen = x.s.seen \cup {x.column}
        BY <1>2, MarkedIs
      <4>3. QED
        BY <2>1, <4>1, <4>2
    <3>3. QED
      BY <3>1, <3>2
  <2>3. ASSUME NEW t \in Searches(n)
        PROVE  g[Onward(x, t)] \in Searches(n) /\ t.seen \subseteq g[Onward(x, t)].seen
    BY <1>2, <2>1, OnwardIs
  <2>4. ~(x.column > n)
    BY <1>2, AttemptHolds
  <2>5. Taken(x, Freed(g, x)) \in Searches(n) /\ Taken(x, Freed(g, x)).seen = Freed(g, x).seen
    BY <1>2, <2>2, TakenIs
  <2>6. x.s \in Searches(n)
    BY AttemptHolds
  <2>7. QED
    BY <2>2, <2>3, <2>4, <2>5, <2>6, TryColumnIs
<1>3. QED
  BY <1>1, <1>2, AttemptHolds

\* How much of the search may be left: the columns not seen, then those not tried.
Rank(n, x) == Cardinality((1 .. n) \ x.s.seen) * (n + 2) + (n + 1 - x.column)
Ranked(n) == [x \in Attempts(n) |-> Rank(n, x)]

\* The columns that are not seen, when some more are.
LEMMA UnseenColumns ==
  ASSUME NEW n \in Nat, NEW A, NEW B, A \subseteq B, B \subseteq 1 .. n
  PROVE  /\ Cardinality((1 .. n) \ B) \in 0 .. n
         /\ Cardinality((1 .. n) \ B) <= Cardinality((1 .. n) \ A)
         /\ \A c \in B : c \notin A => Cardinality((1 .. n) \ B) + 1 <= Cardinality((1 .. n) \ A)
<1>1. IsFiniteSet(1 .. n) /\ Cardinality(1 .. n) = n
  BY FS_Interval
<1> DEFINE N == 1 .. n
<1> HIDE DEF N
<1>2. IsFiniteSet(N \ A) /\ IsFiniteSet(N \ B) /\ Cardinality(N \ B) <= n
  BY <1>1, FS_Subset DEF N
<1>3. Cardinality(N \ A) \in Nat /\ Cardinality(N \ B) \in Nat
  BY <1>2, FS_CardinalityType
<1>4. Cardinality(N \ B) <= Cardinality(N \ A)
  BY <1>2, FS_Subset
<1>5. ASSUME NEW c \in B, c \notin A PROVE Cardinality(N \ B) + 1 <= Cardinality(N \ A)
  <2>1. c \in N \ A /\ N \ B \subseteq (N \ A) \ {c}
    BY <1>5 DEF N
  <2>2. IsFiniteSet((N \ A) \ {c}) /\ Cardinality((N \ A) \ {c}) = Cardinality(N \ A) - 1
    BY <1>2, <2>1, FS_RemoveElement
  <2>3. Cardinality(N \ B) <= Cardinality((N \ A) \ {c})
    BY <2>1, <2>2, FS_Subset
  <2>4. QED
    BY <1>3, <2>2, <2>3
<1>6. QED
  BY <1>2, <1>3, <1>4, <1>5 DEF N

\* More columns seen weigh more than any number of columns tried.
LEMMA Weights ==
  ASSUME NEW n \in Nat, NEW a \in Nat, NEW b \in Nat
  PROVE  /\ a <= b => a * (n + 2) <= b * (n + 2)
         /\ a + 1 <= b => a * (n + 2) + (n + 2) <= b * (n + 2)
         /\ a * (n + 2) \in Nat
<1> DEFINE w == n + 2
<1>1. w \in Nat
  OBVIOUS
<1> HIDE DEF w
<1>2. a * w \in Nat /\ b * w \in Nat
  BY <1>1
<1>3. a <= b => (b - a) * w \in Nat /\ (b - a) * w = b * w - a * w
  BY <1>1
<1>4. a + 1 <= b => (b - a - 1) * w \in Nat /\ (b - a - 1) * w = b * w - a * w - w
  BY <1>1
<1>5. a <= b => a * w <= b * w
  BY <1>2, <1>3
<1>6. a + 1 <= b => a * w + w <= b * w
  BY <1>1, <1>2, <1>4
<1>7. QED
  BY <1>2, <1>5, <1>6 DEF w

\* Every attempt a turn makes has less of the search left.
LEMMA RankFalls ==
  ASSUME NEW n \in Nat, NEW x \in Attempts(n), NEW y \in Attempts(n), x.column <= n,
         \/ x.s.seen \subseteq y.s.seen /\ y.column = x.column + 1
         \/ \E c \in y.s.seen : x.s.seen \subseteq y.s.seen /\ c \notin x.s.seen
  PROVE  Rank(n, y) < Rank(n, x)
<1> DEFINE a == Cardinality((1 .. n) \ y.s.seen)
           b == Cardinality((1 .. n) \ x.s.seen)
<1>1. x.s.seen \subseteq 1 .. n /\ y.s.seen \subseteq 1 .. n /\ x.column \in 1 .. n + 1 /\ y.column \in 1 .. n + 1
  BY AttemptHolds
<1>2. a \in 0 .. n /\ b \in 0 .. n
  BY <1>1, UnseenColumns
<1>3. x.s.seen \subseteq y.s.seen => a <= b
  BY <1>1, UnseenColumns
<1>4. \A c \in y.s.seen : x.s.seen \subseteq y.s.seen /\ c \notin x.s.seen => a + 1 <= b
  BY <1>1, UnseenColumns
<1>5. Rank(n, y) = a * (n + 2) + (n + 1 - y.column) /\ Rank(n, x) = b * (n + 2) + (n + 1 - x.column)
  BY DEF Rank
<1> DEFINE p == a * (n + 2)
           q == b * (n + 2)
<1>6. /\ p \in Nat /\ q \in Nat
      /\ a <= b => p <= q
      /\ a + 1 <= b => p + (n + 2) <= q
  BY <1>2, Weights
<1> HIDE DEF a, b
<1>7. Rank(n, y) = p + (n + 1 - y.column) /\ Rank(n, x) = q + (n + 1 - x.column)
  BY <1>5
<1> HIDE DEF p, q
<1>8. CASE x.s.seen \subseteq y.s.seen /\ y.column = x.column + 1
  BY <1>1, <1>3, <1>6, <1>7, <1>8
<1>9. CASE a + 1 <= b
  BY <1>1, <1>6, <1>7, <1>9
<1>10. QED
  BY <1>4, <1>8, <1>9

\* The rank is a number of a bounded range.
LEMMA RanksAreBounded ==
  ASSUME NEW n \in Nat
  PROVE  Ranked(n) \in [Attempts(n) -> 0 .. n * (n + 2) + n]
<1>1. ASSUME NEW x \in Attempts(n) PROVE Rank(n, x) \in 0 .. n * (n + 2) + n
  <2> DEFINE b == Cardinality((1 .. n) \ x.s.seen)
             q == b * (n + 2)
             w == n * (n + 2)
  <2>1. x.s.seen \subseteq 1 .. n /\ x.column \in 1 .. n + 1
    BY AttemptHolds
  <2>2. b \in 0 .. n
    BY <2>1, UnseenColumns
  <2>3. Rank(n, x) = q + (n + 1 - x.column)
    BY DEF Rank
  <2> HIDE DEF b
  <2>4. q \in Nat /\ w \in Nat /\ q <= w
    BY <2>2, Weights
  <2> HIDE DEF q
  <2>5. QED
    BY <2>1, <2>3, <2>4
<1>2. QED
  BY <1>1 DEF Ranked

\* A turn asks only for attempts with less of the search left.
LEMMA TurnAsksBelow ==
  ASSUME NEW n \in Nat, NEW allowed \in Matrices(n), NEW g \in Keepers(n), NEW h,
         NEW x \in Attempts(n),
         \A y \in Attempts(n) : Rank(n, y) < Rank(n, x) => g[y] = h[y]
  PROVE  TryColumn(allowed, g, x) = TryColumn(allowed, h, x)
<1>1. CASE x.column > n
  BY <1>1, TryColumnIs
<1>2. CASE x.column <= n
  <2>1. ~(x.column > n) /\ x.column \in 1 .. n
    BY <1>2, AttemptHolds
  <2>2. ASSUME NEW s \in Searches(n), x.s.seen \subseteq s.seen PROVE g[Onward(x, s)] = h[Onward(x, s)]
    <3>1. /\ Onward(x, s) \in Attempts(n) /\ Onward(x, s).s = s
          /\ Onward(x, s).column = x.column + 1
      BY <1>2, OnwardIs
    <3>2. Rank(n, Onward(x, s)) < Rank(n, x)
      BY <1>2, <2>2, <3>1, RankFalls
    <3>3. QED
      BY <3>1, <3>2
  <2>3. CASE Passed(allowed, x)
    <3>1. g[Onward(x, x.s)] = h[Onward(x, x.s)]
      BY <2>2, AttemptHolds
    <3>2. QED
      BY <2>1, <2>3, <3>1, TryColumnIs
  <2>4. CASE ~Passed(allowed, x)
    <3>1. x.column \notin x.s.seen
      BY <2>4 DEF Passed
    <3>2. Freed(g, x) = Freed(h, x)
      <4>1. CASE x.s.row_of[x.column] = Unheld
        BY <4>1 DEF Freed
      <4>2. CASE x.s.row_of[x.column] # Unheld
        <5>1. Displaced(x) \in Attempts(n) /\ Displaced(x).s = Marked(x)
          BY <1>2, <4>2, DisplacedIs
        <5>2. Marked(x).seen = x.s.seen \cup {x.column}
          BY <1>2, MarkedIs
        <5>3. Rank(n, Displaced(x)) < Rank(n, x)
          BY <1>2, <3>1, <5>1, <5>2, RankFalls
        <5>4. QED
          BY <4>2, <5>1, <5>3 DEF Freed
      <4>3. QED
        BY <4>1, <4>2
    <3>3. Freed(g, x) \in Searches(n) /\ x.s.seen \subseteq Freed(g, x).seen
      BY <1>2, TurnKeeps
    <3>4. g[Onward(x, Freed(g, x))] = h[Onward(x, Freed(g, x))]
      BY <2>2, <3>3
    <3>5. QED
      BY <2>1, <2>4, <3>2, <3>4, TryColumnIs
  <2>5. QED
    BY <2>3, <2>4
<1>3. QED
  BY <1>1, <1>2, AttemptHolds

\* The search as Augment defines it: it makes the attempts of TryColumn.
IsSearch(allowed, n, augment) ==
    /\ augment \in Keepers(n)
    /\ \A x \in Attempts(n) : augment[x] = TryColumn(allowed, augment, x)

\* The recursion of Augment defines a function.
LEMMA SearchEnds ==
  ASSUME NEW n \in Nat, NEW allowed \in Matrices(n)
  PROVE  \E augment : /\ IsSearch(allowed, n, augment)
                      /\ \A row, s : Augment(allowed, row, s) = augment[Attempt(row, 1, s)]
<1> DEFINE X == Attempts(n)
           G == Keepers(n)
           Body(g) == [x \in X |-> TryColumn(allowed, g, x)]
           F == [g \in G |-> Body(g)]
           g0 == [x \in X |-> x.s]
           K == n * (n + 2) + n
           rank == Ranked(n)
<1>1. g0 \in G
  <2>1. \A x \in X : x.s \in Searches(n)
    BY AttemptHolds
  <2>2. QED
    BY <2>1 DEF Keepers
<1>2. ASSUME NEW g \in G PROVE Body(g) \in G
  <2>1. ASSUME NEW x \in X
        PROVE  TryColumn(allowed, g, x) \in Searches(n) /\ x.s.seen \subseteq TryColumn(allowed, g, x).seen
    BY TurnKeeps
  <2>2. QED
    BY <2>1 DEF Keepers
<1>3. F \in Bodies(X, G)
  <2>1. \A g \in G : g = [x \in X |-> g[x]]
    BY DEF Keepers
  <2>2. F \in [G -> G]
    BY <1>2
  <2> HIDE DEF F, G, X
  <2>3. QED
    BY <2>1, <2>2 DEF Bodies
<1>4. AsksBelow(X, G, F, rank)
  <2> SUFFICES ASSUME NEW g \in G, NEW h \in G, NEW x \in X,
                      \A y \in X : rank[y] < rank[x] => g[y] = h[y]
               PROVE  F[g][x] = F[h][x]
    BY DEF AsksBelow
  <2>1. F[g][x] = TryColumn(allowed, g, x) /\ F[h][x] = TryColumn(allowed, h, x)
    OBVIOUS
  <2>2. \A y \in X : Rank(n, y) < Rank(n, x) => g[y] = h[y]
    BY DEF Ranked
  <2>3. TryColumn(allowed, g, x) = TryColumn(allowed, h, x)
    BY <2>2, TurnAsksBelow
  <2>4. QED
    BY <2>1, <2>3
<1>5. K \in Nat /\ rank \in [X -> 0 .. K]
  BY RanksAreBounded, Weights
<1>6. \E g \in G : g = F[g]
  <2> HIDE DEF F, G, X, rank, K, g0
  <2>1. QED
    BY <1>1, <1>3, <1>4, <1>5, RecursionByRank
<1>7. PICK g \in G : g = Body(g)
  BY <1>6
<1> DEFINE augment == CHOOSE f : f = Body(f)
<1>8. augment = Body(augment)
  BY <1>7
<1> HIDE DEF augment
<1>9. \A x \in X : g[x] = TryColumn(allowed, g, x) /\ augment[x] = TryColumn(allowed, augment, x)
  BY <1>7, <1>8
<1>10. \A x \in X : g[x] = augment[x]
  <2> DEFINE P == {k \in 0 .. K + 1 : \A x \in X : rank[x] < k => g[x] = augment[x]}
  <2>1. 0 \in P
    <3> HIDE DEF K, rank, X
    <3>1. \A x \in X : ~(rank[x] < 0)
      BY <1>5
    <3>2. QED
      BY <1>5, <3>1
  <2>2. ASSUME NEW k \in 1 .. K + 1, k - 1 \in P PROVE k \in P
    <3>1. \A y \in X : rank[y] < k - 1 => g[y] = augment[y]
      BY <2>2
    <3>2. ASSUME NEW x \in X, rank[x] < k PROVE g[x] = augment[x]
      <4>1. \A y \in X : Rank(n, y) < Rank(n, x) => rank[y] < k - 1
        <5>1. \A y \in X : rank[y] = Rank(n, y)
          BY DEF Ranked
        <5> HIDE DEF K, rank, X
        <5>2. \A y \in X : rank[y] \in Int
          BY <1>5
        <5>3. QED
          BY <1>5, <3>2, <5>1, <5>2
      <4>2. \A y \in Attempts(n) : Rank(n, y) < Rank(n, x) => g[y] = augment[y]
        BY <3>1, <4>1
      <4>3. TryColumn(allowed, g, x) = TryColumn(allowed, augment, x)
        BY <4>2, TurnAsksBelow
      <4>4. QED
        BY <1>9, <4>3
    <3> HIDE DEF rank, X
    <3>3. k \in 0 .. K + 1
      BY <1>5
    <3>4. QED
      BY <3>2, <3>3
  <2>3. \A k \in 0 .. K + 1 : k \in P
    <3> HIDE DEF P, K
    <3>1. K + 1 \in Nat
      BY <1>5
    <3> DEFINE m == K + 1
    <3> HIDE DEF m
    <3>2. QED
      BY <2>1, <2>2, <3>1, InductionUpTo DEF m
  <2> HIDE DEF K, rank, X
  <2>4. K + 1 \in 0 .. K + 1 /\ \A x \in X : rank[x] < K + 1
    BY <1>5
  <2>5. QED
    BY <2>3, <2>4
<1>11. augment = g
  <2>1. augment = [x \in X |-> augment[x]] /\ g = [x \in X |-> g[x]]
    BY <1>8 DEF Keepers
  <2> HIDE DEF X
  <2>2. QED
    BY <1>10, <2>1, Zenon
<1>12. IsSearch(allowed, n, augment)
  BY <1>9, <1>11 DEF IsSearch
<1>13. \A row, s : Augment(allowed, row, s) = augment[Attempt(row, 1, s)]
  <2>1. Len(allowed) = n
    BY Sequence DEF Matrices
  <2>2. QED
    BY <2>1, Zenon DEF Augment, augment
<1>14. QED
  BY <1>12, <1>13

-----------------------------------------------------------------------------
(* What a search finds. *)

\* Columns held by rows that may hold them, no two by the same row.
Fits(allowed, f, U) ==
    /\ \A c \in U : f[c] # Unheld => allowed[f[c]][c]
    /\ \A c, d \in U : c # d /\ f[c] # Unheld => f[c] # f[d]
Holds(f, U, r) == \E c \in U : f[c] = r
\* One more row holds a column.
Gained(n, f, h, U, row) == \A r \in 1 .. n : Holds(h, U, r) <=> Holds(f, U, r) \/ r = row

\* A column that is free is taken.
LEMMA TakingFree ==
  ASSUME NEW n \in Nat, NEW allowed, NEW f \in [1 .. n -> 0 .. n], NEW U \in SUBSET (1 .. n), Fits(allowed, f, U),
         NEW col \in U, f[col] = Unheld, NEW row \in 1 .. n, ~Holds(f, U, row), allowed[row][col],
         NEW h, h = [f EXCEPT ![col] = row]
  PROVE  Fits(allowed, h, U) /\ Gained(n, f, h, U, row)
<1>1. h[col] = row /\ \A c \in U : c # col => h[c] = f[c]
  OBVIOUS
<1>2. Fits(allowed, h, U)
  BY <1>1 DEF Fits, Holds
<1>3. Gained(n, f, h, U, row)
  <2> SUFFICES ASSUME NEW r \in 1 .. n PROVE Holds(h, U, r) <=> Holds(f, U, r) \/ r = row
    BY DEF Gained
  <2>1. Holds(h, U, r) => Holds(f, U, r) \/ r = row
    BY <1>1 DEF Holds
  <2>2. Holds(f, U, r) => Holds(h, U, r)
    BY <1>1 DEF Holds, Unheld
  <2>3. Holds(h, U, row)
    BY <1>1 DEF Holds
  <2>4. QED
    BY <2>1, <2>2, <2>3
<1>4. QED
  BY <1>2, <1>3

\* A column that is held is taken, and the row that held it holds another.
LEMMA TakingHeld ==
  ASSUME NEW n \in Nat, NEW allowed, NEW f \in [1 .. n -> 0 .. n], NEW U \in SUBSET (1 .. n), Fits(allowed, f, U),
         NEW col \in U, f[col] # Unheld, NEW row \in 1 .. n, ~Holds(f, U, row), allowed[row][col],
         NEW g \in [1 .. n -> 0 .. n], Fits(allowed, g, U \ {col}),
         Gained(n, f, g, U \ {col}, f[col]), NEW h, h = [g EXCEPT ![col] = row]
  PROVE  Fits(allowed, h, U) /\ Gained(n, f, h, U, row)
<1> DEFINE V == U \ {col}
<1>1. h[col] = row /\ \A c \in V : h[c] = g[c]
  OBVIOUS
<1>2. f[col] \in 1 .. n
  BY DEF Unheld
<1>3. \A r \in 1 .. n : Holds(g, V, r) <=> Holds(f, U, r)
  <2> SUFFICES ASSUME NEW r \in 1 .. n PROVE Holds(g, V, r) <=> Holds(f, U, r)
    OBVIOUS
  <2>1. Holds(g, V, r) <=> Holds(f, V, r) \/ r = f[col]
    BY DEF Gained
  <2>2. Holds(f, U, r) <=> Holds(f, V, r) \/ r = f[col]
    BY DEF Holds
  <2>3. QED
    BY <2>1, <2>2
<1>4. \A c \in V : g[c] # row
  BY <1>3 DEF Holds
<1>5. Fits(allowed, h, U)
  BY <1>1, <1>4 DEF Fits
<1>6. \A r \in 1 .. n : Holds(h, U, r) <=> Holds(g, V, r) \/ r = row
  BY <1>1 DEF Holds
<1>7. Gained(n, f, h, U, row)
  BY <1>3, <1>6 DEF Gained
<1>8. QED
  BY <1>5, <1>7

\* The columns seen in vain are left to the rows that hold them.
LEMMA TakingLater ==
  ASSUME NEW n \in Nat, NEW allowed, NEW f \in [1 .. n -> 0 .. n], NEW U \in SUBSET (1 .. n), Fits(allowed, f, U),
         NEW row \in 1 .. n, ~Holds(f, U, row), NEW V \in SUBSET U,
         NEW h \in [1 .. n -> 0 .. n], Fits(allowed, h, V), Gained(n, f, h, V, row),
         \A c \in U \ V : h[c] = f[c]
  PROVE  Fits(allowed, h, U) /\ Gained(n, f, h, U, row)
<1>1. ASSUME NEW c \in V, NEW d \in U \ V, h[c] # Unheld PROVE h[c] # h[d]
  <2>1. h[c] \in 1 .. n /\ Holds(h, V, h[c])
    BY <1>1 DEF Unheld, Holds
  <2>2. Holds(f, V, h[c]) \/ h[c] = row
    BY <2>1 DEF Gained
  <2>3. CASE h[c] = row
    BY <2>3 DEF Holds
  <2>4. CASE Holds(f, V, h[c])
    <3>1. PICK b \in V : f[b] = h[c]
      BY <2>4 DEF Holds
    <3>2. QED
      BY <1>1, <3>1 DEF Fits
  <2>5. QED
    BY <2>2, <2>3, <2>4
<1>2. ASSUME NEW c \in U, NEW d \in U, c # d, h[c] # Unheld PROVE h[c] # h[d]
  <2>1. CASE c \in V /\ d \in V
    BY <1>2, <2>1 DEF Fits
  <2>2. CASE c \in V /\ d \notin V
    BY <1>1, <1>2, <2>2
  <2>3. CASE c \notin V /\ d \in V
    <3>1. CASE h[d] = Unheld
      BY <1>2, <3>1
    <3>2. CASE h[d] # Unheld
      BY <1>1, <2>3, <3>2
    <3>3. QED
      BY <3>1, <3>2
  <2>4. CASE c \notin V /\ d \notin V
    BY <1>2, <2>4 DEF Fits
  <2>5. QED
    BY <2>1, <2>2, <2>3, <2>4
<1>3. \A c \in U : h[c] # Unheld => allowed[h[c]][c]
  BY DEF Fits
<1>4. \A r \in 1 .. n : Holds(h, U, r) <=> Holds(h, V, r) \/ Holds(f, U \ V, r)
  BY DEF Holds
<1>5. \A r \in 1 .. n : Holds(f, U, r) <=> Holds(f, V, r) \/ Holds(f, U \ V, r)
  BY DEF Holds
<1>6. Gained(n, f, h, U, row)
  BY <1>4, <1>5 DEF Gained
<1>7. QED
  BY <1>2, <1>3, <1>6 DEF Fits

\* A row that found a column: columns seen before are as they were, and one more
\* row holds a column of the others.
Succeeds(allowed, n, x, r) ==
    LET U == (1 .. n) \ x.s.seen
    IN  /\ \A c \in x.s.seen : r.row_of[c] = x.s.row_of[c]
        /\ Fits(allowed, x.s.row_of, U) /\ ~Holds(x.s.row_of, U, x.row)
             => Fits(allowed, r.row_of, U) /\ Gained(n, x.s.row_of, r.row_of, U, x.row)

\* Columns W are held by rows that may hold none but columns seen.
Closed(allowed, n, f, W, seen) ==
    \A c \in W : f[c] # Unheld /\ \A d \in 1 .. n : allowed[f[c]][d] => d \in seen

\* A row that found none: nothing moved, and neither it nor a row whose column was
\* looked at can have a column that was not.
Fails(allowed, n, x, r) ==
    /\ r.row_of = x.s.row_of
    /\ \A c \in 1 .. n : c >= x.column /\ allowed[x.row][c] => c \in r.seen
    /\ Closed(allowed, n, x.s.row_of, r.seen \ x.s.seen, r.seen)

Searched(allowed, n, x, r) ==
    ~x.s.found => IF r.found THEN Succeeds(allowed, n, x, r) ELSE Fails(allowed, n, x, r)

\* One turn of the search does so if those it asks for do.
LEMMA TurnSearches ==
  ASSUME NEW n \in Nat, NEW allowed \in Matrices(n), NEW g \in Keepers(n), NEW x \in Attempts(n),
         \A y \in Attempts(n) : Rank(n, y) < Rank(n, x) => Searched(allowed, n, y, g[y])
  PROVE  Searched(allowed, n, x, TryColumn(allowed, g, x))
<1> SUFFICES ASSUME ~x.s.found
             PROVE  LET r == TryColumn(allowed, g, x)
                    IN  IF r.found THEN Succeeds(allowed, n, x, r) ELSE Fails(allowed, n, x, r)
  BY DEF Searched
<1> DEFINE r == TryColumn(allowed, g, x)
           f == x.s.row_of
           col == x.column
           U == (1 .. n) \ x.s.seen
<1>a. \A y \in Attempts(n) : g[y] \in Searches(n) /\ y.s.seen \subseteq g[y].seen
  BY DEF Keepers
<1>b. /\ x.s \in Searches(n) /\ x.row \in 1 .. n /\ col \in 1 .. n + 1
      /\ f \in [1 .. n -> 0 .. n] /\ x.s.seen \subseteq 1 .. n
  BY AttemptHolds
<1>c. r \in Searches(n) /\ x.s.seen \subseteq r.seen
  BY TurnKeeps
<1>1. CASE col > n
  <2>1. r = x.s
    BY <1>1, TryColumnIs
  <2>2. Fails(allowed, n, x, r)
    BY <1>1, <1>b, <2>1 DEF Fails, Closed
  <2>3. QED
    BY <2>1, <2>2
<1>2. CASE col <= n /\ Passed(allowed, x)
  <2> DEFINE y == Onward(x, x.s)
  <2>1. y \in Attempts(n) /\ y.s = x.s /\ y.row = x.row /\ y.column = col + 1
    BY <1>2, <1>b, OnwardIs
  <2>2. Rank(n, y) < Rank(n, x)
    BY <1>2, <2>1, RankFalls
  <2>3. r = g[y]
    BY <1>2, <1>b, TryColumnIs
  <2> HIDE DEF r, y
  <2>4. Searched(allowed, n, y, r)
    BY <2>1, <2>2, <2>3
  <2>5. r.found => Succeeds(allowed, n, y, r)
    BY <2>1, <2>4 DEF Searched
  <2>6. ~r.found => Fails(allowed, n, y, r)
    BY <2>1, <2>4 DEF Searched
  <2>7. r.found => Succeeds(allowed, n, x, r)
    BY <2>1, <2>5 DEF Succeeds
  <2>8. ASSUME ~r.found PROVE Fails(allowed, n, x, r)
    <3>1. ASSUME NEW c \in 1 .. n, c >= col, allowed[x.row][c] PROVE c \in r.seen
      <4>1. CASE c >= col + 1
        BY <2>1, <2>6, <2>8, <3>1, <4>1 DEF Fails
      <4>2. CASE c = col
        BY <1>2, <1>c, <3>1, <4>2 DEF Passed, r
      <4>3. QED
        BY <1>b, <3>1, <4>1, <4>2
    <3>2. QED
      BY <2>1, <2>6, <2>8, <3>1 DEF Fails
  <2>9. QED
    BY <2>7, <2>8 DEF r
<1>3. CASE col <= n /\ ~Passed(allowed, x)
  <2> DEFINE freed == Freed(g, x)
             z == Displaced(x)
             y == Onward(x, freed)
  <2>1. col \in 1 .. n /\ col \notin x.s.seen /\ allowed[x.row][col] /\ col \in U
    BY <1>3, <1>b DEF Passed
  <2>2. freed \in Searches(n) /\ x.s.seen \cup {col} \subseteq freed.seen
    BY <1>3, TurnKeeps
  <2>3. r = IF freed.found THEN Taken(x, freed) ELSE g[y]
    BY <1>3, <1>b, TryColumnIs
  <2>4. freed.row_of \in [1 .. n -> 0 .. n] /\ freed.seen \subseteq 1 .. n
    BY <2>2 DEF Searches
  <2>5. Marked(x).seen = x.s.seen \cup {col} /\ Marked(x).row_of = f /\ ~Marked(x).found
    BY <1>3, MarkedIs
  <2>6. CASE freed.found
    <3>1. /\ r.row_of = [freed.row_of EXCEPT ![col] = x.row]
          /\ r.found
      BY <1>3, <2>2, <2>3, <2>6, TakenIs
    <3> HIDE DEF r, freed
    <3>2. CASE f[col] = Unheld
      <4>1. freed.row_of = f
        BY <1>3, <3>2, MarkedIs DEF Freed, freed
      <4>2. ASSUME Fits(allowed, f, U), ~Holds(f, U, x.row)
            PROVE  Fits(allowed, r.row_of, U) /\ Gained(n, f, r.row_of, U, x.row)
        <5>1. U \in SUBSET (1 .. n) /\ r.row_of = [f EXCEPT ![col] = x.row]
          BY <3>1, <4>1
        <5> HIDE DEF f, U, col
        <5>2. QED
          BY <1>b, <2>1, <3>2, <4>2, <5>1, TakingFree
      <4>3. \A c \in x.s.seen : r.row_of[c] = f[c]
        BY <1>b, <2>1, <3>1, <4>1
      <4>4. QED
        BY <3>1, <4>2, <4>3 DEF Succeeds, r
    <3>3. CASE f[col] # Unheld
      <4>1. /\ z \in Attempts(n) /\ z.s = Marked(x) /\ z.row = f[col] /\ freed = g[z]
        BY <1>3, <3>3, DisplacedIs DEF Freed, freed
      <4>2. Rank(n, z) < Rank(n, x)
        BY <1>3, <2>1, <2>5, <4>1, RankFalls
      <4> HIDE DEF z
      <4>3. Succeeds(allowed, n, z, freed)
        BY <2>5, <2>6, <4>1, <4>2 DEF Searched
      <4>4. (1 .. n) \ z.s.seen = U \ {col} /\ z.s.row_of = f
        BY <2>5, <4>1
      <4>5. \A c \in x.s.seen : freed.row_of[c] = f[c]
        BY <2>5, <4>1, <4>3 DEF Succeeds
      <4>6. Fits(allowed, f, U \ {col}) /\ ~Holds(f, U \ {col}, f[col])
               => Fits(allowed, freed.row_of, U \ {col}) /\ Gained(n, f, freed.row_of, U \ {col}, f[col])
        BY <4>1, <4>3, <4>4 DEF Succeeds
      <4>7. Fits(allowed, f, U) => Fits(allowed, f, U \ {col}) /\ ~Holds(f, U \ {col}, f[col])
        BY <2>1, <3>3 DEF Fits, Holds
      <4>8. ASSUME Fits(allowed, f, U), ~Holds(f, U, x.row)
            PROVE  Fits(allowed, r.row_of, U) /\ Gained(n, f, r.row_of, U, x.row)
        <5>1. U \in SUBSET (1 .. n)
          OBVIOUS
        <5>2. Fits(allowed, freed.row_of, U \ {col}) /\ Gained(n, f, freed.row_of, U \ {col}, f[col])
          BY <4>6, <4>7, <4>8
        <5> HIDE DEF f, U, col
        <5>3. QED
          BY <1>b, <2>1, <2>4, <3>1, <3>3, <4>8, <5>1, <5>2, TakingHeld
      <4>9. \A c \in x.s.seen : r.row_of[c] = f[c]
        BY <1>b, <2>1, <2>4, <3>1, <4>5
      <4>10. QED
        BY <3>1, <4>8, <4>9 DEF Succeeds, r
    <3>4. QED
      BY <3>2, <3>3
  <2>7. CASE ~freed.found
    <3>1. f[col] # Unheld
      BY <1>3, <2>7, MarkedIs DEF Freed
    <3>2. /\ z \in Attempts(n) /\ z.s = Marked(x) /\ z.row = f[col] /\ z.column = 1 /\ freed = g[z]
      BY <1>3, <3>1, DisplacedIs DEF Freed
    <3>3. Rank(n, z) < Rank(n, x)
      BY <1>3, <2>1, <2>5, <3>2, RankFalls
    <3>4. y \in Attempts(n) /\ y.s = freed /\ y.row = x.row /\ y.column = col + 1
      BY <1>3, <2>2, OnwardIs
    <3>5. Rank(n, y) < Rank(n, x)
      BY <1>3, <2>2, <3>4, RankFalls
    <3>6. r = g[y]
      BY <2>3, <2>7
    <3>7. freed.seen \subseteq r.seen
      BY <1>a, <3>4, <3>6
    <3>8. r.row_of \in [1 .. n -> 0 .. n] /\ r.seen \subseteq 1 .. n
      BY <1>c DEF Searches
    <3> HIDE DEF r, freed, z, y
    <3>9. Fails(allowed, n, z, freed)
      BY <2>5, <2>7, <3>2, <3>3 DEF Searched
    <3>10. freed.row_of = f
      BY <2>5, <3>2, <3>9 DEF Fails
    <3>11. \A d \in 1 .. n : allowed[f[col]][d] => d \in freed.seen
      BY <3>2, <3>9 DEF Fails
    <3>12. Closed(allowed, n, f, freed.seen \ (x.s.seen \cup {col}), freed.seen)
      BY <2>5, <3>2, <3>9 DEF Fails
    <3>13. Searched(allowed, n, y, r)
      BY <3>4, <3>5, <3>6
    <3>14. CASE r.found
      <4> DEFINE V == (1 .. n) \ freed.seen
      <4>1. Succeeds(allowed, n, y, r)
        BY <2>7, <3>4, <3>13, <3>14 DEF Searched
      <4>2. \A c \in freed.seen : r.row_of[c] = f[c]
        BY <3>4, <3>10, <4>1 DEF Succeeds
      <4>3. Fits(allowed, f, V) /\ ~Holds(f, V, x.row) => Fits(allowed, r.row_of, V) /\ Gained(n, f, r.row_of, V, x.row)
        BY <3>4, <3>10, <4>1 DEF Succeeds
      <4>4. V \subseteq U /\ \A c \in U \ V : r.row_of[c] = f[c]
        BY <2>2, <4>2
      <4>5. Fits(allowed, f, U) /\ ~Holds(f, U, x.row) => Fits(allowed, f, V) /\ ~Holds(f, V, x.row)
        BY <4>4 DEF Fits, Holds
      <4>6. ASSUME Fits(allowed, f, U), ~Holds(f, U, x.row)
            PROVE  Fits(allowed, r.row_of, U) /\ Gained(n, f, r.row_of, U, x.row)
        <5>1. U \in SUBSET (1 .. n) /\ V \in SUBSET U
          BY <4>4
        <5>2. Fits(allowed, r.row_of, V) /\ Gained(n, f, r.row_of, V, x.row)
          BY <4>3, <4>5, <4>6
        <5> HIDE DEF f, U, V
        <5>3. QED
          BY <1>b, <3>8, <4>4, <4>6, <5>1, <5>2, TakingLater
      <4>7. \A c \in x.s.seen : r.row_of[c] = f[c]
        BY <2>2, <4>2
      <4>8. QED
        BY <3>14, <4>6, <4>7 DEF Succeeds, r
    <3>15. CASE ~r.found
      <4>1. Fails(allowed, n, y, r)
        BY <2>7, <3>4, <3>13, <3>15 DEF Searched
      <4>2. r.row_of = f
        BY <3>4, <3>10, <4>1 DEF Fails
      <4>3. ASSUME NEW c \in 1 .. n, c >= col, allowed[x.row][c] PROVE c \in r.seen
        <5>1. CASE c >= col + 1
          BY <3>4, <4>1, <4>3, <5>1 DEF Fails
        <5>2. CASE c = col
          BY <2>2, <3>7, <5>2
        <5>3. QED
          BY <1>b, <4>3, <5>1, <5>2
      <4>4. Closed(allowed, n, f, r.seen \ x.s.seen, r.seen)
        <5> SUFFICES ASSUME NEW c \in r.seen \ x.s.seen
                     PROVE  f[c] # Unheld /\ \A d \in 1 .. n : allowed[f[c]][d] => d \in r.seen
          BY DEF Closed
        <5>1. CASE c \notin freed.seen
          BY <3>4, <3>10, <4>1, <5>1 DEF Fails, Closed
        <5>2. CASE c \in freed.seen /\ c # col
          BY <3>7, <3>12, <5>2 DEF Closed
        <5>3. CASE c = col
          BY <3>1, <3>7, <3>11, <5>3
        <5>4. QED
          BY <5>1, <5>2, <5>3
      <4>5. QED
        BY <3>15, <4>2, <4>3, <4>4 DEF Fails, r
    <3>16. QED
      BY <3>14, <3>15
  <2>8. QED
    BY <2>6, <2>7
<1>4. QED
  BY <1>1, <1>2, <1>3, <1>b

\* So does the whole search.
LEMMA SearchFinds ==
  ASSUME NEW n \in Nat, NEW allowed \in Matrices(n), NEW augment, IsSearch(allowed, n, augment),
         NEW x \in Attempts(n)
  PROVE  Searched(allowed, n, x, augment[x])
<1> DEFINE K == n * (n + 2) + n
           P == {k \in 0 .. K + 1 : \A y \in Attempts(n) : Rank(n, y) < k => Searched(allowed, n, y, augment[y])}
<1>1. K \in Nat /\ \A y \in Attempts(n) : Rank(n, y) \in 0 .. K
  <2>1. \A y \in Attempts(n) : Ranked(n)[y] \in 0 .. K
    BY RanksAreBounded
  <2>2. QED
    BY <2>1, Weights DEF Ranked
<1> HIDE DEF K
<1>2. 0 \in P
  <2>1. \A y \in Attempts(n) : ~(Rank(n, y) < 0)
    BY <1>1
  <2>2. QED
    BY <1>1, <2>1
<1>3. ASSUME NEW k \in 1 .. K + 1, k - 1 \in P PROVE k \in P
  <2>1. \A y \in Attempts(n) : Rank(n, y) < k - 1 => Searched(allowed, n, y, augment[y])
    BY <1>3
  <2>2. ASSUME NEW y \in Attempts(n), Rank(n, y) < k PROVE Searched(allowed, n, y, augment[y])
    <3>1. ASSUME NEW z \in Attempts(n), Rank(n, z) < Rank(n, y) PROVE Rank(n, z) < k - 1
      <4>1. Rank(n, z) \in Int /\ Rank(n, y) \in Int
        BY <1>1
      <4>2. QED
        BY <1>1, <2>2, <3>1, <4>1
    <3>2. \A z \in Attempts(n) : Rank(n, z) < Rank(n, y) => Searched(allowed, n, z, augment[z])
      BY <2>1, <3>1
    <3>3. augment \in Keepers(n) /\ augment[y] = TryColumn(allowed, augment, y)
      BY DEF IsSearch
    <3>4. QED
      BY <3>2, <3>3, TurnSearches
  <2>3. k \in 0 .. K + 1
    BY <1>1
  <2>4. QED
    BY <2>2, <2>3
<1>4. \A k \in 0 .. K + 1 : k \in P
  <2> DEFINE m == K + 1
  <2>1. m \in Nat
    BY <1>1
  <2> HIDE DEF P, m
  <2>2. QED
    BY <1>2, <1>3, <2>1, InductionUpTo DEF m
<1>5. K + 1 \in 0 .. K + 1 /\ Rank(n, x) < K + 1
  BY <1>1
<1>6. QED
  BY <1>4, <1>5

-----------------------------------------------------------------------------
(* A perfect matching is found exactly when there is one. *)

\* The ways to give every row a column of its own that it may hold.
Assignments(allowed, n) ==
    {a \in Bijection(1 .. n, 1 .. n) : \A r \in 1 .. n : allowed[r][a[r]]}

\* On a range of numbers, a function that takes no value twice takes them all.
LEMMA InjectionIsBijection ==
  ASSUME NEW n \in Nat, NEW a \in [1 .. n -> 1 .. n],
         \A r, q \in 1 .. n : r # q => a[r] # a[q]
  PROVE  a \in Bijection(1 .. n, 1 .. n)
<1> DEFINE N == 1 .. n
<1>1. IsFiniteSet(N) /\ Cardinality(N) = n
  BY FS_Interval
<1>2. ASSUME NEW c \in N, \A r \in N : a[r] # c PROVE FALSE
  <2>1. a \in [N -> N \ {c}]
    BY <1>2
  <2> HIDE DEF N
  <2>2. IsFiniteSet(N \ {c}) /\ Cardinality(N \ {c}) = n - 1
    BY <1>1, FS_RemoveElement
  <2> DEFINE T == N \ {c}
  <2>3. IsFiniteSet(T) /\ Cardinality(T) < Cardinality(N) /\ a \in [N -> T]
    BY <1>1, <2>1, <2>2
  <2> HIDE DEF T
  <2>4. \E x, y \in N : x # y /\ a[x] = a[y]
    BY <1>1, <2>3, FS_PigeonHole
  <2>5. QED
    BY <2>4 DEF N
<1>3. QED
  BY <1>2 DEF Bijection, Injection, Surjection, IsInjective

\* A row that found no column has none to be given: it and the rows whose columns
\* were looked at are more than the columns they may hold.
LEMMA TooFewColumns ==
  ASSUME NEW n \in Nat, NEW allowed \in Matrices(n), NEW f \in [1 .. n -> 0 .. n],
         Fits(allowed, f, 1 .. n), NEW row \in 1 .. n, ~Holds(f, 1 .. n, row),
         NEW seen \in SUBSET (1 .. n), \A d \in 1 .. n : allowed[row][d] => d \in seen,
         Closed(allowed, n, f, seen, seen)
  PROVE  Assignments(allowed, n) = {}
<1> SUFFICES ASSUME NEW a \in Assignments(allowed, n) PROVE FALSE
  OBVIOUS
<1>1. /\ a \in [1 .. n -> 1 .. n] /\ \A r, q \in 1 .. n : r # q => a[r] # a[q]
      /\ \A r \in 1 .. n : allowed[r][a[r]]
  BY DEF Assignments, Bijection, Injection, IsInjective
<1> DEFINE S == seen \cup {0}
           h == [c \in S |-> IF c = 0 THEN a[row] ELSE a[f[c]]]
<1>2. ASSUME NEW c \in seen PROVE f[c] \in 1 .. n /\ f[c] # row /\ a[f[c]] \in seen
  <2>1. f[c] # 0 /\ \A d \in 1 .. n : allowed[f[c]][d] => d \in seen
    BY <1>2 DEF Closed, Unheld
  <2>2. f[c] \in 1 .. n
    BY <1>2, <2>1
  <2>3. f[c] # row
    BY <1>2 DEF Holds
  <2>4. QED
    BY <1>1, <2>1, <2>2, <2>3
<1>3. a[row] \in seen
  BY <1>1
<1>4. h \in [S -> seen]
  BY <1>2, <1>3
<1>5. \A c \in seen : c # 0
  OBVIOUS
<1>6. ASSUME NEW c \in S, NEW d \in S, c # d PROVE h[c] # h[d]
  <2>1. CASE c = 0
    BY <1>1, <1>2, <1>6, <2>1
  <2>2. CASE d = 0
    BY <1>1, <1>2, <1>6, <2>2
  <2>3. CASE c # 0 /\ d # 0
    <3>1. f[c] # f[d]
      <4>1. c \in seen /\ d \in seen
        BY <2>3
      <4>2. f[c] \in 1 .. n
        BY <1>2, <4>1
      <4>3. c \in 1 .. n /\ d \in 1 .. n /\ f[c] # Unheld
        BY <4>1, <4>2 DEF Unheld
      <4>4. QED
        BY <1>6, <4>3 DEF Fits
    <3>2. QED
      BY <1>1, <1>2, <2>3, <3>1
  <2>4. QED
    BY <2>1, <2>2, <2>3
<1>7. IsFiniteSet(seen)
  <2>1. IsFiniteSet(1 .. n) /\ Cardinality(1 .. n) = n
    BY FS_Interval
  <2>2. QED
    BY <2>1, FS_Subset
<1>8. IsFiniteSet(S) /\ Cardinality(S) = Cardinality(seen) + 1
  BY <1>5, <1>7, FS_AddElement
<1> HIDE DEF S, h
<1>9. Cardinality(seen) < Cardinality(S)
  BY <1>7, <1>8, FS_CardinalityType
<1>10. \E c, d \in S : c # d /\ h[c] = h[d]
  BY <1>4, <1>7, <1>8, <1>9, FS_PigeonHole
<1>11. QED
  BY <1>6, <1>10

\* After k rows: each of them holds a column of its own, or not every row can.
Progress(allowed, n, k, s) ==
    /\ s \in Searches(n)
    /\ IF s.found
       THEN /\ Fits(allowed, s.row_of, 1 .. n)
            /\ \A r \in 1 .. n : Holds(s.row_of, 1 .. n, r) <=> r <= k
       ELSE Assignments(allowed, n) = {}

\* A row more is matched if it can be.
LEMMA OneMoreRow ==
  ASSUME NEW n \in Nat, NEW allowed \in Matrices(n), NEW k \in 1 .. n, NEW s,
         Progress(allowed, n, k - 1, s)
  PROVE  Progress(allowed, n, k, MatchNext(allowed, s, k))
<1>1. CASE ~s.found
  BY <1>1 DEF Progress, MatchNext
<1>2. CASE s.found
  <2> DEFINE t == Unseen(s)
             x == Attempt(k, 1, t)
             r == MatchNext(allowed, s, k)
             f == s.row_of
  <2>1. f \in [1 .. n -> 0 .. n] /\ Fits(allowed, f, 1 .. n) /\ \A q \in 1 .. n : Holds(f, 1 .. n, q) <=> q <= k - 1
    BY <1>2 DEF Progress, Searches
  <2>2. t \in Searches(n) /\ t.row_of = f /\ t.seen = {} /\ ~t.found
    BY <1>2 DEF Progress, Searches, Unseen
  <2>3. x \in Attempts(n) /\ x.row = k /\ x.column = 1 /\ x.s = t
    <3> HIDE DEF t
    <3>1. QED
      BY <2>2 DEF Attempts, Attempt
  <2>4. PICK augment : /\ IsSearch(allowed, n, augment)
                       /\ \A row, u : Augment(allowed, row, u) = augment[Attempt(row, 1, u)]
    BY SearchEnds
  <2>5. r = augment[x]
    BY <1>2, <2>4 DEF MatchNext
  <2> HIDE DEF t, x, r, f
  <2>6. r \in Searches(n)
    BY <2>3, <2>4, <2>5 DEF IsSearch, Keepers
  <2>7. Searched(allowed, n, x, r)
    BY <2>3, <2>4, <2>5, SearchFinds
  <2>8. ~Holds(f, 1 .. n, k)
    BY <2>1
  <2>9. CASE r.found
    <3>1. Succeeds(allowed, n, x, r)
      BY <2>2, <2>3, <2>7, <2>9 DEF Searched
    <3>2. (1 .. n) \ x.s.seen = 1 .. n
      BY <2>2, <2>3
    <3>3. Fits(allowed, r.row_of, 1 .. n) /\ Gained(n, f, r.row_of, 1 .. n, k)
      BY <2>1, <2>2, <2>3, <2>8, <3>1, <3>2 DEF Succeeds
    <3>4. \A q \in 1 .. n : Holds(r.row_of, 1 .. n, q) <=> q <= k
      <4>1. \A q \in 1 .. n : q <= k <=> q <= k - 1 \/ q = k
        OBVIOUS
      <4>2. QED
        BY <2>1, <3>3, <4>1 DEF Gained
    <3>5. QED
      BY <2>6, <2>9, <3>3, <3>4 DEF Progress, r
  <2>10. CASE ~r.found
    <3>1. Fails(allowed, n, x, r)
      BY <2>2, <2>3, <2>7, <2>10 DEF Searched
    <3>2. \A d \in 1 .. n : allowed[k][d] => d \in r.seen
      BY <2>3, <3>1 DEF Fails
    <3>3. r.seen \in SUBSET (1 .. n) /\ r.seen \ x.s.seen = r.seen
      BY <2>2, <2>3, <2>6 DEF Searches
    <3>4. Closed(allowed, n, f, r.seen, r.seen)
      BY <2>2, <2>3, <3>1, <3>3 DEF Fails
    <3>5. Assignments(allowed, n) = {}
      BY <2>1, <2>8, <3>2, <3>3, <3>4, TooFewColumns
    <3>6. QED
      BY <2>6, <2>10, <3>5 DEF Progress, r
  <2>11. QED
    BY <2>9, <2>10
<1>3. QED
  BY <1>1, <1>2

\* What the matching has come to after the last row.
LEMMA MatchedProgress ==
  ASSUME NEW n \in Nat, NEW allowed \in Matrices(n)
  PROVE  Progress(allowed, n, n, Matched(allowed))
<1> DEFINE none == AllUnheld(n)
           Y == Searches(n)
           step == [k \in 1 .. n |-> [s \in Y |->
                       IF Progress(allowed, n, k - 1, s) THEN MatchNext(allowed, s, k) ELSE s]]
           Walk(f) == [row \in 0 .. n |-> IF row = 0 THEN none ELSE MatchNext(allowed, f[row - 1], row)]
<1>1. Len(allowed) = n
  BY Sequence DEF Matrices
<1>2. Progress(allowed, n, 0, none)
  <2>1. none \in Searches(n) /\ none.found /\ \A c \in 1 .. n : none.row_of[c] = 0
    BY DEF AllUnheld, Searches, Unheld
  <2>2. QED
    BY <2>1 DEF Progress, Fits, Holds, Unheld
<1>3. step \in Steps(n, Y)
  <2>1. ASSUME NEW k \in 1 .. n, NEW s \in Y PROVE step[k][s] \in Y
    <3>1. CASE Progress(allowed, n, k - 1, s)
      BY <3>1, OneMoreRow DEF Progress
    <3>2. CASE ~Progress(allowed, n, k - 1, s)
      BY <3>2
    <3>3. QED
      BY <3>1, <3>2
  <2>2. QED
    BY <2>1 DEF Steps
<1>4. \A k \in 1 .. n, s \in Y : Progress(allowed, n, k - 1, s) => step[k][s] = MatchNext(allowed, s, k)
  OBVIOUS
<1>5. none \in Y
  BY <1>2 DEF Progress
<1> HIDE DEF step, none, Y
<1>6. PICK f : f \in Iterations(n, Y, none, step)
  BY <1>3, <1>5, RecursionUpTo
<1>7. f \in [0 .. n -> Y] /\ f[0] = none /\ \A k \in 1 .. n : f[k] = step[k][f[k - 1]]
  BY <1>6 DEF Iterations
<1> DEFINE P == {k \in 0 .. n : Progress(allowed, n, k, f[k])}
<1>8. \A k \in 0 .. n : k \in P
  <2>1. 0 \in P
    BY <1>2, <1>7
  <2>2. ASSUME NEW k \in 1 .. n, k - 1 \in P PROVE k \in P
    <3>1. k - 1 \in 0 .. n /\ k \in 0 .. n /\ Progress(allowed, n, k - 1, f[k - 1])
      BY <2>2
    <3>2. f[k] = MatchNext(allowed, f[k - 1], k)
      BY <1>4, <1>7, <3>1
    <3>3. QED
      BY <3>1, <3>2, OneMoreRow
  <2> HIDE DEF P
  <2>3. QED
    BY <2>1, <2>2, InductionUpTo
<1>9. f = Walk(f)
  <2>1. ASSUME NEW k \in 1 .. n PROVE f[k] = MatchNext(allowed, f[k - 1], k)
    <3>1. k - 1 \in 0 .. n
      OBVIOUS
    <3>2. QED
      BY <1>4, <1>7, <1>8, <3>1
  <2>2. \A row \in 0 .. n : f[row] = IF row = 0 THEN none ELSE MatchNext(allowed, f[row - 1], row)
    <3>1. ASSUME NEW row \in 0 .. n PROVE row = 0 \/ row \in 1 .. n
      OBVIOUS
    <3>2. QED
      BY <1>7, <2>1, <3>1
  <2>3. QED
    BY <1>7, <2>2
<1> DEFINE g == CHOOSE h : h = Walk(h)
<1>10. g = Walk(g)
  BY <1>9
<1>11. Matched(allowed) = g[n]
  BY <1>1, Zenon DEF Matched, g, none
<1> HIDE DEF g
<1>12. g[0] = none /\ \A k \in 1 .. n : g[k] = MatchNext(allowed, g[k - 1], k)
  BY <1>10
<1> DEFINE Q == {k \in 0 .. n : Progress(allowed, n, k, g[k])}
<1>13. \A k \in 0 .. n : k \in Q
  <2>1. 0 \in Q
    BY <1>2, <1>12
  <2>2. ASSUME NEW k \in 1 .. n, k - 1 \in Q PROVE k \in Q
    BY <1>12, <2>2, OneMoreRow
  <2> HIDE DEF Q
  <2>3. QED
    BY <2>1, <2>2, InductionUpTo
<1>14. QED
  BY <1>11, <1>13

\* A matching found gives every row a column of its own that it may hold; none is
\* found only if there is none (_perfect_matching).
THEOREM MatchingIsFound ==
  ASSUME NEW n \in Nat, NEW allowed \in [1 .. n -> [1 .. n -> BOOLEAN]]
  PROVE  /\ PerfectMatching(allowed) # NoMatching => PerfectMatching(allowed) \in Assignments(allowed, n)
         /\ n # 0 => (PerfectMatching(allowed) # NoMatching <=> Assignments(allowed, n) # {})
<1> DEFINE s == Matched(allowed)
           Held(row) == CHOOSE c \in 1 .. n : s.row_of[c] = row
           a == [row \in 1 .. n |-> Held(row)]
<1>1. allowed \in Matrices(n) /\ Len(allowed) = n
  BY Sequence DEF Matrices
<1>2. Progress(allowed, n, n, s)
  BY <1>1, MatchedProgress
<1>3. PerfectMatching(allowed) = IF ~s.found THEN NoMatching ELSE a
  BY <1>1 DEF PerfectMatching
<1> HIDE DEF s
<1>4. ~s.found => Assignments(allowed, n) = {}
  BY <1>2 DEF Progress
<1>5. ASSUME s.found PROVE a \in Assignments(allowed, n)
  <2>1. ASSUME NEW row \in 1 .. n PROVE a[row] \in 1 .. n /\ s.row_of[a[row]] = row
    <3>1. Holds(s.row_of, 1 .. n, row)
      BY <1>2, <1>5 DEF Progress
    <3>2. \E c \in 1 .. n : s.row_of[c] = row
      BY <3>1 DEF Holds
    <3>3. Held(row) \in 1 .. n /\ s.row_of[Held(row)] = row
      BY <3>2
    <3>4. QED
      BY <3>3
  <2> HIDE DEF a
  <2>2. a \in [1 .. n -> 1 .. n]
    BY <2>1 DEF a
  <2>3. \A r, q \in 1 .. n : r # q => a[r] # a[q]
    BY <2>1
  <2>4. \A r \in 1 .. n : allowed[r][a[r]]
    <3> SUFFICES ASSUME NEW r \in 1 .. n PROVE allowed[r][a[r]]
      OBVIOUS
    <3>1. a[r] \in 1 .. n /\ s.row_of[a[r]] = r /\ r # Unheld
      BY <2>1 DEF Unheld
    <3>2. Fits(allowed, s.row_of, 1 .. n)
      BY <1>2, <1>5 DEF Progress
    <3>3. allowed[s.row_of[a[r]]][a[r]]
      BY <3>1, <3>2 DEF Fits
    <3>4. QED
      BY <3>1, <3>3
  <2>5. a \in Bijection(1 .. n, 1 .. n)
    BY <2>2, <2>3, InjectionIsBijection
  <2>6. QED
    BY <2>4, <2>5 DEF Assignments
<1>6. n # 0 => a # NoMatching
  <2>1. n # 0 => 1 \in DOMAIN a
    OBVIOUS
  <2>2. 1 \notin DOMAIN NoMatching
    BY DEF NoMatching
  <2>3. QED
    BY <2>1, <2>2
<1> HIDE DEF a
<1>7. QED
  BY <1>3, <1>4, <1>5, <1>6

-----------------------------------------------------------------------------
(* Members in order, and the least threshold that is enough. *)

\* A member's place is how many members are smaller.
Below(S, x) == {y \in S : y < x}
Places(S) == [x \in S |-> Cardinality(Below(S, x))]

\* Members of a set have different places in it, in their order.
LEMMA PlacesAreOrdered ==
  ASSUME NEW S, S \subseteq Int, IsFiniteSet(S)
  PROVE  /\ Places(S) \in [S -> 0 .. Cardinality(S) - 1]
         /\ \A x, y \in S : x < y => Places(S)[x] < Places(S)[y]
<1> DEFINE m == Cardinality(S)
           rank == Places(S)
<1>1. m \in Nat
  BY FS_CardinalityType
<1>2. \A x \in S : rank[x] = Cardinality(Below(S, x))
  BY DEF Places
<1> HIDE DEF rank, m
<1>3. ASSUME NEW x \in S
      PROVE  IsFiniteSet(Below(S, x)) /\ rank[x] \in Nat /\ rank[x] \in 0 .. m - 1
  <2>1. Below(S, x) \in SUBSET S /\ Below(S, x) # S
    BY DEF Below
  <2>2. IsFiniteSet(Below(S, x)) /\ Cardinality(Below(S, x)) \in Nat
    BY <2>1, FS_Subset, FS_CardinalityType
  <2>3. Cardinality(Below(S, x)) <= m /\ Cardinality(Below(S, x)) # m
    BY <2>1, FS_Subset DEF m
  <2>4. QED
    BY <1>1, <1>2, <2>2, <2>3
<1>4. \A x, y \in S : x < y => rank[x] < rank[y]
  <2> SUFFICES ASSUME NEW x \in S, NEW y \in S, x < y PROVE rank[x] < rank[y]
    OBVIOUS
  <2>1. x \notin Below(S, x) /\ Below(S, x) \cup {x} \in SUBSET Below(S, y)
    <3>1. \A z \in S : z \in Int
      OBVIOUS
    <3>2. x \in Int /\ y \in Int
      BY <3>1
    <3>3. \A z \in S : z < x => z < y
      BY <3>1, <3>2
    <3>4. ~(x < x)
      BY <3>2
    <3>5. x \in Below(S, y) /\ x \notin Below(S, x) /\ Below(S, x) \subseteq Below(S, y)
      BY <3>3, <3>4 DEF Below
    <3>6. QED
      BY <3>5
  <2>2. IsFiniteSet(Below(S, x)) /\ IsFiniteSet(Below(S, y)) /\ rank[x] \in Nat /\ rank[y] \in Nat
    BY <1>3
  <2>3. Cardinality(Below(S, x) \cup {x}) = Cardinality(Below(S, x)) + 1
    BY <2>1, <2>2, FS_AddElement
  <2>4. Cardinality(Below(S, x) \cup {x}) <= Cardinality(Below(S, y))
    BY <2>1, <2>2, FS_Subset
  <2>5. rank[x] = Cardinality(Below(S, x)) /\ rank[y] = Cardinality(Below(S, y))
    BY <1>2
  <2>6. rank[x] + 1 <= rank[y]
    BY <2>3, <2>4, <2>5
  <2>7. QED
    BY <2>2, <2>6
<1>5. rank \in [S -> 0 .. m - 1]
  <2>1. rank = [x \in S |-> rank[x]]
    BY Zenon DEF rank, Places
  <2>2. QED
    BY <1>3, <2>1
<1>6. QED
  BY <1>4, <1>5 DEF rank, m

\* InOrder lists every member once, from the least on.
Lists(f, S) ==
    /\ f \in [1 .. Cardinality(S) -> S]
    /\ \A i, j \in 1 .. Cardinality(S) : i < j => f[i] < f[j]
    /\ \A x \in S : \E i \in 1 .. Cardinality(S) : f[i] = x

\* InOrder lists a set of numbers from the smallest to the largest.
LEMMA InOrderLists ==
  ASSUME NEW S, S \subseteq Int, IsFiniteSet(S)
  PROVE  Lists(InOrder(S), S)
<1> DEFINE m == Cardinality(S)
           rank == Places(S)
           N == 0 .. m - 1
<1>1. m \in Nat
  BY FS_CardinalityType
<1>2. rank \in [S -> N] /\ \A x, y \in S : x < y => rank[x] < rank[y]
  BY PlacesAreOrdered
<1>3. \A x \in S : rank[x] = Cardinality(Below(S, x))
  BY DEF Places
<1>4. \A x \in S : rank[x] \in N /\ rank[x] \in Int
  BY <1>1, <1>2
<1>5. \A x, y \in S : rank[x] = rank[y] => x = y
  <2> HIDE DEF rank, N
  <2> SUFFICES ASSUME NEW x \in S, NEW y \in S, x # y PROVE rank[x] # rank[y]
    OBVIOUS
  <2>1. x < y \/ y < x
    OBVIOUS
  <2>2. QED
    BY <1>2, <1>4, <2>1
<1>6. IsFiniteSet(N) /\ Cardinality(N) = m
  <2>1. IsFiniteSet(0 .. m - 1) /\ Cardinality(0 .. m - 1) = IF 0 > m - 1 THEN 0 ELSE m - 1 - 0 + 1
    BY <1>1, FS_Interval
  <2>2. QED
    BY <1>1, <2>1
<1> HIDE DEF rank, m, N
<1>7. rank \in Injection(S, N)
  BY <1>2, <1>5 DEF Injection, IsInjective
<1>8. rank \in Surjection(S, N)
  BY <1>6, <1>7, FS_Injection DEF m
<1>9. \A k \in N : \E x \in S : rank[x] = k
  BY <1>8 DEF Surjection
<1> DEFINE Pick(i) == CHOOSE x \in S : Cardinality({y \in S : y < x}) = i - 1
           f == InOrder(S)
<1>10. ASSUME NEW i \in 1 .. m PROVE f[i] \in S /\ rank[f[i]] = i - 1
  <2>1. i - 1 \in N
    BY <1>1 DEF N
  <2> DEFINE z == CHOOSE x \in S : Cardinality(Below(S, x)) = i - 1
  <2>2. z \in S /\ Cardinality(Below(S, z)) = i - 1
    BY <1>3, <1>9, <2>1
  <2>3. f[i] = z
    BY DEF InOrder, m, Below
  <2> HIDE DEF z, f
  <2>4. QED
    BY <1>3, <2>2, <2>3
<1>11. f = [i \in 1 .. m |-> f[i]]
  <2>1. f = [i \in 1 .. m |-> Pick(i)]
    BY DEF InOrder, m
  <2> HIDE DEF f, Pick
  <2>2. QED
    BY <2>1
<1> HIDE DEF f
<1>12. f \in [1 .. m -> S]
  BY <1>10, <1>11
<1>13. ASSUME NEW i \in 1 .. m, NEW j \in 1 .. m, i < j PROVE f[i] < f[j]
  <2>1. f[i] \in S /\ f[j] \in S /\ rank[f[i]] = i - 1 /\ rank[f[j]] = j - 1
    BY <1>10
  <2>2. i \in Int /\ j \in Int
    BY <1>1
  <2>3. ~(f[j] < f[i])
    <3>1. SUFFICES ASSUME f[j] < f[i] PROVE FALSE
      OBVIOUS
    <3>2. rank[f[j]] < rank[f[i]]
      BY <1>2, <2>1, <3>1
    <3>3. QED
      BY <1>13, <2>1, <2>2, <3>2
  <2>4. f[i] # f[j]
    BY <1>13, <2>1, <2>2
  <2>5. f[i] \in Int /\ f[j] \in Int
    BY <2>1
  <2>6. QED
    BY <2>3, <2>4, <2>5
<1>14. ASSUME NEW x \in S PROVE \E i \in 1 .. m : f[i] = x
  <2>1. \E i \in 1 .. m : i - 1 = rank[x]
    <3>1. rank[x] \in N
      BY <1>4
    <3>2. rank[x] \in 0 .. m - 1
      BY <3>1 DEF N
    <3> DEFINE i == rank[x] + 1
    <3>4. i \in 1 .. m /\ i - 1 = rank[x]
      BY <1>1, <3>2
    <3> HIDE DEF i
    <3>5. QED
      BY <3>4
  <2>2. PICK i \in 1 .. m : i - 1 = rank[x]
    BY <2>1
  <2>3. f[i] \in S /\ rank[f[i]] = rank[x]
    BY <1>10, <2>2
  <2>4. f[i] = x
    BY <1>5, <2>3
  <2>5. QED
    BY <2>4
<1>15. \A i, j \in 1 .. m : i < j => f[i] < f[j]
  BY <1>13
<1>16. QED
  BY <1>12, <1>14, <1>15 DEF Lists, f, m

\* The pairs a threshold allows, and the ways to assign rows to columns: those that
\* stay within it.
CostMatrices(n) == [1 .. n -> [1 .. n -> Int]]
AllWithin(cost, n, threshold) ==
    {a \in Bijection(1 .. n, 1 .. n) : \A r \in 1 .. n : cost[r][a[r]] <= threshold}

\* A matrix of costs is as large as the matrix of what is within a threshold.
LEMMA WithinIs ==
  ASSUME NEW n \in Nat, NEW cost \in CostMatrices(n), NEW threshold \in Int
  PROVE  /\ Within(cost, threshold) \in [1 .. n -> [1 .. n -> BOOLEAN]]
         /\ Assignments(Within(cost, threshold), n) = AllWithin(cost, n, threshold)
<1>1. DOMAIN cost = 1 .. n /\ \A r \in 1 .. n : DOMAIN cost[r] = 1 .. n
  BY DEF CostMatrices
<1> DEFINE w == Within(cost, threshold)
<1>2. \A r \in 1 .. n : w[r] = [c \in 1 .. n |-> cost[r][c] <= threshold]
  BY <1>1 DEF Within
<1>3. w = [r \in 1 .. n |-> w[r]]
  BY <1>1 DEF Within
<1> HIDE DEF w
<1>4. \A r \in 1 .. n : w[r] \in [1 .. n -> BOOLEAN]
  <2>1. \A r, c \in 1 .. n : (cost[r][c] <= threshold) \in BOOLEAN
    OBVIOUS
  <2>2. QED
    BY <1>2, <2>1, Zenon
<1>5. w \in [1 .. n -> [1 .. n -> BOOLEAN]]
  BY <1>3, <1>4
<1>6. ASSUME NEW a \in Bijection(1 .. n, 1 .. n)
      PROVE  (\A r \in 1 .. n : w[r][a[r]]) <=> \A r \in 1 .. n : cost[r][a[r]] <= threshold
  <2>1. \A r \in 1 .. n : a[r] \in 1 .. n
    BY DEF Bijection, Injection
  <2>2. \A r \in 1 .. n : w[r][a[r]] = (cost[r][a[r]] <= threshold)
    BY <1>2, <2>1
  <2>3. QED
    BY <2>2
<1>7. Assignments(w, n) = AllWithin(cost, n, threshold)
  BY <1>6 DEF Assignments, AllWithin
<1>8. QED
  BY <1>5, <1>7 DEF w

\* A threshold is enough when some assignment stays within it.
LEMMA EnoughIs ==
  ASSUME NEW n \in Nat \ {0}, NEW cost \in CostMatrices(n), NEW threshold \in Int
  PROVE  /\ Enough(cost, threshold) <=> AllWithin(cost, n, threshold) # {}
         /\ Enough(cost, threshold) =>
               PerfectMatching(Within(cost, threshold)) \in AllWithin(cost, n, threshold)
<1> DEFINE w == Within(cost, threshold)
<1>1. w \in [1 .. n -> [1 .. n -> BOOLEAN]] /\ Assignments(w, n) = AllWithin(cost, n, threshold)
  BY WithinIs
<1>2. Enough(cost, threshold) <=> PerfectMatching(w) # NoMatching
  BY DEF Enough
<1> HIDE DEF w
<1>3. /\ PerfectMatching(w) # NoMatching => PerfectMatching(w) \in Assignments(w, n)
      /\ n # 0 => (PerfectMatching(w) # NoMatching <=> Assignments(w, n) # {})
  BY <1>1, MatchingIsFound
<1>4. QED
  BY <1>1, <1>2, <1>3 DEF w

\* Once a threshold is enough every later one is, and the last one is.  The binary
\* search returns the first of the thresholds that is enough.
FirstEnough(cost, thresholds, i) ==
    /\ i \in 1 .. Len(thresholds) /\ Enough(cost, thresholds[i])
    /\ \A j \in 1 .. Len(thresholds) : j < i => ~Enough(cost, thresholds[j])

\* The middle of a range lies in it, and short of its end.
LEMMA MiddleIsBetween ==
  ASSUME NEW m \in Nat, NEW r \in Ranges(m), r.low < r.high
  PROVE  LET middle == (r.low + r.high) \div 2
         IN  middle \in 1 .. m /\ r.low <= middle /\ middle < r.high
<1>1. r.low \in 1 .. m /\ r.high \in 1 .. m
  BY DEF Ranges
<1> DEFINE a == r.low
           b == r.high
<1>2. a \in 1 .. m /\ b \in 1 .. m /\ a < b
  BY <1>1
<1> HIDE DEF a, b
<1>3. (a + b) \div 2 \in 1 .. m /\ a <= (a + b) \div 2 /\ (a + b) \div 2 < b
  BY <1>2, SMTT(30)
<1>4. QED
  BY <1>3 DEF a, b

\* A turn of the search: both halves are narrower.
Lower(r) == [r EXCEPT !.high = (r.low + r.high) \div 2]
Upper(r) == [r EXCEPT !.low = (r.low + r.high) \div 2 + 1]
Width(r) == IF r.low < r.high THEN r.high - r.low ELSE 0
\* Either half is a smaller range.
LEMMA HalvesAre ==
  ASSUME NEW m \in Nat, NEW r \in Ranges(m), r.low < r.high
  PROVE  /\ Lower(r) \in Ranges(m) /\ Upper(r) \in Ranges(m)
         /\ Lower(r).low = r.low /\ Lower(r).high = (r.low + r.high) \div 2
         /\ Upper(r).low = (r.low + r.high) \div 2 + 1 /\ Upper(r).high = r.high
         /\ Lower(r).low <= Lower(r).high /\ Upper(r).low <= Upper(r).high
         /\ Width(Lower(r)) < Width(r) /\ Width(Upper(r)) < Width(r)
         /\ (r.low + r.high) \div 2 \in 1 .. m
<1> DEFINE middle == (r.low + r.high) \div 2
<1>1. middle \in 1 .. m /\ r.low <= middle /\ middle < r.high
  BY MiddleIsBetween
<1> HIDE DEF middle
<1>2. r.low \in 1 .. m /\ r.high \in 1 .. m /\ r = [low |-> r.low, high |-> r.high]
  BY DEF Ranges
<1>3. middle + 1 \in 1 .. m
  BY <1>1, <1>2
<1>4. Lower(r) = [low |-> r.low, high |-> middle] /\ Upper(r) = [low |-> middle + 1, high |-> r.high]
  BY <1>2 DEF Lower, Upper, middle
<1>5. /\ Lower(r) \in Ranges(m) /\ Upper(r) \in Ranges(m)
      /\ Lower(r).low = r.low /\ Lower(r).high = middle
      /\ Upper(r).low = middle + 1 /\ Upper(r).high = r.high
  BY <1>1, <1>2, <1>3, <1>4 DEF Ranges
<1>6. Width(Lower(r)) < Width(r) /\ Width(Upper(r)) < Width(r)
  BY <1>1, <1>2, <1>5 DEF Width
<1>7. Lower(r).low <= Lower(r).high /\ Upper(r).low <= Upper(r).high
  BY <1>1, <1>2, <1>5
<1>8. QED
  BY <1>1, <1>5, <1>6, <1>7 DEF middle

\* The search is a function, and it keeps to the thresholds.
IsHalving(cost, thresholds, search) ==
    LET m == Len(thresholds)
    IN  /\ search \in [Ranges(m) -> 1 .. m]
        /\ \A r \in Ranges(m) : search[r] = Halved(cost, thresholds, search, r)

\* Halving the range comes to an end: the recursion of LeastEnough defines a function.
LEMMA HalvingEnds ==
  ASSUME NEW m \in Nat \ {0}, NEW cost, NEW thresholds, Len(thresholds) = m
  PROVE  \E search : /\ IsHalving(cost, thresholds, search)
                     /\ LeastEnough(cost, thresholds) = thresholds[search[[low |-> 1, high |-> m]]]
<1> DEFINE X == Ranges(m)
           G == [X -> 1 .. m]
           Body(g) == [r \in X |-> Halved(cost, thresholds, g, r)]
           F == [g \in G |-> Body(g)]
           g0 == [r \in X |-> 1]
           rank == [r \in X |-> Width(r)]
<1>1. g0 \in G
  OBVIOUS
<1>2. ASSUME NEW g \in G, NEW r \in X PROVE Halved(cost, thresholds, g, r) \in 1 .. m
  <2>1. r.low \in 1 .. m /\ r.high \in 1 .. m
    BY DEF Ranges
  <2>2. CASE r.low >= r.high
    BY <2>1, <2>2 DEF Halved
  <2>3. CASE r.low < r.high
    <3>1. Lower(r) \in X /\ Upper(r) \in X
      BY <2>3, HalvesAre
    <3>2. g[Lower(r)] \in 1 .. m /\ g[Upper(r)] \in 1 .. m
      BY <3>1
    <3>3. Halved(cost, thresholds, g, r) \in {r.low, g[Lower(r)], g[Upper(r)]}
      BY DEF Halved, Lower, Upper
    <3>4. QED
      BY <2>1, <3>2, <3>3
  <2>4. QED
    BY <2>1, <2>2, <2>3
<1>3. ASSUME NEW g \in G PROVE Body(g) \in G
  BY <1>2
<1>4. F \in Bodies(X, G)
  <2>1. \A g \in G : g = [x \in X |-> g[x]]
    OBVIOUS
  <2>2. F \in [G -> G]
    BY <1>3
  <2> HIDE DEF F, G, X
  <2>3. QED
    BY <2>1, <2>2 DEF Bodies
<1>5. ASSUME NEW g, NEW h, NEW r \in X, \A y \in X : rank[y] < rank[r] => g[y] = h[y]
      PROVE  Halved(cost, thresholds, g, r) = Halved(cost, thresholds, h, r)
  <2>2. r.low \in 1 .. m /\ r.high \in 1 .. m
    BY DEF Ranges
  <2>3. CASE r.low >= r.high
    BY <2>3 DEF Halved
  <2>4. CASE r.low < r.high
    <3>1. Lower(r) \in X /\ Upper(r) \in X /\ rank[Lower(r)] < rank[r] /\ rank[Upper(r)] < rank[r]
      BY <2>4, HalvesAre
    <3>2. g[Lower(r)] = h[Lower(r)] /\ g[Upper(r)] = h[Upper(r)]
      BY <1>5, <3>1
    <3>3. QED
      BY <3>2 DEF Halved, Lower, Upper
  <2>5. QED
    BY <2>2, <2>3, <2>4
<1>6. rank \in [X -> 0 .. m]
  BY DEF Width, Ranges
<1>13. AsksBelow(X, G, F, rank)
  <2> SUFFICES ASSUME NEW g \in G, NEW h \in G, NEW r \in X,
                      \A y \in X : rank[y] < rank[r] => g[y] = h[y]
               PROVE  F[g][r] = F[h][r]
    BY DEF AsksBelow
  <2>1. F[g][r] = Halved(cost, thresholds, g, r) /\ F[h][r] = Halved(cost, thresholds, h, r)
    OBVIOUS
  <2>2. QED
    BY <1>5, <2>1
<1>7. \E g \in G : g = F[g]
  <2> HIDE DEF F, G, X, rank, g0
  <2>1. QED
    BY <1>1, <1>4, <1>6, <1>13, RecursionByRank
<1>8. PICK g \in G : g = Body(g)
  BY <1>7
<1> DEFINE search == CHOOSE f : f = Body(f)
<1>9. search = Body(search)
  BY <1>8
<1>10. LeastEnough(cost, thresholds) = thresholds[search[[low |-> 1, high |-> m]]]
  BY Zenon DEF LeastEnough, search
<1> HIDE DEF search
<1>11. \A r \in X : g[r] = search[r]
  <2> DEFINE P == {k \in 0 .. m + 1 : \A r \in X : rank[r] < k => g[r] = search[r]}
  <2>1. 0 \in P
    <3> HIDE DEF rank, X
    <3>1. \A r \in X : ~(rank[r] < 0)
      BY <1>6
    <3>2. QED
      BY <3>1
  <2>2. ASSUME NEW k \in 1 .. m + 1, k - 1 \in P PROVE k \in P
    <3>1. \A y \in X : rank[y] < k - 1 => g[y] = search[y]
      BY <2>2
    <3>2. ASSUME NEW r \in X, rank[r] < k PROVE g[r] = search[r]
      <4>1. g[r] = Halved(cost, thresholds, g, r) /\ search[r] = Halved(cost, thresholds, search, r)
        BY <1>8, <1>9
      <4> HIDE DEF rank, X
      <4>2. \A y \in X : rank[y] < rank[r] => rank[y] < k - 1
        BY <1>6, <3>2
      <4>3. QED
        BY <1>5, <3>1, <4>1, <4>2
    <3> HIDE DEF rank, X
    <3>3. k \in 0 .. m + 1
      OBVIOUS
    <3>4. QED
      BY <3>2, <3>3
  <2> HIDE DEF P, rank, X
  <2>3. m + 1 \in 0 .. m + 1 /\ m + 1 \in Nat
    OBVIOUS
  <2>4. m + 1 \in P
    BY <2>1, <2>2, <2>3, InductionUpTo
  <2>5. \A r \in X : rank[r] < m + 1
    BY <1>6
  <2>6. QED
    BY <2>4, <2>5 DEF P
<1>12. search \in [X -> 1 .. m] /\ \A r \in X : search[r] = Halved(cost, thresholds, search, r)
  <2>1. search = [r \in X |-> search[r]] /\ \A r \in X : search[r] = Halved(cost, thresholds, search, r)
    BY <1>9
  <2>2. QED
    BY <1>11, <2>1
<1>14. QED
  BY <1>10, <1>12 DEF IsHalving

FindsFirst(cost, thresholds) ==
    \E i : FirstEnough(cost, thresholds, i) /\ LeastEnough(cost, thresholds) = thresholds[i]
EnoughFromThen(cost, thresholds, m) ==
    /\ Enough(cost, thresholds[m])
    /\ \A i, j \in 1 .. m : i < j /\ Enough(cost, thresholds[i]) => Enough(cost, thresholds[j])

\* If what is enough stays enough from then on, halving finds the first that is.
LEMMA HalvingFinds ==
  ASSUME NEW m \in Nat \ {0}, NEW cost, NEW thresholds, Len(thresholds) = m,
         EnoughFromThen(cost, thresholds, m)
  PROVE  FindsFirst(cost, thresholds)
<1> DEFINE X == Ranges(m)
           good == {i \in 1 .. m : Enough(cost, thresholds[i])}
           all == [low |-> 1, high |-> m]
           Asks(r) == r.low <= r.high /\ r.high \in good /\ \A i \in good : r.low <= i
           Finds(i) == i \in good /\ \A j \in good : i <= j
<1>1. PICK search : /\ IsHalving(cost, thresholds, search)
                    /\ LeastEnough(cost, thresholds) = thresholds[search[all]]
  BY HalvingEnds
<1>2. /\ search \in [X -> 1 .. m]
      /\ \A r \in X : search[r] = Halved(cost, thresholds, search, r)
  BY <1>1 DEF IsHalving
<1>3. \A i, j \in 1 .. m : i < j /\ i \in good => j \in good
  BY DEF EnoughFromThen
<1>4. \A i \in 1 .. m : Enough(cost, thresholds[i]) <=> i \in good
  OBVIOUS
<1>5. good \subseteq 1 .. m /\ m \in good
  BY DEF EnoughFromThen
<1>6. all \in X /\ Asks(all)
  <2>1. \A i \in good : i \in 1 .. m
    OBVIOUS
  <2> HIDE DEF good
  <2>2. QED
    BY <1>5, <2>1 DEF Ranges
<1> HIDE DEF good, all
<1>7. ASSUME NEW r \in X, Asks(r),
             \A s \in X : Width(s) < Width(r) /\ Asks(s) => Finds(search[s])
      PROVE  Finds(search[r])
  <2> DEFINE middle == (r.low + r.high) \div 2
  <2>1. r.low \in 1 .. m /\ r.high \in 1 .. m
    BY DEF Ranges
  <2>2. CASE r.low = r.high
    <3>1. search[r] = r.low
      <4>1. search[r] = Halved(cost, thresholds, search, r)
        BY <1>2
      <4>2. r.low >= r.high
        BY <2>1, <2>2
      <4>3. QED
        BY <4>1, <4>2 DEF Halved
    <3>2. QED
      BY <1>7, <2>2, <3>1
  <2>3. CASE r.low < r.high
    <3>1. /\ Lower(r) \in X /\ Upper(r) \in X
          /\ Lower(r).low = r.low /\ Lower(r).high = middle
          /\ Upper(r).low = middle + 1 /\ Upper(r).high = r.high
          /\ Lower(r).low <= Lower(r).high /\ Upper(r).low <= Upper(r).high
          /\ Width(Lower(r)) < Width(r) /\ Width(Upper(r)) < Width(r)
          /\ middle \in 1 .. m
      BY <2>3, HalvesAre
    <3>2. search[r] = IF Enough(cost, thresholds[middle]) THEN search[Lower(r)] ELSE search[Upper(r)]
      <4>1. search[r] = Halved(cost, thresholds, search, r)
        BY <1>2
      <4>2. ~(r.low >= r.high)
        BY <2>1, <2>3
      <4>3. QED
        BY <4>1, <4>2 DEF Halved, Lower, Upper
    <3> HIDE DEF middle
    <3>3. CASE middle \in good
      <4>1. Asks(Lower(r))
        BY <1>7, <3>1, <3>3
      <4>2. search[r] = search[Lower(r)]
        BY <1>4, <3>1, <3>2, <3>3
      <4>3. QED
        BY <1>7, <3>1, <4>1, <4>2
    <3>4. CASE middle \notin good
      <4>1. \A i \in good : middle + 1 <= i
        <5> SUFFICES ASSUME NEW i \in good PROVE middle + 1 <= i
          OBVIOUS
        <5>1. i \in 1 .. m
          BY <1>5
        <5>2. ~(i < middle) /\ i # middle
          BY <1>3, <3>1, <3>4, <5>1
        <5>3. QED
          BY <3>1, <5>1, <5>2
      <4>2. Asks(Upper(r))
        BY <1>7, <3>1, <4>1
      <4>3. search[r] = search[Upper(r)]
        BY <1>4, <3>1, <3>2, <3>4
      <4>4. QED
        BY <1>7, <3>1, <4>2, <4>3
    <3>5. QED
      BY <3>3, <3>4
  <2>4. QED
    BY <1>7, <2>1, <2>2, <2>3
<1> HIDE DEF Asks, Finds
<1>8. \A r \in X : Width(r) \in 0 .. m
  BY DEF Ranges, Width
<1> DEFINE P == {k \in 0 .. m + 1 : \A r \in X : Width(r) < k /\ Asks(r) => Finds(search[r])}
<1> HIDE DEF X
<1>9. 0 \in P
  BY <1>8
<1>10. ASSUME NEW k \in 1 .. m + 1, k - 1 \in P PROVE k \in P
  <2>1. \A r \in X : Width(r) < k - 1 /\ Asks(r) => Finds(search[r])
    BY <1>10
  <2>2. ASSUME NEW r \in X, Width(r) < k, Asks(r) PROVE Finds(search[r])
    <3>1. \A s \in X : Width(s) < Width(r) => Width(s) < k - 1
      BY <1>8, <2>2
    <3>2. QED
      BY <1>7, <2>1, <2>2, <3>1
  <2>3. QED
    BY <2>2
<1>11. m + 1 \in P
  <2> HIDE DEF P
  <2>1. m + 1 \in 0 .. m + 1 /\ m + 1 \in Nat
    OBVIOUS
  <2>2. QED
    BY <1>9, <1>10, <2>1, InductionUpTo
<1>12. Finds(search[all])
  <2>1. Width(all) < m + 1
    BY <1>6, <1>8
  <2>2. QED
    BY <1>6, <1>11, <2>1
<1> DEFINE i == search[all]
<1>13. i \in good /\ \A j \in good : i <= j
  BY <1>12 DEF Finds
<1>14. LeastEnough(cost, thresholds) = thresholds[i]
  BY <1>1
<1> HIDE DEF i
<1>15. i \in 1 .. m /\ Enough(cost, thresholds[i])
  BY <1>4, <1>5, <1>13
<1>16. \A j \in 1 .. m : j < i => ~Enough(cost, thresholds[j])
  BY <1>4, <1>13, <1>15
<1>17. QED
  BY <1>14, <1>15, <1>16 DEF FirstEnough, FindsFirst

-----------------------------------------------------------------------------
(* The assignment found is the best, and its error the least there is. *)

\* The largest cost of an assignment.
Largest(cost, n, a) == Max({cost[r][a[r]] : r \in 1 .. n})

\* The largest cost is that of some row, and no row costs more.
LEMMA LargestIs ==
  ASSUME NEW n \in Nat \ {0}, NEW cost \in CostMatrices(n), NEW a \in Bijection(1 .. n, 1 .. n)
  PROVE  /\ Largest(cost, n, a) \in Int
         /\ \A r \in 1 .. n : a[r] \in 1 .. n /\ cost[r][a[r]] <= Largest(cost, n, a)
         /\ \E r \in 1 .. n : Largest(cost, n, a) = cost[r][a[r]]
<1> DEFINE f == [r \in 1 .. n |-> cost[r][a[r]]]
           S == {f[r] : r \in 1 .. n}
<1>1. \A r \in 1 .. n : a[r] \in 1 .. n
  BY DEF Bijection, Injection
<1>2. \A r \in 1 .. n : cost[r][a[r]] \in Int /\ cost[r][a[r]] \in S
  BY <1>1 DEF CostMatrices
<1>3. S \subseteq Int /\ S # {}
  BY <1>2
<1>4. IsFiniteSet(S)
  <2>1. IsFiniteSet(1 .. n) /\ Cardinality(1 .. n) = n
    BY FS_Interval
  <2> HIDE DEF f
  <2>2. QED
    BY <2>1, FiniteImage
<1>5. S = {cost[r][a[r]] : r \in 1 .. n}
  OBVIOUS
<1>6. Largest(cost, n, a) = Max(S)
  BY <1>5 DEF Largest
<1>7. \A x \in S : \E r \in 1 .. n : x = cost[r][a[r]]
  OBVIOUS
<1> HIDE DEF S, f
<1>8. Max(S) \in S /\ \A x \in S : x <= Max(S)
  BY <1>3, <1>4, Extremes
<1>9. QED
  BY <1>1, <1>2, <1>3, <1>6, <1>7, <1>8

\* The costs, in order.
LEMMA CostsAre ==
  ASSUME NEW n \in Nat \ {0}, NEW cost \in CostMatrices(n)
  PROVE  /\ Costs(cost) \subseteq Int /\ IsFiniteSet(Costs(cost)) /\ Costs(cost) # {}
         /\ \A r, c \in 1 .. n : cost[r][c] \in Costs(cost)
<1> DEFINE row == [r \in 1 .. n |-> {cost[r][c] : c \in 1 .. n}]
           S == {row[r] : r \in 1 .. n}
<1>1. DOMAIN cost = 1 .. n /\ \A r \in 1 .. n : DOMAIN cost[r] = 1 .. n /\ \A c \in 1 .. n : cost[r][c] \in Int
  BY DEF CostMatrices
<1>2. Costs(cost) = UNION S
  BY <1>1 DEF Costs
<1>3. IsFiniteSet(1 .. n) /\ Cardinality(1 .. n) = n
  BY FS_Interval
<1>4. ASSUME NEW r \in 1 .. n PROVE IsFiniteSet(row[r])
  <2> DEFINE f == cost[r]
  <2>1. row[r] = {f[c] : c \in 1 .. n}
    OBVIOUS
  <2> HIDE DEF f
  <2>2. QED
    BY <1>3, <2>1, FiniteImage
<1>5. \A r, c \in 1 .. n : cost[r][c] \in UNION S
  OBVIOUS
<1>6. UNION S \subseteq Int /\ UNION S # {}
  <2>1. cost[1][1] \in UNION S
    BY <1>5
  <2>2. ASSUME NEW r \in 1 .. n PROVE row[r] \subseteq Int
    BY <1>1
  <2> HIDE DEF row
  <2>3. UNION S \subseteq Int
    BY <2>2
  <2> HIDE DEF S
  <2>4. QED
    BY <2>1, <2>3
<1> HIDE DEF row
<1>7. IsFiniteSet(S) /\ \A T \in S : IsFiniteSet(T)
  BY <1>3, <1>4, FiniteImage
<1> HIDE DEF S
<1>8. IsFiniteSet(UNION S)
  BY <1>7, FS_UNION
<1>9. QED
  BY <1>2, <1>5, <1>6, <1>8

\* An assignment that stays within a threshold stays within a larger one.
LEMMA MoreIsEnough ==
  ASSUME NEW n \in Nat \ {0}, NEW cost \in CostMatrices(n), NEW x \in Int, NEW y \in Int,
         x <= y, Enough(cost, x)
  PROVE  Enough(cost, y)
<1>1. PICK a \in Bijection(1 .. n, 1 .. n) : \A r \in 1 .. n : cost[r][a[r]] <= x
  BY EnoughIs DEF AllWithin
<1>2. \A r \in 1 .. n : cost[r][a[r]] \in Int
  BY DEF Bijection, Injection, CostMatrices
<1>3. \A r \in 1 .. n : cost[r][a[r]] <= y
  BY <1>1, <1>2
<1>4. QED
  BY <1>3, EnoughIs DEF AllWithin

\* The assignment found for a square matrix of costs is one whose largest cost is
\* the error reported, and no assignment has a smaller largest cost
\* (bottleneck_assignment and _perfect_matching, fit.py).
THEOREM AssignmentIsBest ==
  ASSUME NEW n \in Nat \ {0}, NEW cost \in [1 .. n -> [1 .. n -> Int]]
  PROVE  LET best == bottleneck_assignment(cost)
         IN  /\ best.assignment \in Bijection(1 .. n, 1 .. n)
             /\ Largest(cost, n, best.assignment) = best.error
             /\ \A a \in Bijection(1 .. n, 1 .. n) : best.error <= Largest(cost, n, a)
<1> DEFINE S == Costs(cost)
           thresholds == InOrder(S)
           m == Cardinality(S)
           least == LeastEnough(cost, thresholds)
           match == PerfectMatching(Within(cost, least))
           B == Bijection(1 .. n, 1 .. n)
<1>1. cost \in CostMatrices(n)
  BY DEF CostMatrices
<1>2. S \subseteq Int /\ IsFiniteSet(S) /\ S # {} /\ \A r, c \in 1 .. n : cost[r][c] \in S
  BY <1>1, CostsAre
<1>3. m \in Nat \ {0}
  BY <1>2, FS_CardinalityType, FS_EmptySet
<1>4. bottleneck_assignment(cost) = [error |-> least, assignment |-> match]
  <2>1. 1 \in DOMAIN cost
    OBVIOUS
  <2>2. cost # <<>>
    BY <2>1
  <2>3. QED
    BY <2>2 DEF bottleneck_assignment
<1> HIDE DEF S
<1>5. Lists(thresholds, S)
  BY <1>2, InOrderLists
<1> HIDE DEF thresholds
<1>6. /\ thresholds \in [1 .. m -> S]
      /\ \A i, j \in 1 .. m : i < j => thresholds[i] < thresholds[j]
      /\ \A x \in S : \E i \in 1 .. m : thresholds[i] = x
  BY <1>5 DEF Lists
<1> HIDE DEF m
<1>7. Len(thresholds) = m
  BY <1>3, <1>6, Sequence
<1>8. \A i \in 1 .. m : thresholds[i] \in S /\ thresholds[i] \in Int
  BY <1>2, <1>6
<1>9. Enough(cost, thresholds[m])
  <2> DEFINE id == [r \in 1 .. n |-> r]
  <2>1. id \in B
    BY DEF Bijection, Injection, Surjection, IsInjective
  <2>2. ASSUME NEW r \in 1 .. n PROVE cost[r][id[r]] <= thresholds[m]
    <3>1. id[r] = r /\ cost[r][r] \in S
      BY <1>2
    <3>2. PICK i \in 1 .. m : thresholds[i] = cost[r][r]
      BY <1>6, <3>1
    <3>3. i = m \/ i < m
      BY <1>3
    <3>4. m \in 1 .. m
      BY <1>3
    <3> HIDE DEF id
    <3>5. thresholds[i] \in Int /\ thresholds[m] \in Int
      BY <1>8, <3>4
    <3>6. thresholds[i] <= thresholds[m]
      <4>1. i < m => thresholds[i] < thresholds[m]
        BY <1>6, <3>4
      <4>2. QED
        BY <3>3, <3>5, <4>1
    <3>7. QED
      BY <3>1, <3>2, <3>6
  <2> HIDE DEF id
  <2>3. id \in AllWithin(cost, n, thresholds[m])
    BY <2>1, <2>2 DEF AllWithin
  <2>4. thresholds[m] \in Int
    BY <1>3, <1>8
  <2>5. QED
    BY <1>1, <2>3, <2>4, EnoughIs
<1>10. \A i, j \in 1 .. m : i < j /\ Enough(cost, thresholds[i]) => Enough(cost, thresholds[j])
  <2> SUFFICES ASSUME NEW i \in 1 .. m, NEW j \in 1 .. m, i < j, Enough(cost, thresholds[i])
               PROVE  Enough(cost, thresholds[j])
    OBVIOUS
  <2>1. thresholds[i] \in Int /\ thresholds[j] \in Int /\ thresholds[i] < thresholds[j]
    BY <1>6, <1>8
  <2>2. thresholds[i] <= thresholds[j]
    BY <2>1
  <2>3. QED
    BY <1>1, <2>1, <2>2, MoreIsEnough
<1>11. PICK i : FirstEnough(cost, thresholds, i) /\ least = thresholds[i]
  <2>1. EnoughFromThen(cost, thresholds, m)
    BY <1>9, <1>10 DEF EnoughFromThen
  <2>2. PICK k \in Nat \ {0} : k = m
    BY <1>3
  <2>3. Len(thresholds) = k /\ EnoughFromThen(cost, thresholds, k)
    BY <1>7, <2>1, <2>2
  <2>4. FindsFirst(cost, thresholds)
    BY <2>3, HalvingFinds
  <2>5. QED
    BY <2>4 DEF FindsFirst
<1>12. /\ i \in 1 .. m /\ Enough(cost, thresholds[i])
       /\ \A j \in 1 .. m : j < i => ~Enough(cost, thresholds[j])
  BY <1>7, <1>11 DEF FirstEnough
<1> HIDE DEF least
<1>13. least \in Int /\ Enough(cost, least)
  BY <1>8, <1>11, <1>12
<1>14. match \in AllWithin(cost, n, least)
  BY <1>1, <1>13, EnoughIs
<1> HIDE DEF match
<1>15. match \in B /\ \A r \in 1 .. n : cost[r][match[r]] <= least
  BY <1>14 DEF AllWithin
<1>16. ASSUME NEW a \in B PROVE least <= Largest(cost, n, a)
  <2> DEFINE x == Largest(cost, n, a)
  <2>1. x \in Int /\ x \in S /\ \A r \in 1 .. n : cost[r][a[r]] <= x
    <3>1. /\ x \in Int /\ \A r \in 1 .. n : a[r] \in 1 .. n /\ cost[r][a[r]] <= x
          /\ \E r \in 1 .. n : x = cost[r][a[r]]
      BY <1>1, LargestIs
    <3> HIDE DEF x
    <3>2. QED
      BY <1>2, <3>1
  <2> HIDE DEF x
  <2>2. Enough(cost, x)
    BY <1>1, <2>1, EnoughIs DEF AllWithin
  <2>3. PICK j \in 1 .. m : thresholds[j] = x
    BY <1>6, <2>1
  <2>4. ~(j < i)
    BY <1>12, <2>2, <2>3
  <2>5. j = i \/ i < j
    BY <1>3, <1>12, <2>4
  <2>6. thresholds[i] <= thresholds[j]
    BY <1>6, <1>8, <1>12, <2>5
  <2>7. QED
    BY <1>11, <2>3, <2>6 DEF x
<1>17. Largest(cost, n, match) = least
  <2> DEFINE x == Largest(cost, n, match)
  <2>1. x \in Int /\ least <= x
    BY <1>1, <1>15, <1>16, LargestIs
  <2>2. PICK r \in 1 .. n : x = cost[r][match[r]]
    BY <1>1, <1>15, LargestIs
  <2>3. x <= least
    BY <1>15, <2>2
  <2> HIDE DEF x
  <2>4. x = least
    BY <1>13, <2>1, <2>3
  <2>5. QED
    BY <2>4 DEF x
<1>18. QED
  BY <1>4, <1>15, <1>16, <1>17

-----------------------------------------------------------------------------
(* The closest fit over every apex and every choice of slots. *)

\* What a fit behind an apex is measured by: how far every drone is from the slot
\* chosen for it.
IsPoint(q) == q[1] \in Int /\ q[2] \in Int /\ q[3] \in Int
SlotGap(positions, offsets, apex, slot, d) ==
    Apart(positions[d], Plus(positions[apex], offsets[slot[d]]))
WorstGap(positions, offsets, apex, slot) ==
    Max({0} \cup {SlotGap(positions, offsets, apex, slot, d) : d \in DOMAIN slot})
WorstGaps(positions, offsets, apex) ==
    {WorstGap(positions, offsets, apex, slot) :
        slot \in Bijection(DOMAIN positions \ {apex}, DOMAIN offsets)}

\* A square is not negative.
LEMMA SquareIs ==
  ASSUME NEW x \in Int
  PROVE  Square(x) \in Int /\ Square(x) >= 0
BY SMTT(30) DEF Square

\* A distance is an integer and not negative.
LEMMA ApartIs ==
  ASSUME NEW q, NEW r, IsPoint(q), IsPoint(r)
  PROVE  Apart(q, r) \in Int /\ 0 <= Apart(q, r)
<1> DEFINE a == Square(q[1] - r[1])
           b == Square(q[2] - r[2])
           c == Square(q[3] - r[3])
<1>1. a \in Int /\ a >= 0 /\ b \in Int /\ b >= 0 /\ c \in Int /\ c >= 0
  BY SquareIs DEF IsPoint
<1>2. Apart(q, r) = a + b + c
  BY DEF Apart
<1> HIDE DEF a, b, c
<1>3. QED
  BY <1>1, <1>2

\* An offset from a point is a point.
LEMMA PlusIs ==
  ASSUME NEW q, NEW r, IsPoint(q), IsPoint(r)
  PROVE  IsPoint(Plus(q, r))
BY DEF IsPoint, Plus

\* Drones in a formation: one apex and as many followers as there are slots.
IsFormed(positions, offsets, n) ==
    /\ DOMAIN positions \subseteq Int /\ IsFiniteSet(DOMAIN positions)
    /\ Cardinality(DOMAIN positions) = n + 1
    /\ \A d \in DOMAIN positions : IsPoint(positions[d])
    /\ DOMAIN offsets = 1 .. n
    /\ \A i \in 1 .. n : IsPoint(offsets[i])

\* Rows are drones: a choice of slots is an assignment of rows to columns, and the
\* other way round.
LEMMA DronesAreRows ==
  ASSUME NEW n \in Nat, NEW D, NEW names \in Bijection(1 .. n, D),
         NEW slot \in Bijection(D, 1 .. n)
  PROVE  [r \in 1 .. n |-> slot[names[r]]] \in Bijection(1 .. n, 1 .. n)
<1> DEFINE N == 1 .. n
           f == [r \in N |-> slot[names[r]]]
<1>1. /\ names \in [N -> D] /\ \A r, q \in N : names[r] = names[q] => r = q
      /\ \A d \in D : \E r \in N : names[r] = d
  BY DEF Bijection, Injection, Surjection, IsInjective
<1>2. /\ slot \in [D -> N] /\ \A d, e \in D : slot[d] = slot[e] => d = e
      /\ \A c \in N : \E d \in D : slot[d] = c
  BY DEF Bijection, Injection, Surjection, IsInjective
<1> HIDE DEF N
<1>3. f \in [N -> N] /\ \A r, q \in N : f[r] = f[q] => r = q
  BY <1>1, <1>2
<1>4. \A c \in N : \E r \in N : f[r] = c
  <2> SUFFICES ASSUME NEW c \in N PROVE \E r \in N : f[r] = c
    OBVIOUS
  <2>1. PICK d \in D : slot[d] = c
    BY <1>2
  <2>2. PICK r \in N : names[r] = d
    BY <1>1
  <2>3. f[r] = c
    BY <2>1, <2>2
  <2>4. QED
    BY <2>3
<1> HIDE DEF f
<1>5. f \in Bijection(N, N)
  BY <1>3, <1>4 DEF Bijection, Injection, Surjection, IsInjective
<1>6. QED
  BY <1>5 DEF f, N

\* An assignment of rows to columns is one of the drones, listed by rows, to columns.
LEMMA RowsAreDrones ==
  ASSUME NEW n \in Nat, NEW D, NEW names \in Bijection(1 .. n, D), NEW a \in Bijection(1 .. n, 1 .. n)
  PROVE  \E s \in Bijection(D, 1 .. n) : \A r \in 1 .. n : s[names[r]] = a[r]
<1> DEFINE N == 1 .. n
           Row(d) == CHOOSE r \in N : names[r] = d
           s == [d \in D |-> a[Row(d)]]
<1>1. /\ names \in [N -> D] /\ \A r, q \in N : names[r] = names[q] => r = q
      /\ \A d \in D : \E r \in N : names[r] = d
  BY DEF Bijection, Injection, Surjection, IsInjective
<1>2. /\ a \in [N -> N] /\ \A r, q \in N : a[r] = a[q] => r = q
      /\ \A c \in N : \E r \in N : a[r] = c
  BY DEF Bijection, Injection, Surjection, IsInjective
<1> HIDE DEF N
<1>3. \A d \in D : Row(d) \in N /\ names[Row(d)] = d
  BY <1>1
<1>4. \A r \in N : names[r] \in D /\ Row(names[r]) = r
  BY <1>1, <1>3
<1> HIDE DEF Row
<1>5. s \in [D -> N]
  BY <1>2, <1>3
<1>6. \A d, e \in D : s[d] = s[e] => d = e
  <2> SUFFICES ASSUME NEW d \in D, NEW e \in D, s[d] = s[e] PROVE d = e
    OBVIOUS
  <2>1. a[Row(d)] = a[Row(e)]
    OBVIOUS
  <2>2. Row(d) = Row(e)
    BY <1>2, <1>3, <2>1
  <2>3. QED
    BY <1>3, <2>2
<1>7. \A r \in N : s[names[r]] = a[r]
  BY <1>4
<1>8. \A c \in N : \E d \in D : s[d] = c
  <2> SUFFICES ASSUME NEW c \in N PROVE \E d \in D : s[d] = c
    OBVIOUS
  <2>1. PICK r \in N : a[r] = c
    BY <1>2
  <2>2. names[r] \in D /\ s[names[r]] = c
    BY <1>4, <1>7, <2>1
  <2> HIDE DEF s
  <2>3. QED
    BY <2>2
<1> HIDE DEF s
<1>9. s \in Bijection(D, N)
  BY <1>5, <1>6, <1>8 DEF Bijection, Injection, Surjection, IsInjective
<1>10. QED
  BY <1>7, <1>9 DEF N

\* The rows of the matrix are the followers in order.
LEMMA FollowersInOrder ==
  ASSUME NEW n \in Nat, NEW D, D \subseteq Int, IsFiniteSet(D), Cardinality(D) = n
  PROVE  InOrder(D) \in Bijection(1 .. n, D)
<1> DEFINE f == InOrder(D)
<1>1. Lists(f, D)
  BY InOrderLists
<1> HIDE DEF f
<1>2. /\ f \in [1 .. n -> D] /\ \A i, j \in 1 .. n : i < j => f[i] < f[j]
      /\ \A x \in D : \E i \in 1 .. n : f[i] = x
  BY <1>1 DEF Lists
<1>3. \A i, j \in 1 .. n : f[i] = f[j] => i = j
  <2> SUFFICES ASSUME NEW i \in 1 .. n, NEW j \in 1 .. n, i # j PROVE f[i] # f[j]
    OBVIOUS
  <2>1. f[i] \in Int /\ f[j] \in Int
    BY <1>2
  <2>2. i < j \/ j < i
    OBVIOUS
  <2>3. f[i] < f[j] \/ f[j] < f[i]
    BY <1>2, <2>2
  <2>4. QED
    BY <2>1, <2>3
<1>4. f \in Bijection(1 .. n, D)
  BY <1>2, <1>3 DEF Bijection, Injection, Surjection, IsInjective
<1>5. QED
  BY <1>4 DEF f

\* What the code compares is what the fit is measured by.
LEMMA WorstGapIsLargest ==
  ASSUME NEW n \in Nat \ {0}, NEW positions, NEW offsets, IsFormed(positions, offsets, n),
         NEW apex \in DOMAIN positions,
         NEW names \in Bijection(1 .. n, DOMAIN positions \ {apex}),
         NEW slot \in Bijection(DOMAIN positions \ {apex}, 1 .. n), Len(names) = n,
         NEW a \in Bijection(1 .. n, 1 .. n), \A r \in 1 .. n : a[r] = slot[names[r]]
  PROVE  /\ CostBehind(positions, offsets, apex, names) \in CostMatrices(n)
         /\ WorstGap(positions, offsets, apex, slot) =
               Largest(CostBehind(positions, offsets, apex, names), n, a)
<1> DEFINE D == DOMAIN positions \ {apex}
           cost == CostBehind(positions, offsets, apex, names)
           Gap(d) == SlotGap(positions, offsets, apex, slot, d)
           S == {Gap(d) : d \in D}
<1>1. names \in [1 .. n -> D] /\ \A d \in D : \E r \in 1 .. n : names[r] = d
  BY DEF Bijection, Injection, Surjection, IsInjective
<1>2. a \in [1 .. n -> 1 .. n] /\ slot \in [D -> 1 .. n]
  BY DEF Bijection, Injection
<1>3. DOMAIN offsets = 1 .. n /\ IsPoint(positions[apex])
      /\ (\A i \in 1 .. n : IsPoint(offsets[i])) /\ (\A d \in D : IsPoint(positions[d]))
  BY DEF IsFormed
<1>4. cost = [r \in 1 .. n |-> [c \in 1 .. n |->
                 Apart(positions[names[r]], Plus(positions[apex], offsets[c]))]]
  BY <1>3 DEF CostBehind
<1>5. \A r, c \in 1 .. n : cost[r][c] = Apart(positions[names[r]], Plus(positions[apex], offsets[c]))
  BY <1>4
<1>6. ASSUME NEW r \in 1 .. n, NEW c \in 1 .. n
      PROVE  cost[r][c] \in Int /\ 0 <= cost[r][c]
  <2>1. IsPoint(positions[names[r]]) /\ IsPoint(offsets[c])
    BY <1>1, <1>3
  <2>2. IsPoint(Plus(positions[apex], offsets[c]))
    BY <1>3, <2>1, PlusIs
  <2> HIDE DEF cost
  <2>3. QED
    BY <1>5, <2>1, <2>2, ApartIs
<1>7. cost \in CostMatrices(n)
  <2> DEFINE row == [r \in 1 .. n |-> [c \in 1 .. n |-> cost[r][c]]]
  <2>1. cost = row
    BY <1>4, <1>5
  <2> HIDE DEF cost
  <2>2. row \in [1 .. n -> [1 .. n -> Int]]
    BY <1>6
  <2> HIDE DEF row
  <2>3. QED
    BY <2>1, <2>2 DEF CostMatrices
<1> HIDE DEF cost
<1>8. \A r \in 1 .. n : Gap(names[r]) = cost[r][a[r]]
  <2> SUFFICES ASSUME NEW r \in 1 .. n PROVE Gap(names[r]) = cost[r][a[r]]
    OBVIOUS
  <2>1. a[r] \in 1 .. n /\ a[r] = slot[names[r]]
    BY <1>2
  <2> HIDE DEF cost
  <2>2. cost[r][a[r]] = Apart(positions[names[r]], Plus(positions[apex], offsets[a[r]]))
    BY <1>5, <2>1
  <2>3. QED
    BY <2>1, <2>2 DEF SlotGap
<1> HIDE DEF Gap
<1> DEFINE m == Largest(cost, n, a)
<1>9. /\ m \in Int /\ \A r \in 1 .. n : cost[r][a[r]] <= m
      /\ \E r \in 1 .. n : m = cost[r][a[r]]
  BY <1>7, LargestIs
<1> HIDE DEF m
<1>10. \A d \in D : Gap(d) \in Int /\ 0 <= Gap(d) /\ Gap(d) <= m
  <2> SUFFICES ASSUME NEW d \in D PROVE Gap(d) \in Int /\ 0 <= Gap(d) /\ Gap(d) <= m
    OBVIOUS
  <2>1. PICK r \in 1 .. n : names[r] = d
    BY <1>1
  <2>2. Gap(d) = cost[r][a[r]] /\ a[r] \in 1 .. n
    BY <1>2, <1>8, <2>1
  <2>3. QED
    BY <1>6, <1>9, <2>2
<1>11. m \in S
  <2>1. PICK r \in 1 .. n : m = cost[r][a[r]]
    BY <1>9
  <2>2. names[r] \in D /\ Gap(names[r]) = m
    BY <1>1, <1>8, <2>1
  <2>3. QED
    BY <2>2
<1>12. /\ {0} \cup S \subseteq Int /\ m \in {0} \cup S
       /\ \A x \in {0} \cup S : x <= m
  <2>1. 0 <= m
    BY <1>10, <1>11
  <2>2. QED
    BY <1>10, <1>11, <2>1
<1>13. Max({0} \cup S) = m
  BY <1>12, MaxIs
<1>14. DOMAIN slot = D
  BY <1>2
<1>15. WorstGap(positions, offsets, apex, slot) = m
  BY <1>13, <1>14 DEF WorstGap, Gap
<1>16. QED
  BY <1>7, <1>15 DEF cost, m

\* A fit with this apex, and with the errors of some choice of slots.
IsFitBehind(fit, positions, offsets, apex) ==
    /\ fit.leader = apex
    /\ \E slot \in Bijection(DOMAIN positions \ {apex}, DOMAIN offsets) :
          /\ fit.error = WorstGap(positions, offsets, apex, slot)
          /\ fit.errors = [d \in DOMAIN positions \ {apex} |->
                             SlotGap(positions, offsets, apex, slot, d)]

\* The fit behind an apex is the closest over every choice of slots.
LEMMA FitBehindIsClosest ==
  ASSUME NEW n \in Nat, NEW positions, NEW offsets, IsFormed(positions, offsets, n),
         NEW apex \in DOMAIN positions
  PROVE  LET fit == FitBehind(positions, offsets, apex)
         IN  /\ fit.error \in Int /\ fit.error \in WorstGaps(positions, offsets, apex)
             /\ \A x \in WorstGaps(positions, offsets, apex) : x \in Int /\ fit.error <= x
             /\ IsFitBehind(fit, positions, offsets, apex)
<1> DEFINE D == DOMAIN positions \ {apex}
           names == InOrder(D)
           cost == CostBehind(positions, offsets, apex, names)
           best == bottleneck_assignment(cost)
           B == Bijection(1 .. n, 1 .. n)
           Worst(slot) == WorstGap(positions, offsets, apex, slot)
           RowOf(d) == CHOOSE row \in DOMAIN names : names[row] = d
           Given(d) == cost[RowOf(d)][best.assignment[RowOf(d)]]
           Gap(slot, d) == SlotGap(positions, offsets, apex, slot, d)
           fit == FitBehind(positions, offsets, apex)
<1>1. D \subseteq Int /\ IsFiniteSet(D) /\ Cardinality(D) = n
  <2> DEFINE all == DOMAIN positions
  <2>1. all \subseteq Int /\ IsFiniteSet(all) /\ Cardinality(all) = n + 1 /\ apex \in all
    BY DEF IsFormed
  <2> HIDE DEF all
  <2>2. IsFiniteSet(all \ {apex}) /\ Cardinality(all \ {apex}) = Cardinality(all) - 1
    BY <2>1, FS_RemoveElement
  <2>3. QED
    BY <2>1, <2>2 DEF all
<1>2. DOMAIN offsets = 1 .. n
  BY DEF IsFormed
<1>3. /\ fit.error = best.error /\ fit.leader = apex
      /\ fit.errors = [d \in D |-> Given(d)]
  BY DEF FitBehind
<1>4. fit.leader = apex /\ (\E slot \in Bijection(D, 1 .. n) :
                                fit.error = Worst(slot) /\ fit.errors = [d \in D |-> Gap(slot, d)])
          => IsFitBehind(fit, positions, offsets, apex)
  BY <1>2 DEF IsFitBehind
<1>5. \A x : x \in WorstGaps(positions, offsets, apex) <=> \E slot \in Bijection(D, 1 .. n) : x = Worst(slot)
  BY <1>2 DEF WorstGaps
<1> HIDE DEF D
<1>6. names \in Bijection(1 .. n, D)
  BY <1>1, FollowersInOrder
<1> HIDE DEF names
<1>7. Len(names) = n
  BY <1>6, Sequence DEF Bijection, Injection
<1> HIDE DEF best, Worst, Gap, Given, fit
<1>8. CASE n = 0
  <2>1. cost = <<>>
    BY <1>7, <1>8 DEF CostBehind
  <2>2. best.error = 0
    BY <2>1 DEF best, bottleneck_assignment
  <2>3. D = {}
    BY <1>1, <1>8, FS_EmptySet
  <2>4. ASSUME NEW slot \in Bijection(D, 1 .. n) PROVE Worst(slot) = 0
    <3>1. DOMAIN slot = {}
      BY <2>3 DEF Bijection, Injection
    <3>2. Worst(slot) = Max({0})
      BY <3>1 DEF Worst, WorstGap
    <3>3. Max({0}) = 0
      BY MaxIs
    <3>4. QED
      BY <3>2, <3>3
  <2>5. \E slot : slot \in Bijection(D, 1 .. n)
    <3> DEFINE slot == [d \in {} |-> 0]
    <3>1. slot \in Bijection({}, 1 .. 0)
      BY DEF Bijection, Injection, Surjection, IsInjective
    <3> HIDE DEF slot
    <3>2. QED
      BY <1>8, <2>3, <3>1
  <2>6. \A slot : fit.errors = [d \in D |-> Gap(slot, d)]
    BY <1>3, <2>3
  <2>7. IsFitBehind(fit, positions, offsets, apex)
    BY <1>3, <1>4, <2>2, <2>4, <2>5, <2>6
  <2>8. QED
    BY <1>3, <1>5, <2>2, <2>4, <2>5, <2>7 DEF fit
<1>9. CASE n # 0
  <2>1. n \in Nat \ {0}
    BY <1>9
  <2>2. ASSUME NEW slot \in Bijection(D, 1 .. n), NEW a \in B, \A r \in 1 .. n : a[r] = slot[names[r]]
        PROVE  cost \in CostMatrices(n) /\ Worst(slot) = Largest(cost, n, a)
    BY <1>6, <1>7, <2>1, <2>2, WorstGapIsLargest DEF D, Worst
  <2>3. ASSUME NEW slot \in Bijection(D, 1 .. n)
        PROVE  \E a \in B : \A r \in 1 .. n : a[r] = slot[names[r]]
    <3> DEFINE a == [r \in 1 .. n |-> slot[names[r]]]
    <3>1. a \in B
      BY <1>6, DronesAreRows
    <3>2. \A r \in 1 .. n : a[r] = slot[names[r]]
      OBVIOUS
    <3> HIDE DEF a
    <3>3. QED
      BY <3>1, <3>2
  <2>4. PICK any : any \in Bijection(D, 1 .. n)
    <3>1. names \in Bijection(1 .. n, D)
      BY <1>6
    <3>2. QED
      BY <3>1, Fun_BijInverse
  <2>5. cost \in CostMatrices(n)
    BY <2>2, <2>3, <2>4
  <2>6. \A row \in 1 .. n, c \in 1 .. n :
            cost[row][c] = Apart(positions[names[row]], Plus(positions[apex], offsets[c]))
    BY <1>2, <1>7 DEF CostBehind
  <2> HIDE DEF cost
  <2>7. /\ best.assignment \in B /\ Largest(cost, n, best.assignment) = best.error
        /\ \A a \in B : best.error <= Largest(cost, n, a)
    BY <2>1, <2>5, AssignmentIsBest DEF CostMatrices, best
  <2>8. ASSUME NEW slot \in Bijection(D, 1 .. n) PROVE Worst(slot) \in Int /\ best.error <= Worst(slot)
    <3>1. PICK a \in B : \A r \in 1 .. n : a[r] = slot[names[r]]
      BY <2>3
    <3>2. Worst(slot) = Largest(cost, n, a)
      BY <2>2, <3>1
    <3>3. Largest(cost, n, a) \in Int
      BY <2>1, <2>5, LargestIs
    <3>4. QED
      BY <2>7, <3>2, <3>3
  <2>9. PICK slot \in Bijection(D, 1 .. n) : \A r \in 1 .. n : slot[names[r]] = best.assignment[r]
    <3> DEFINE b == best.assignment
    <3>1. b \in B
      BY <2>7
    <3> HIDE DEF b
    <3>2. \E s \in Bijection(D, 1 .. n) : \A r \in 1 .. n : s[names[r]] = b[r]
      BY <1>6, <3>1, RowsAreDrones
    <3>3. QED
      BY <3>2 DEF b
  <2>10. Worst(slot) = best.error
    BY <2>2, <2>7, <2>9
  <2>11. ASSUME NEW d \in D PROVE Given(d) = Gap(slot, d)
    <3>1. RowOf(d) \in 1 .. n /\ names[RowOf(d)] = d
      BY <1>6 DEF Bijection, Surjection
    <3> HIDE DEF RowOf
    <3>2. best.assignment[RowOf(d)] = slot[d] /\ slot[d] \in 1 .. n
      BY <2>9, <3>1 DEF Bijection, Injection
    <3>3. QED
      BY <2>6, <3>1, <3>2 DEF Given, Gap, SlotGap
  <2>12. fit.errors = [d \in D |-> Gap(slot, d)]
    BY <1>3, <2>11
  <2>13. IsFitBehind(fit, positions, offsets, apex)
    BY <1>3, <1>4, <2>10, <2>12
  <2>14. QED
    BY <1>3, <1>5, <2>8, <2>10, <2>13 DEF fit
<1>10. QED
  BY <1>8, <1>9

\* The closest of the fits is kept.
LEMMA ClosestFitIs ==
  ASSUME NEW m \in Nat \ {0}, NEW fits, Len(fits) = m, Head(fits) = fits[1],
         \A i \in 1 .. m : fits[i].error \in Int
  PROVE  \E i \in 1 .. m : /\ ClosestFit(fits) = fits[i]
                           /\ \A j \in 1 .. m : fits[i].error <= fits[j].error
<1> DEFINE X == {fits[i] : i \in 1 .. m}
           step == [k \in 1 .. m |-> [b \in X |-> CloserFit(b, fits[k])]]
           base == fits[1]
           Walk(f) == [i \in 0 .. m |-> IF i = 0 THEN Head(fits) ELSE CloserFit(f[i - 1], fits[i])]
<1>1. \A k \in 1 .. m : fits[k] \in X
  OBVIOUS
<1>2. base \in X
  BY <1>1
<1>3. step \in Steps(m, X)
  <2>1. ASSUME NEW k \in 1 .. m, NEW b \in X PROVE step[k][b] \in X
    BY <1>1 DEF CloserFit
  <2>2. QED
    BY <2>1 DEF Steps
<1>4. \A k \in 1 .. m, b \in X : step[k][b] = CloserFit(b, fits[k])
  OBVIOUS
<1> HIDE DEF step, X, base
<1>5. PICK f : f \in Iterations(m, X, base, step)
  BY <1>2, <1>3, RecursionUpTo
<1>6. f \in [0 .. m -> X] /\ f[0] = base /\ \A k \in 1 .. m : f[k] = CloserFit(f[k - 1], fits[k])
  <2>1. f \in [0 .. m -> X] /\ f[0] = base /\ \A k \in 1 .. m : f[k] = step[k][f[k - 1]]
    BY <1>5 DEF Iterations
  <2>2. QED
    BY <1>4, <2>1
<1>7. f = Walk(f)
  <2>1. \A i \in 0 .. m : f[i] = IF i = 0 THEN Head(fits) ELSE CloserFit(f[i - 1], fits[i])
    <3>1. \A i \in 0 .. m : i = 0 \/ i \in 1 .. m
      OBVIOUS
    <3>2. QED
      BY <1>6, <3>1 DEF base
  <2>2. QED
    BY <1>6, <2>1
<1> DEFINE g == CHOOSE h : h = Walk(h)
<1>8. g = Walk(g)
  BY <1>7
<1>9. ClosestFit(fits) = g[m]
  BY Zenon DEF ClosestFit, g
<1> HIDE DEF g
<1>10. g[0] = fits[1] /\ \A k \in 1 .. m : g[k] = CloserFit(g[k - 1], fits[k])
  BY <1>8
<1> DEFINE P == {k \in 0 .. m : \E i \in 1 .. m : /\ g[k] = fits[i]
                                                  /\ \A j \in 1 .. k : fits[i].error <= fits[j].error}
<1>11. 0 \in P
  <2>1. 1 \in 1 .. m /\ 0 \in 0 .. m /\ 1 .. 0 = {}
    OBVIOUS
  <2>2. QED
    BY <1>10, <2>1
<1>12. ASSUME NEW k \in 1 .. m, k - 1 \in P PROVE k \in P
  <2>1. PICK i \in 1 .. m : g[k - 1] = fits[i] /\ \A j \in 1 .. k - 1 : fits[i].error <= fits[j].error
    BY <1>12
  <2>2. g[k] = IF fits[k].error < fits[i].error THEN fits[k] ELSE fits[i]
    BY <1>10, <2>1 DEF CloserFit
  <2>3. \A j \in 1 .. k : j = k \/ j \in 1 .. k - 1
    OBVIOUS
  <2>4. CASE fits[k].error < fits[i].error
    <3>1. ASSUME NEW j \in 1 .. k PROVE fits[k].error <= fits[j].error
      <4>1. fits[k].error \in Int /\ fits[i].error \in Int /\ fits[j].error \in Int
        OBVIOUS
      <4>2. j \in 1 .. k - 1 => fits[i].error <= fits[j].error
        BY <2>1
      <4>3. QED
        BY <2>3, <2>4, <4>1, <4>2
    <3>2. QED
      BY <2>2, <2>4, <3>1
  <2>5. CASE ~(fits[k].error < fits[i].error)
    <3>1. ASSUME NEW j \in 1 .. k PROVE fits[i].error <= fits[j].error
      <4>1. fits[k].error \in Int /\ fits[i].error \in Int /\ fits[j].error \in Int
        OBVIOUS
      <4>2. j \in 1 .. k - 1 => fits[i].error <= fits[j].error
        BY <2>1
      <4>3. QED
        BY <2>3, <2>5, <4>1, <4>2
    <3>2. QED
      BY <2>2, <2>5, <3>1
  <2>6. QED
    BY <2>4, <2>5
<1>13. m \in P
  <2> HIDE DEF P
  <2>1. \A k \in 0 .. m : k \in P
    BY <1>11, <1>12, InductionUpTo
  <2>2. QED
    BY <2>1
<1>14. QED
  BY <1>9, <1>13

\* The drones tried as the apex.
Apices(positions, leader) == IF leader = Nobody THEN DOMAIN positions ELSE {leader}

\* The fit reported for drones in a formation is the closest there is, whichever
\* drone is taken as the apex - the leader, if one is given - and however the slots
\* are given out: fit_formation's error is the smallest of the largest distances,
\* and its leader and errors are those of a choice that attains it (fit.py).
THEOREM FitIsClosest ==
  ASSUME NEW n \in Nat, NEW positions, NEW offsets, IsFormed(positions, offsets, n),
         NEW leader \in DOMAIN positions \cup {Nobody}
  PROVE  LET fit == fit_formation(positions, offsets, leader)
             errors == UNION {WorstGaps(positions, offsets, apex) : apex \in Apices(positions, leader)}
         IN  /\ fit.error \in errors /\ fit.error \in Int
             /\ \A x \in errors : x \in Int /\ fit.error <= x
             /\ \E apex \in Apices(positions, leader) : IsFitBehind(fit, positions, offsets, apex)
<1> DEFINE A == Apices(positions, leader)
           apexes == InOrder(A)
           m == Cardinality(A)
           fits == [i \in 1 .. m |-> FitBehind(positions, offsets, apexes[i])]
           error == fit_formation(positions, offsets, leader).error
           errors == UNION {WorstGaps(positions, offsets, apex) : apex \in A}
<1>1. /\ DOMAIN positions \subseteq Int /\ IsFiniteSet(DOMAIN positions)
      /\ DOMAIN positions # {}
  <2> DEFINE all == DOMAIN positions
  <2>1. all \subseteq Int /\ IsFiniteSet(all) /\ Cardinality(all) = n + 1
    BY DEF IsFormed
  <2> HIDE DEF all
  <2>2. all # {}
    BY <2>1, FS_EmptySet
  <2>3. QED
    BY <2>1, <2>2 DEF all
<1>2. A \subseteq DOMAIN positions /\ A # {} /\ A \subseteq Int
  <2>1. CASE leader = Nobody
    BY <1>1, <2>1 DEF Apices
  <2>2. CASE leader # Nobody
    BY <1>1, <2>2 DEF Apices
  <2>3. QED
    BY <2>1, <2>2
<1>3. fit_formation(positions, offsets, leader) =
         ClosestFit([i \in DOMAIN apexes |-> FitBehind(positions, offsets, apexes[i])])
  BY DEF fit_formation, Apices
<1> HIDE DEF A
<1>4. IsFiniteSet(A)
  BY <1>1, <1>2, FS_Subset
<1>5. m \in Nat /\ m # 0
  BY <1>2, <1>4, FS_CardinalityType, FS_EmptySet
<1>6. Lists(apexes, A)
  BY <1>2, <1>4, InOrderLists
<1> HIDE DEF apexes
<1>7. apexes \in [1 .. m -> A] /\ \A x \in A : \E i \in 1 .. m : apexes[i] = x
  BY <1>6 DEF Lists
<1> HIDE DEF m
<1>8. fit_formation(positions, offsets, leader) = ClosestFit(fits)
  BY <1>3, <1>7
<1>9. \A i \in 1 .. m : fits[i] = FitBehind(positions, offsets, apexes[i])
  OBVIOUS
<1>10. Len(fits) = m /\ Head(fits) = fits[1]
  <2>1. fits = [i \in 1 .. m |-> fits[i]]
    OBVIOUS
  <2> HIDE DEF fits
  <2>2. Len(fits) = m
    BY <1>5, <2>1, Sequence
  <2>3. QED
    BY <2>2
<1> HIDE DEF fits
<1>11. ASSUME NEW i \in 1 .. m
       PROVE  /\ fits[i].error \in Int /\ fits[i].error \in WorstGaps(positions, offsets, apexes[i])
              /\ \A x \in WorstGaps(positions, offsets, apexes[i]) : x \in Int /\ fits[i].error <= x
              /\ IsFitBehind(fits[i], positions, offsets, apexes[i])
  <2>1. apexes[i] \in DOMAIN positions
    BY <1>2, <1>7
  <2>2. QED
    BY <1>9, <2>1, FitBehindIsClosest
<1>12. PICK i \in 1 .. m : /\ ClosestFit(fits) = fits[i]
                           /\ \A j \in 1 .. m : fits[i].error <= fits[j].error
  BY <1>5, <1>10, <1>11, ClosestFitIs
<1>13. error = fits[i].error
  BY <1>8, <1>12
<1> HIDE DEF error
<1>14. error \in errors /\ error \in Int
  BY <1>7, <1>11, <1>13
<1>15. ASSUME NEW x \in errors PROVE x \in Int /\ error <= x
  <2>1. PICK apex \in A : x \in WorstGaps(positions, offsets, apex)
    OBVIOUS
  <2>2. PICK j \in 1 .. m : apexes[j] = apex
    BY <1>7
  <2>3. x \in Int /\ fits[j].error <= x /\ fits[j].error \in Int
    BY <1>11, <2>1, <2>2
  <2>4. fits[i].error <= fits[j].error /\ fits[i].error \in Int
    BY <1>11, <1>12
  <2>5. QED
    BY <1>13, <2>3, <2>4
<1>16. \E apex \in A : IsFitBehind(fit_formation(positions, offsets, leader), positions, offsets, apex)
  BY <1>7, <1>8, <1>11, <1>12
<1>17. QED
  BY <1>14, <1>15, <1>16 DEF error, A

-----------------------------------------------------------------------------
(* What is recorded. *)

\* The frames are one of every unit of time, each of every drone.
VerdictInv ==
    /\ study \in Studies
    /\ frames \in Seq(ToSet(frames))
    /\ \A i \in DOMAIN frames : frames[i].t = i /\ IsScene(frames[i], study.drones)

\* Nothing is recorded at first.
LEMMA VerdictInvInitially == VerdictInit => VerdictInv
<1> SUFFICES ASSUME VerdictInit PROVE VerdictInv
  OBVIOUS
<1>1. study \in Studies /\ frames = <<>>
  BY DEF VerdictInit
<1>2. frames \in Seq(ToSet(frames)) /\ DOMAIN frames = {}
  BY <1>1
<1>3. QED
  BY <1>1, <1>2 DEF VerdictInv

\* Record adds the frame of the next unit of time.
LEMMA VerdictInvKept == VerdictInv /\ [VerdictNext]_verdictVars => VerdictInv'
<1> SUFFICES ASSUME VerdictInv, [VerdictNext]_verdictVars PROVE VerdictInv'
  OBVIOUS
<1>1. CASE UNCHANGED verdictVars
  BY <1>1 DEF VerdictInv, verdictVars
<1>2. CASE Record
  <2>1. PICK scene \in Views[study.view] :
           frames' = Append(frames, [t |-> Len(frames) + 1, drones |-> scene.drones,
                                     mission |-> scene.mission, complete |-> scene.complete])
    BY <1>2 DEF Record
  <2> DEFINE f == [t |-> Len(frames) + 1, drones |-> scene.drones,
                   mission |-> scene.mission, complete |-> scene.complete]
             S == ToSet(frames) \cup {f}
             n == Len(frames)
  <2>2. study' = study /\ study \in Studies
    BY <1>2 DEF Record, VerdictInv
  <2>3. IsStudy(study)
    BY <2>2, StudiesAssumption
  <2>4. IsScene(scene, study.drones)
    BY <2>1, <2>3 DEF IsStudy
  <2>5. f.t = n + 1 /\ IsScene(f, study.drones)
    BY <2>4 DEF IsScene
  <2>6. frames' = Append(frames, f)
    BY <2>1
  <2> HIDE DEF f
  <2>7. frames \in Seq(S)
    BY SeqMonotonic DEF VerdictInv
  <2>8. f \in S
    OBVIOUS
  <2> HIDE DEF S
  <2>9. frames' \in Seq(S) /\ Len(frames') = n + 1 /\ n \in Nat
    BY <2>6, <2>7, <2>8
  <2>10. DOMAIN frames = 1 .. n /\ DOMAIN frames' = 1 .. n + 1
    BY <2>7, <2>9
  <2>11. \A i \in 1 .. n + 1 : frames'[i] = IF i = n + 1 THEN f ELSE frames[i]
    BY <2>6, <2>7, <2>8, <2>9
  <2>12. \A i \in 1 .. n + 1 : i = n + 1 \/ i \in 1 .. n
    BY <2>9
  <2>13. \A i \in 1 .. n + 1 : frames'[i].t = i /\ IsScene(frames'[i], study.drones)
    <3>1. \A i \in 1 .. n : frames[i].t = i /\ IsScene(frames[i], study.drones)
      BY <2>10 DEF VerdictInv
    <3>2. QED
      BY <2>5, <2>11, <2>12, <3>1
  <2>14. frames' \in Seq(ToSet(frames'))
    <3>1. \A i \in 1 .. n + 1 : frames'[i] \in ToSet(frames')
      BY <2>10 DEF ToSet
    <3>2. frames' \in [1 .. n + 1 -> ToSet(frames')]
      BY <2>9, <3>1
    <3>3. QED
      BY <2>9, <3>2, SeqDef
  <2>15. QED
    BY <2>2, <2>10, <2>13, <2>14 DEF VerdictInv
<1>3. QED
  BY <1>1, <1>2 DEF VerdictNext

\* The frames of a run are numbered by the time they were recorded at.
N == Len(frames)

\* A frame has the time of its number, and is found under its time.
LEMMA Recorded ==
  ASSUME VerdictInv
  PROVE  /\ N \in Nat /\ DOMAIN frames = 1 .. N
         /\ \A i \in 1 .. N : frames[i].t = i /\ frames[i] \in ToSet(frames)
         /\ \A f \in ToSet(frames) : f.t \in 1 .. N /\ frames[f.t] = f
         /\ frames # <<>> => N # 0
<1>1. N \in Nat /\ DOMAIN frames = 1 .. N
  BY LenProperties DEF VerdictInv, N
<1>2. \A i \in 1 .. N : frames[i].t = i /\ frames[i] \in ToSet(frames)
  BY <1>1 DEF VerdictInv, ToSet
<1>3. \A f \in ToSet(frames) : f.t \in 1 .. N /\ frames[f.t] = f
  BY <1>1, <1>2 DEF ToSet
<1>4. frames # <<>> => N # 0
  BY EmptySeq DEF VerdictInv, N
<1>5. QED
  BY <1>1, <1>2, <1>3, <1>4

\* Every frame recorded shows every drone of the scenario.
LEMMA Sampled ==
  ASSUME VerdictInv
  PROVE  /\ IsStudy(study)
         /\ \A i \in 1 .. N, d \in Fleet : IsSample(Of(frames[i], d))
         /\ \A f \in ToSet(frames), d \in Fleet : IsSample(Of(f, d))
         /\ \A i \in 1 .. N : frames[i].complete \in BOOLEAN
<1>1. IsStudy(study)
  BY StudiesAssumption DEF VerdictInv
<1>2. \A i \in 1 .. N : IsScene(frames[i], study.drones)
  BY Recorded DEF VerdictInv
<1>3. \A i \in 1 .. N, d \in Fleet : IsSample(Of(frames[i], d))
  BY <1>2 DEF IsScene, Fleet, Of
<1>4. \A f \in ToSet(frames), d \in Fleet : IsSample(Of(f, d))
  BY <1>3, Recorded
<1>5. \A i \in 1 .. N : frames[i].complete \in BOOLEAN
  BY <1>2 DEF IsScene
<1>6. QED
  BY <1>1, <1>3, <1>4, <1>5

\* What is recorded of a drone is somewhere.
LEMMA SampleIs ==
  ASSUME NEW x, IsSample(x)
  PROVE  IsPoint(x.position) /\ x.battery \in Int /\ x.armed \in BOOLEAN /\ x.airborne \in BOOLEAN
BY DEF IsSample, IsPoint, Positions

\* The earliest of some frames.
LEMMA EarliestIs ==
  ASSUME VerdictInv, NEW F \in SUBSET ToSet(frames), NEW i \in 1 .. N, frames[i] \in F,
         \A j \in 1 .. N : frames[j] \in F => i <= j
  PROVE  Min({f.t : f \in F}) = i
<1> DEFINE S == {f.t : f \in F}
<1>1. i \in S
  BY Recorded
<1>2. \A x \in S : x \in 1 .. N /\ i <= x
  BY Recorded
<1>3. S \subseteq Int
  BY <1>2
<1> HIDE DEF S
<1>4. Min(S) = i
  BY <1>1, <1>2, <1>3, MinIs
<1>5. QED
  BY <1>4 DEF S

\* The first of some numbers is one of them, if there are any.
LEMMA FirstOfIs ==
  ASSUME NEW n \in Nat, NEW S \in SUBSET (1 .. n)
  PROVE  /\ S = {} => FirstOf(S) = 0
         /\ S # {} => FirstOf(S) \in S /\ FirstOf(S) # 0 /\ \A x \in S : FirstOf(S) <= x
<1>1. IsFiniteSet(S)
  <2>1. IsFiniteSet(1 .. n) /\ Cardinality(1 .. n) = n
    BY FS_Interval
  <2>2. QED
    BY <2>1, FS_Subset
<1>4. S \subseteq Int
  OBVIOUS
<1>2. S # {} => Min(S) \in S /\ \A x \in S : Min(S) <= x
  BY <1>1, <1>4, Extremes
<1>3. \A x \in S : x # 0
  OBVIOUS
<1>5. QED
  BY <1>2, <1>3 DEF FirstOf

\* The parts of an outcome.
LEMMA OutcomeIs ==
  ASSUME NEW measured, NEW violations
  PROVE  /\ Outcome(measured, violations).passed = (violations = {})
         /\ Outcome(measured, violations).measured = measured
         /\ Outcome(measured, violations).violations = violations
BY DEF Outcome

\* A verdict with all that is said of it.
Judged(p) ==
    /\ evaluate.passed <=> Claim(p)
    /\ evaluate.measured # Unmeasured => evaluate.measured = Measure(p)
    /\ ~evaluate.passed /\ (\E v \in evaluate.violations : v.measured # Unmeasured)
          => evaluate.violations = Breaches(p)

Right(p, measured, violations) ==
    /\ violations = {} <=> Claim(p)
    /\ measured # Unmeasured => measured = Measure(p)
    /\ violations # {} /\ (\E v \in violations : v.measured # Unmeasured)
          => violations = Breaches(p)

\* An outcome that says what it should is a verdict that does.
LEMMA RightIsJudged ==
  ASSUME NEW p, NEW measured, NEW violations, evaluate = Outcome(measured, violations),
         Right(p, measured, violations)
  PROVE  Judged(p)
<1>1. evaluate.passed = (violations = {}) /\ evaluate.measured = measured /\ evaluate.violations = violations
  BY OutcomeIs
<1>2. evaluate.passed <=> Claim(p)
  BY <1>1 DEF Right
<1>3. QED
  BY <1>1, <1>2 DEF Judged, Right

-----------------------------------------------------------------------------
(* Assertions that look for one frame. *)

\* never_mode stops at the first frame in the mode.
LEMMA NeverModeIsJudged ==
  ASSUME VerdictInv, study.kind = "never_mode", NEW p, p = study.params
  PROVE  Judged(p)
<1> DEFINE S == {i \in DOMAIN frames : Of(frames[i], p.drone).mode = p.mode}
           F == {f \in ToSet(frames) : Of(f, p.drone).mode = p.mode}
           entered == FirstOf(S)
<1>1. evaluate = IF entered = 0 THEN Outcome(Unmeasured, {})
                 ELSE Outcome(frames[entered].t,
                              {Violation({p.drone}, frames[entered].t, Unmeasured)})
  BY DEF evaluate, never_mode
<1>2. /\ Claim(p) <=> \A f \in ToSet(frames) : Of(f, p.drone).mode # p.mode
      /\ Measure(p) = Min({f.t : f \in F})
  BY DEF Claim, Measure
<1>3. S \in SUBSET (1 .. N) /\ N \in Nat
  BY Recorded
<1>4. \A i \in 1 .. N : i \in S <=> frames[i] \in F
  BY Recorded
<1>5. F \in SUBSET ToSet(frames) /\ (\A f \in F : f.t \in S) /\ (Claim(p) <=> F = {})
  BY <1>2, Recorded
<1> HIDE DEF S, F
<1>6. CASE S = {}
  <2>1. entered = 0 /\ F = {}
    BY <1>3, <1>5, <1>6, FirstOfIs
  <2>2. evaluate = Outcome(Unmeasured, {})
    BY <1>1, <2>1
  <2>3. Claim(p)
    BY <1>5, <2>1
  <2>4. Right(p, Unmeasured, {})
    BY <2>3 DEF Right
  <2>5. QED
    BY <2>2, <2>4, RightIsJudged
<1>7. CASE S # {}
  <2>1. entered \in S /\ entered # 0 /\ \A i \in S : entered <= i
    BY <1>3, <1>7, FirstOfIs
  <2> HIDE DEF entered
  <2>2. entered \in 1 .. N /\ frames[entered].t = entered /\ frames[entered] \in F
    BY <1>3, <1>4, <2>1, Recorded
  <2>3. Min({f.t : f \in F}) = entered
    BY <1>4, <1>5, <2>1, <2>2, EarliestIs
  <2> DEFINE V == {Violation({p.drone}, entered, Unmeasured)}
  <2>4. evaluate = Outcome(entered, V)
    BY <1>1, <2>1, <2>2
  <2>5. V # {} /\ \A v \in V : v.measured = Unmeasured
    BY DEF Violation
  <2>6. ~Claim(p) /\ Measure(p) = entered
    BY <1>2, <1>5, <2>2, <2>3
  <2> HIDE DEF V
  <2>7. Right(p, entered, V)
    BY <2>5, <2>6 DEF Right
  <2>8. QED
    BY <2>4, <2>7, RightIsJudged
<1>8. QED
  BY <1>6, <1>7

\* final_position looks at the last frame.
LEMMA FinalPositionIsJudged ==
  ASSUME VerdictInv, frames # <<>>, study.kind = "final_position", NEW p, p = study.params
  PROVE  Judged(p)
<1> DEFINE gap == Apart(Of(Last(frames), p.drone).position, p.position)
           limit == Square(p.tolerance_m)
           V == IF gap > limit THEN {Violation({p.drone}, Last(frames).t, gap)} ELSE {}
<1>1. evaluate = Outcome(gap, V)
  BY DEF evaluate, final_position
<1>2. /\ Claim(p) <=> gap <= limit
      /\ Measure(p) = gap /\ Breaches(p) = {Violation({p.drone}, Last(frames).t, gap)}
  BY DEF Claim, Measure, Breaches, GapAt
<1>3. p.drone \in Fleet /\ p.position \in Positions /\ p.tolerance_m \in Int
  <2>1. IsAssertion(study.kind, study.params, study.drones)
    BY Sampled DEF IsStudy
  <2>2. QED
    BY <2>1 DEF IsAssertion, Fleet
<1>4. IsPoint(p.position) /\ IsPoint(Of(Last(frames), p.drone).position)
  <2>1. Last(frames) = frames[N] /\ N \in 1 .. N
    BY Recorded DEF Last, N
  <2>2. IsSample(Of(Last(frames), p.drone))
    BY <1>3, <2>1, Sampled
  <2>3. QED
    BY <1>3, <2>2, SampleIs DEF IsPoint, Positions
<1>5. gap \in Int /\ limit \in Int
  BY <1>3, <1>4, ApartIs, SquareIs
<1>6. V # {} => Breaches(p) = V
  BY <1>2
<1> HIDE DEF gap, limit
<1>7. V = {} <=> gap <= limit
  BY <1>5
<1> HIDE DEF V
<1>8. Right(p, gap, V)
  BY <1>2, <1>6, <1>7 DEF Right
<1>9. QED
  BY <1>1, <1>8, RightIsJudged

\* reaches stops at the first frame in time at which the drone is there.
LEMMA ReachesIsJudged ==
  ASSUME VerdictInv, study.kind = "reaches", NEW p, p = study.params
  PROVE  Judged(p)
<1> DEFINE limit == Square(p.tolerance_m)
           Gap(f) == Apart(Of(f, p.drone).position, p.position)
           watched == {i \in DOMAIN frames : p.from_s <= frames[i].t /\ frames[i].t <= p.by_s}
           S == {i \in watched : Gap(frames[i]) <= limit}
           F == Visits(p)
           there == FirstOf(S)
           W == Watched(p)
           closest == IF watched = {} THEN Unmeasured ELSE Min({Gap(frames[i]) : i \in watched})
           lost == {Violation({p.drone}, p.by_s, closest)}
<1>1. evaluate = IF there # 0 THEN Outcome(frames[there].t, {}) ELSE Outcome(Unmeasured, lost)
  BY DEF evaluate, reaches
<1>2. /\ Claim(p) <=> F # {}
      /\ Measure(p) = Min({f.t : f \in F})
      /\ Breaches(p) = {Violation({p.drone}, p.by_s, Min({GapAt(p, f) : f \in W}))}
  BY DEF Claim, Measure, Breaches
<1>3. S \in SUBSET (1 .. N) /\ N \in Nat
  BY Recorded
<1>4. F \in SUBSET ToSet(frames) /\ \A i \in 1 .. N : i \in S <=> frames[i] \in F
  BY Recorded DEF Visits, Watched, GapAt
<1>5. \A f \in F : f.t \in S
  BY <1>4, Recorded
<1>6. lost # {} /\ ((\E v \in lost : v.measured # Unmeasured) => Breaches(p) = lost)
  <2>1. (\A i \in watched : frames[i] \in W) /\ \A f \in W : \E i \in watched : frames[i] = f
    BY Recorded DEF Watched
  <2>2. {Gap(frames[i]) : i \in watched} = {GapAt(p, f) : f \in W}
    BY <2>1 DEF GapAt
  <2>3. watched # {} => Breaches(p) = lost
    BY <1>2, <2>2
  <2>4. watched = {} => \A v \in lost : v.measured = Unmeasured
    BY DEF Violation
  <2> HIDE DEF watched, closest
  <2>5. QED
    BY <2>3, <2>4
<1> HIDE DEF S, F, lost
<1>7. CASE S = {}
  <2>1. there = 0 /\ F = {}
    BY <1>3, <1>5, <1>7, FirstOfIs
  <2>2. evaluate = Outcome(Unmeasured, lost)
    BY <1>1, <2>1
  <2>3. Right(p, Unmeasured, lost)
    BY <1>2, <1>6, <2>1 DEF Right
  <2>4. QED
    BY <2>2, <2>3, RightIsJudged
<1>8. CASE S # {}
  <2>1. there \in S /\ there # 0 /\ \A i \in S : there <= i
    BY <1>3, <1>8, FirstOfIs
  <2> HIDE DEF there
  <2>2. there \in 1 .. N /\ frames[there].t = there /\ frames[there] \in F
    BY <1>3, <1>4, <2>1, Recorded
  <2>3. Min({f.t : f \in F}) = there
    BY <1>4, <2>1, <2>2, EarliestIs
  <2>4. evaluate = Outcome(there, {})
    BY <1>1, <2>1, <2>2
  <2>5. Right(p, there, {})
    BY <1>2, <2>2, <2>3 DEF Right
  <2>6. QED
    BY <2>4, <2>5, RightIsJudged
<1>9. QED
  BY <1>7, <1>8

\* mission_completes looks for the first frame that reports the last mission complete.
LEMMA MissionCompletesIsJudged ==
  ASSUME VerdictInv, study.kind = "mission_completes", NEW p, p = study.params
  PROVE  Judged(p)
<1>1. CASE study.missions = <<>>
  <2> DEFINE V == NotMeasured({}, Unmeasured)
  <2>1. evaluate = Outcome(Unmeasured, V)
    BY <1>1 DEF evaluate, mission_completes
  <2>2. ~Claim(p) /\ V # {} /\ \A v \in V : v.measured = Unmeasured
    BY <1>1 DEF Claim, NotMeasured, Violation
  <2> HIDE DEF V
  <2>3. Right(p, Unmeasured, V)
    BY <2>2 DEF Right
  <2>4. QED
    BY <2>1, <2>3, RightIsJudged
<1>2. CASE study.missions # <<>>
  <2> DEFINE dispatched == Last(study.missions)
             at == dispatched.at_s
             F == Completions(dispatched.id)
             S == {i \in DOMAIN frames : frames[i].mission = dispatched.id /\ frames[i].complete}
             completed == FirstOf(S)
             none == NotMeasured({}, Unmeasured)
             took == frames[completed].t - at
             V == IF took > p.within_s THEN {Violation({}, frames[completed].t, took)} ELSE {}
  <2>1. evaluate = IF completed = 0 THEN Outcome(Unmeasured, none) ELSE Outcome(took, V)
    BY <1>2 DEF evaluate, mission_completes
  <2>2. /\ Claim(p) <=> \E f \in F : f.t - at <= p.within_s
        /\ Measure(p) = Min({f.t : f \in F}) - at
        /\ Breaches(p) = {Violation({}, Measure(p) + at, Measure(p))}
        /\ none # {} /\ \A v \in none : v.measured = Unmeasured
    BY <1>2 DEF Claim, Measure, Breaches, NotMeasured, Violation
  <2>3. at \in Int /\ p.within_s \in Int
    <3>1. IsStudy(study)
      BY Sampled
    <3>2. Len(study.missions) \in Nat \ {0} /\ DOMAIN study.missions = 1 .. Len(study.missions)
      BY <1>2, <3>1, EmptySeq, LenProperties DEF IsStudy
    <3>3. Last(study.missions) \in ToSet(study.missions)
      BY <3>2 DEF Last, ToSet
    <3>4. IsAssertion(study.kind, study.params, study.drones)
      BY <3>1 DEF IsStudy
    <3>5. p.within_s \in Int
      BY <3>4 DEF IsAssertion
    <3>6. QED
      BY <3>1, <3>3, <3>5 DEF IsStudy
  <2>4. S \in SUBSET (1 .. N) /\ N \in Nat
    BY Recorded
  <2>5. F \in SUBSET ToSet(frames) /\ \A i \in 1 .. N : i \in S <=> frames[i] \in F
    BY Recorded DEF Completions
  <2>6. \A f \in F : f.t \in S
    BY <2>5, Recorded
  <2> HIDE DEF S, F, none, at
  <2>7. CASE S = {}
    <3>1. completed = 0 /\ F = {}
      BY <2>4, <2>6, <2>7, FirstOfIs
    <3>2. evaluate = Outcome(Unmeasured, none) /\ ~Claim(p)
      BY <2>1, <2>2, <3>1
    <3>3. Right(p, Unmeasured, none)
      BY <2>2, <3>2 DEF Right
    <3>4. QED
      BY <3>2, <3>3, RightIsJudged
  <2>8. CASE S # {}
    <3>1. completed \in S /\ completed # 0 /\ \A i \in S : completed <= i
      BY <2>4, <2>8, FirstOfIs
    <3> HIDE DEF completed
    <3>2. completed \in 1 .. N /\ frames[completed].t = completed /\ frames[completed] \in F
      BY <2>4, <2>5, <3>1, Recorded
    <3>3. Min({f.t : f \in F}) = completed
      BY <2>5, <3>1, <3>2, EarliestIs
    <3>4. evaluate = Outcome(took, V)
      BY <2>1, <3>1
    <3>5. took = completed - at /\ Measure(p) = took
      BY <2>2, <3>2, <3>3
    <3>6. V = {} <=> completed - at <= p.within_s
      BY <2>3, <3>2, <3>5
    <3>7. \A f \in F : completed <= f.t /\ f.t \in Int
      <4>1. \A x \in S : x \in Int
        BY <2>4
      <4>2. QED
        BY <2>6, <3>1, <4>1
    <3>8. V # {} => Breaches(p) = V
      <4>1. took + at = completed /\ frames[completed].t = completed
        BY <2>3, <3>2, <3>5
      <4>2. Breaches(p) = {Violation({}, completed, took)}
        BY <2>2, <3>5, <4>1
      <4> HIDE DEF took
      <4>3. QED
        BY <4>1, <4>2
    <3> HIDE DEF V, took
    <3>9. Claim(p) <=> completed - at <= p.within_s
      <4>1. (\E f \in F : f.t - at <= p.within_s) => completed - at <= p.within_s
        BY <2>3, <3>2, <3>7
      <4>2. completed - at <= p.within_s => \E f \in F : f.t - at <= p.within_s
        BY <3>2
      <4>3. QED
        BY <2>2, <4>1, <4>2
    <3>10. Right(p, took, V)
      BY <3>5, <3>6, <3>9, <3>8 DEF Right
    <3>11. QED
      BY <3>4, <3>10, RightIsJudged
  <2>9. QED
    BY <2>7, <2>8
<1>3. QED
  BY <1>1, <1>2

-----------------------------------------------------------------------------
(* How things stood at a time. *)

\* Max of some numbers up to n is one of them.
LEMMA GreatestIs ==
  ASSUME NEW n \in Nat, NEW S \in SUBSET (0 .. n), S # {}
  PROVE  Max(S) \in S /\ \A x \in S : x <= Max(S)
<1>1. IsFiniteSet(S)
  <2>1. IsFiniteSet(0 .. n) /\ Cardinality(0 .. n) = IF 0 > n THEN 0 ELSE n - 0 + 1
    BY FS_Interval
  <2>2. QED
    BY <2>1, FS_Subset
<1>2. S \subseteq Int
  OBVIOUS
<1>3. QED
  BY <1>1, <1>2, Extremes

\* The code looks at the last frame up to the time; so does At.
LEMMA DeadlineIs ==
  ASSUME VerdictInv, frames # <<>>, NEW by \in Int
  PROVE  /\ Deadline(by) \in 1 .. N
         /\ At(by) = frames[Deadline(by)]
<1> DEFINE T == {i \in DOMAIN frames : frames[i].t <= by}
           S == {1} \cup T
           D == Deadline(by)
           Stands(f) == /\ f.t <= by \/ f = frames[1]
                        /\ \A g \in ToSet(frames) : g.t <= by => g.t <= f.t
<1>1. N \in Nat /\ 1 \in 1 .. N /\ DOMAIN frames = 1 .. N
  BY Recorded
<1>2. \A i : i \in T <=> i \in 1 .. N /\ i <= by
  BY Recorded
<1>3. D = Max(S) /\ S \in SUBSET (0 .. N) /\ S # {}
  BY <1>1, <1>2 DEF Deadline
<1> HIDE DEF T, D
<1>4. D \in S /\ \A x \in S : x <= D
  BY <1>1, <1>3, GreatestIs
<1>5. D \in 1 .. N
  BY <1>1, <1>2, <1>4
<1>6. \A g \in ToSet(frames) : g.t <= by => g.t \in T
  BY <1>2, Recorded
<1>7. frames[D] \in ToSet(frames) /\ frames[D].t = D
  BY <1>5, Recorded
<1>8. Stands(frames[D])
  <2>1. D <= by \/ D = 1
    BY <1>2, <1>4
  <2>2. QED
    BY <1>4, <1>6, <1>7, <2>1
<1>9. ASSUME NEW f \in ToSet(frames), Stands(f) PROVE f = frames[D]
  <2>1. f.t \in 1 .. N /\ frames[f.t] = f /\ frames[1].t = 1
    BY <1>1, Recorded
  <2>2. f.t \in S
    <3>1. CASE f.t <= by
      BY <1>6, <3>1
    <3>2. CASE f = frames[1]
      BY <2>1, <3>2
    <3>3. QED
      BY <1>9, <3>1, <3>2
  <2>3. f.t <= D
    BY <1>4, <2>2
  <2>4. D <= f.t
    <3>1. CASE D \in T
      BY <1>2, <1>7, <1>9, <3>1
    <3>2. CASE D = 1
      BY <1>1, <2>1, <3>2
    <3>3. QED
      BY <1>4, <3>1, <3>2
  <2>5. f.t = D
    BY <1>1, <1>5, <2>1, <2>3, <2>4
  <2>6. QED
    BY <2>1, <2>5
<1>10. At(by) = CHOOSE f \in ToSet(frames) : Stands(f)
  BY DEF At
<1> HIDE DEF Stands
<1>11. At(by) = frames[D]
  BY <1>7, <1>8, <1>9, <1>10
<1>12. QED
  BY <1>5, <1>11 DEF D

\* all_landed looks at the last frame in time, and back to the last with a drone up.
LEMMA AllLandedIsJudged ==
  ASSUME VerdictInv, frames # <<>>, study.kind = "all_landed", NEW p, p = study.params
  PROVE  Judged(p)
<1> DEFINE D == Deadline(p.by_s)
           last == frames[D]
           U == {i \in 1 .. D : Up(frames[i]) # {}}
           lastUp == Max({0} \cup U)
           V == {Violation({d}, last.t, Of(last, d).position[3]) : d \in Up(last)}
           F == {f \in ToSet(frames) :
                    /\ f.t <= At(p.by_s).t
                    /\ \A g \in ToSet(frames) : f.t <= g.t /\ g.t <= At(p.by_s).t => Up(g) = {}}
<1>1. evaluate = IF Up(last) # {} THEN Outcome(Unmeasured, V) ELSE Outcome(frames[lastUp + 1].t, {})
  BY DEF evaluate, all_landed
<1>2. /\ Claim(p) <=> Up(At(p.by_s)) = {}
      /\ Measure(p) = Min({f.t : f \in F})
      /\ Breaches(p) = {Violation({d}, At(p.by_s).t, Of(At(p.by_s), d).position[3]) : d \in Up(At(p.by_s))}
  BY DEF Claim, Measure, Breaches
<1>3. p.by_s \in Int
  <2>1. IsAssertion(study.kind, study.params, study.drones)
    BY Sampled DEF IsStudy
  <2>2. QED
    BY <2>1 DEF IsAssertion
<1>4. D \in 1 .. N /\ At(p.by_s) = last /\ last.t = D /\ N \in Nat
  BY <1>3, DeadlineIs, Recorded
<1>5. Breaches(p) = V /\ (Claim(p) <=> Up(last) = {})
  BY <1>2, <1>4
<1>6. V = {} <=> Up(last) = {}
  OBVIOUS
<1> HIDE DEF V, F, D, last, lastUp, U
<1>7. CASE Up(last) # {}
  <2>1. evaluate = Outcome(Unmeasured, V)
    BY <1>1, <1>7
  <2>2. Right(p, Unmeasured, V)
    BY <1>5, <1>6 DEF Right
  <2>3. QED
    BY <2>1, <2>2, RightIsJudged
<1>8. CASE Up(last) = {}
  <2>1. U \in SUBSET (1 .. D) /\ D \notin U
    BY <1>8 DEF U, last
  <2>2. lastUp \in {0} \cup U /\ \A x \in U : x <= lastUp
    <3>1. {0} \cup U \in SUBSET (0 .. D) /\ {0} \cup U # {} /\ D \in Nat
      BY <1>4, <2>1
    <3>2. QED
      BY <3>1, GreatestIs DEF lastUp
  <2>3. lastUp \in Int /\ 0 <= lastUp /\ lastUp < D
    BY <1>4, <2>1, <2>2
  <2> DEFINE i == lastUp + 1
  <2>4. i \in 1 .. D /\ i \in 1 .. N
    BY <1>4, <2>3
  <2>5. \A j \in 1 .. D : i <= j => Up(frames[j]) = {}
    <3> SUFFICES ASSUME NEW j \in 1 .. D, i <= j PROVE j \notin U
      BY DEF U
    <3>1. ~(j <= lastUp)
      BY <1>4, <2>3
    <3>2. QED
      BY <2>2, <3>1
  <2>6. ASSUME NEW j \in 1 .. N PROVE frames[j] \in F <=> i <= j /\ j <= D
    <3>1. frames[j].t = j /\ frames[j] \in ToSet(frames)
      BY Recorded
    <3>2. frames[j] \in F <=> j <= D /\ \A g \in ToSet(frames) : j <= g.t /\ g.t <= D => Up(g) = {}
      BY <1>4, <3>1 DEF F
    <3>3. ASSUME i <= j, j <= D, NEW g \in ToSet(frames), j <= g.t, g.t <= D PROVE Up(g) = {}
      <4>1. g.t \in 1 .. N /\ frames[g.t] = g
        BY Recorded
      <4>2. g.t \in 1 .. D /\ i <= g.t
        BY <1>4, <2>4, <3>3, <4>1
      <4>3. QED
        BY <2>5, <4>1, <4>2
    <3>4. ASSUME ~(i <= j), j <= D PROVE \E g \in ToSet(frames) : j <= g.t /\ g.t <= D /\ Up(g) # {}
      <4>1. j <= lastUp /\ lastUp \in 1 .. N /\ lastUp \in U
        BY <1>4, <2>2, <2>3, <3>4
      <4>2. frames[lastUp] \in ToSet(frames) /\ frames[lastUp].t = lastUp /\ Up(frames[lastUp]) # {}
        BY <4>1, Recorded DEF U
      <4>3. lastUp <= D
        BY <1>4, <2>3
      <4>4. QED
        BY <4>1, <4>2, <4>3
    <3>5. QED
      BY <3>2, <3>3, <3>4
  <2> HIDE DEF i
  <2>7. F \in SUBSET ToSet(frames)
    BY DEF F
  <2>8. frames[i] \in F /\ \A j \in 1 .. N : frames[j] \in F => i <= j
    BY <1>4, <2>4, <2>6
  <2>9. Min({f.t : f \in F}) = i
    BY <2>4, <2>7, <2>8, EarliestIs
  <2>10. frames[i].t = i /\ evaluate = Outcome(frames[i].t, {})
    BY <1>1, <1>8, <2>4, Recorded DEF i
  <2>11. Right(p, i, {})
    BY <1>2, <1>5, <1>8, <2>9 DEF Right
  <2>12. QED
    BY <2>10, <2>11, RightIsJudged
<1>9. QED
  BY <1>7, <1>8

-----------------------------------------------------------------------------
(* How close a pair came. *)

\* The numbers of a set up to one of them.
UpTo(S, k) == {j \in S : j <= k}

\* They grow by one number at a time, from none to all.
LEMMA UpToIs ==
  ASSUME NEW n \in Nat, NEW S \in SUBSET (1 .. n)
  PROVE  /\ UpTo(S, 0) = {} /\ UpTo(S, n) = S
         /\ \A k \in 1 .. n : k \notin S => UpTo(S, k) = UpTo(S, k - 1)
         /\ \A k \in S : UpTo(S, k) = UpTo(S, k - 1) \cup {k}
         /\ \A k \in 1 .. n : \A j \in UpTo(S, k - 1) : j \in 1 .. n /\ j < k
<1>1. \A j \in S : j \in 1 .. n
  OBVIOUS
<1>2. UpTo(S, 0) = {}
  <2>1. \A j \in 1 .. n : ~(j <= 0)
    OBVIOUS
  <2>2. QED
    BY <1>1, <2>1 DEF UpTo
<1>3. UpTo(S, n) = S
  <2>1. \A j \in 1 .. n : j <= n
    OBVIOUS
  <2>2. QED
    BY <1>1, <2>1 DEF UpTo
<1>4. \A k \in 1 .. n : \A j \in UpTo(S, k - 1) : j \in 1 .. n /\ j < k
  <2>1. \A k, j \in 1 .. n : j <= k - 1 => j < k
    OBVIOUS
  <2>2. QED
    BY <1>1, <2>1 DEF UpTo
<1>5. \A k \in 1 .. n : \A j \in S : j <= k <=> j <= k - 1 \/ j = k
  <2>1. \A k, j \in 1 .. n : j <= k <=> j <= k - 1 \/ j = k
    OBVIOUS
  <2>2. QED
    BY <1>1, <2>1
<1>6. \A k \in 1 .. n : k \notin S => UpTo(S, k) = UpTo(S, k - 1)
  <2> SUFFICES ASSUME NEW k \in 1 .. n, k \notin S PROVE UpTo(S, k) = UpTo(S, k - 1)
    OBVIOUS
  <2>1. \A j \in S : j <= k <=> j <= k - 1
    BY <1>5
  <2>2. QED
    BY <2>1 DEF UpTo
<1>7. \A k \in S : UpTo(S, k) = UpTo(S, k - 1) \cup {k}
  <2> SUFFICES ASSUME NEW k \in S PROVE UpTo(S, k) = UpTo(S, k - 1) \cup {k}
    OBVIOUS
  <2>1. \A j \in S : j <= k <=> j <= k - 1 \/ j = k
    BY <1>1, <1>5
  <2>2. QED
    BY <2>1 DEF UpTo
<1>8. QED
  BY <1>2, <1>3, <1>4, <1>6, <1>7

\* What they are up to a number that is not one of them.
LEMMA UpToSkips ==
  ASSUME NEW n \in Nat, NEW S \in SUBSET (1 .. n), NEW k \in 1 .. n, k \notin S
  PROVE  UpTo(S, k) = UpTo(S, k - 1)
<1>1. \A j \in S : j <= k <=> j <= k - 1
  <2>1. \A j \in S : j \in 1 .. n /\ j # k
    OBVIOUS
  <2>2. QED
    BY <2>1
<1>2. QED
  BY <1>1 DEF UpTo

\* And up to one that is.
LEMMA UpToTakes ==
  ASSUME NEW n \in Nat, NEW S \in SUBSET (1 .. n), NEW k \in S
  PROVE  /\ UpTo(S, k) = UpTo(S, k - 1) \cup {k}
         /\ \A j \in UpTo(S, k - 1) : j \in 1 .. n /\ j < k
<1>1. \A j \in S : j \in 1 .. n
  OBVIOUS
<1>2. k \in 1 .. n /\ \A j \in S : j <= k <=> j <= k - 1 \/ j = k
  BY <1>1
<1>3. UpTo(S, k) = UpTo(S, k - 1) \cup {k}
  BY <1>2 DEF UpTo
<1>4. \A j \in UpTo(S, k - 1) : j \in 1 .. n /\ j < k
  BY <1>1, <1>2 DEF UpTo
<1>5. QED
  BY <1>3, <1>4

\* A walk over the numbers up to n that keeps the smallest of the values met, and
\* which came first.
IsNearestWalk(g, n, met, apart) ==
    /\ g[0] = NeverMet
    /\ \A k \in 1 .. n :
          g[k] = IF k \in met
                 THEN IF g[k - 1] = NeverMet \/ apart[k] < g[k - 1].apart
                      THEN [apart |-> apart[k], t |-> k] ELSE g[k - 1]
                 ELSE g[k - 1]
IsNearest(c, met, apart) ==
    \/ met = {} /\ c = NeverMet
    \/ \E j \in met : /\ c = [apart |-> apart[j], t |-> j]
                      /\ \A i \in met : apart[j] <= apart[i] /\ (apart[i] <= apart[j] => j <= i)

\* The walk ends at the smallest value.
LEMMA NearestWalk ==
  ASSUME NEW n \in Nat, NEW met \in SUBSET (1 .. n), NEW apart \in [1 .. n -> Nat], NEW g,
         IsNearestWalk(g, n, met, apart)
  PROVE  IsNearest(g[n], met, apart)
<1> DEFINE M(k) == UpTo(met, k)
           P == {k \in 0 .. n : IsNearest(g[k], M(k), apart)}
<1>1. 0 \in P
  <2>1. M(0) = {}
    BY UpToIs
  <2>2. QED
    BY <2>1 DEF IsNearest, IsNearestWalk
<1>2. ASSUME NEW k \in 1 .. n, k - 1 \in P PROVE k \in P
  <2>1. IsNearest(g[k - 1], M(k - 1), apart) /\ k \in 0 .. n
    BY <1>2
  <2>2. g[k] = IF k \in met
               THEN IF g[k - 1] = NeverMet \/ apart[k] < g[k - 1].apart
                    THEN [apart |-> apart[k], t |-> k] ELSE g[k - 1]
               ELSE g[k - 1]
    BY DEF IsNearestWalk
  <2>3. CASE k \notin met
    <3>1. M(k) = M(k - 1)
      BY <2>3, UpToSkips
    <3> HIDE DEF M
    <3>2. QED
      BY <2>1, <2>2, <2>3, <3>1
  <2>4. CASE k \in met
    <3>1. M(k) = M(k - 1) \cup {k} /\ \A j \in M(k - 1) : j \in 1 .. n /\ j < k
      BY <2>4, UpToTakes
    <3> HIDE DEF M
    <3>2. CASE M(k - 1) = {}
      <4>1. g[k - 1] = NeverMet
        BY <2>1, <3>2 DEF IsNearest
      <4>2. g[k] = [apart |-> apart[k], t |-> k] /\ M(k) = {k}
        BY <2>2, <2>4, <3>1, <3>2, <4>1
      <4>3. IsNearest(g[k], M(k), apart)
        BY <4>2 DEF IsNearest
      <4>4. QED
        BY <2>1, <4>3
    <3>3. CASE M(k - 1) # {}
      <4>1. PICK j \in M(k - 1) :
               /\ g[k - 1] = [apart |-> apart[j], t |-> j]
               /\ \A i \in M(k - 1) : apart[j] <= apart[i] /\ (apart[i] <= apart[j] => j <= i)
        BY <2>1, <3>3 DEF IsNearest
      <4>2. apart[j] \in Nat /\ apart[k] \in Nat /\ j \in 1 .. n /\ j < k
        BY <3>1
      <4>3. g[k - 1] # NeverMet /\ g[k - 1].apart = apart[j]
        <5>1. g[k - 1].apart = apart[j] /\ NeverMet.apart = -1
          BY <4>1 DEF NeverMet, Unmeasured
        <5>2. QED
          BY <4>2, <5>1
      <4>4. CASE apart[k] < apart[j]
        <5>1. g[k] = [apart |-> apart[k], t |-> k]
          BY <2>2, <2>4, <4>3, <4>4
        <5>2. ASSUME NEW i \in M(k)
              PROVE  apart[k] <= apart[i] /\ (apart[i] <= apart[k] => k <= i)
          <6>1. CASE i = k
            BY <4>2, <6>1
          <6>2. CASE i \in M(k - 1)
            <7>1. apart[i] \in Nat /\ apart[j] <= apart[i]
              BY <3>1, <4>1, <6>2
            <7>2. QED
              BY <4>2, <4>4, <7>1
          <6>3. QED
            BY <3>1, <6>1, <6>2
        <5>3. IsNearest(g[k], M(k), apart)
          BY <3>1, <5>1, <5>2 DEF IsNearest
        <5>4. QED
          BY <2>1, <5>3
      <4>5. CASE ~(apart[k] < apart[j])
        <5>1. g[k] = [apart |-> apart[j], t |-> j]
          BY <2>2, <2>4, <4>1, <4>3, <4>5
        <5>2. ASSUME NEW i \in M(k)
              PROVE  apart[j] <= apart[i] /\ (apart[i] <= apart[j] => j <= i)
          <6>1. CASE i = k
            BY <4>2, <4>5, <6>1
          <6>2. CASE i \in M(k - 1)
            BY <4>1, <6>2
          <6>3. QED
            BY <3>1, <6>1, <6>2
        <5>3. IsNearest(g[k], M(k), apart)
          BY <3>1, <5>1, <5>2 DEF IsNearest
        <5>4. QED
          BY <2>1, <5>3
      <4>6. QED
        BY <4>4, <4>5
    <3>4. QED
      BY <3>2, <3>3
  <2>5. QED
    BY <2>3, <2>4
<1>3. n \in P
  <2> HIDE DEF P
  <2>1. \A k \in 0 .. n : k \in P
    BY <1>1, <1>2, InductionUpTo
  <2>2. QED
    BY <2>1
<1>4. M(n) = met
  BY UpToIs
<1>5. QED
  BY <1>3, <1>4

\* The frames in which a pair is airborne, and how far apart the two are in them.
MetIn(p, pair) == {i \in 1 .. N : InWindow(p, frames[i]) /\ pair \in Pairs(Airborne(frames[i]))}
ApartIn(pair) == [i \in 1 .. N |-> ApartAt(frames[i], pair)]

\* How far apart the two are is measured in every frame.
LEMMA ApartInIs ==
  ASSUME VerdictInv, NEW pair \in Pairs(Fleet)
  PROVE  ApartIn(pair) \in [1 .. N -> Nat]
<1>1. pair[1] \in Fleet /\ pair[2] \in Fleet
  BY DEF Pairs
<1>2. ASSUME NEW i \in 1 .. N PROVE ApartAt(frames[i], pair) \in Nat
  <2>1. IsPoint(Of(frames[i], pair[1]).position) /\ IsPoint(Of(frames[i], pair[2]).position)
    BY <1>1, Sampled, SampleIs
  <2>2. ApartAt(frames[i], pair) \in Int /\ 0 <= ApartAt(frames[i], pair)
    BY <2>1, ApartIs DEF ApartAt
  <2>3. QED
    BY <2>2
<1>3. QED
  BY <1>2 DEF ApartIn

\* min_separation's walk over the frames is such a walk.
LEMMA NearestIs ==
  ASSUME VerdictInv, NEW p, NEW pair \in Pairs(Fleet)
  PROVE  IsNearest(Nearest(p, pair), MetIn(p, pair), ApartIn(pair))
<1> DEFINE met == MetIn(p, pair)
           apart == ApartIn(pair)
           X == {NeverMet} \cup [apart : Nat, t : Nat]
           Kept(c, k) == IF k \in met
                         THEN IF c = NeverMet \/ apart[k] < c.apart THEN [apart |-> apart[k], t |-> k] ELSE c
                         ELSE c
           step == [k \in 1 .. N |-> [c \in X |-> Kept(c, k)]]
           Walk(f) == [i \in 0 .. N |->
                          IF i = 0 THEN NeverMet
                          ELSE IF InWindow(p, frames[i]) /\ pair \in Pairs(Airborne(frames[i]))
                          THEN Closer(f[i - 1], frames[i], pair)
                          ELSE f[i - 1]]
           base == NeverMet
<1>1. N \in Nat /\ apart \in [1 .. N -> Nat] /\ met \in SUBSET (1 .. N)
  BY Recorded, ApartInIs DEF MetIn
<1>2. ASSUME NEW f, NEW k \in 1 .. N
      PROVE  (IF InWindow(p, frames[k]) /\ pair \in Pairs(Airborne(frames[k]))
              THEN Closer(f[k - 1], frames[k], pair) ELSE f[k - 1]) = Kept(f[k - 1], k)
  <2>1. k \in met <=> InWindow(p, frames[k]) /\ pair \in Pairs(Airborne(frames[k]))
    BY DEF MetIn
  <2>2. frames[k].t = k /\ apart[k] = ApartAt(frames[k], pair)
    BY Recorded DEF ApartIn
  <2> HIDE DEF met, apart
  <2>3. Closer(f[k - 1], frames[k], pair) =
           IF f[k - 1] = NeverMet \/ apart[k] < f[k - 1].apart THEN [apart |-> apart[k], t |-> k] ELSE f[k - 1]
    BY <2>2 DEF Closer, ApartAt
  <2>4. QED
    BY <2>1, <2>3
<1> HIDE DEF met, apart
<1>3. ASSUME NEW k \in 1 .. N, NEW c \in X PROVE Kept(c, k) \in X
  BY <1>1
<1>4. step \in Steps(N, X)
  BY <1>3 DEF Steps
<1>5. \A k \in 1 .. N, c \in X : step[k][c] = Kept(c, k)
  OBVIOUS
<1>6. base \in X
  OBVIOUS
<1> HIDE DEF step, X, Kept, base
<1>7. PICK f : f \in Iterations(N, X, base, step)
  BY <1>1, <1>4, <1>6, RecursionUpTo
<1>8. f \in [0 .. N -> X] /\ f[0] = base /\ \A k \in 1 .. N : f[k] = Kept(f[k - 1], k)
  <2>1. f \in [0 .. N -> X] /\ f[0] = base /\ \A k \in 1 .. N : f[k] = step[k][f[k - 1]]
    BY <1>7 DEF Iterations
  <2>2. ASSUME NEW k \in 1 .. N PROVE f[k] = Kept(f[k - 1], k)
    <3>1. k - 1 \in 0 .. N /\ N \in Nat
      BY <1>1
    <3>2. QED
      BY <1>5, <2>1, <3>1
  <2>3. QED
    BY <2>1, <2>2
<1>9. f = Walk(f)
  <2>1. \A i \in 0 .. N : i = 0 \/ i \in 1 .. N
    BY <1>1
  <2>2. \A i \in 0 .. N : f[i] = IF i = 0 THEN NeverMet
                          ELSE IF InWindow(p, frames[i]) /\ pair \in Pairs(Airborne(frames[i]))
                          THEN Closer(f[i - 1], frames[i], pair)
                          ELSE f[i - 1]
    BY <1>2, <1>8, <2>1, Zenon DEF base
  <2>3. QED
    BY <1>8, <2>2
<1> DEFINE g == CHOOSE h : h = Walk(h)
<1>10. g = Walk(g)
  BY <1>9
<1>11. Nearest(p, pair) = g[N]
  BY Zenon DEF Nearest, g, N
<1> HIDE DEF g
<1>12. g[0] = NeverMet /\ \A k \in 1 .. N : g[k] = Kept(g[k - 1], k)
  <2>1. \A i \in 0 .. N : g[i] = Walk(g)[i]
    BY <1>10
  <2>2. 0 \in 0 .. N /\ \A i \in 1 .. N : i \in 0 .. N /\ i # 0
    BY <1>1
  <2>3. QED
    BY <1>2, <2>1, <2>2
<1>13. IsNearestWalk(g, N, met, apart)
  BY <1>12 DEF IsNearestWalk, Kept
<1>14. IsNearest(g[N], met, apart)
  BY <1>1, <1>13, NearestWalk
<1>15. QED
  BY <1>11, <1>14 DEF met, apart

\* For a pair that met, the walk keeps how close it came and when first.
LEMMA NearestOfPair ==
  ASSUME VerdictInv, NEW p, NEW pair \in Pairs(Fleet)
  PROVE  /\ pair \in MeetingPairs(p) <=> Nearest(p, pair) # NeverMet
         /\ pair \in MeetingPairs(p) =>
               /\ Nearest(p, pair).apart = Closest(p, pair) /\ Closest(p, pair) \in Nat
               /\ Nearest(p, pair).t = Min({f.t : f \in {f \in Approaches(p, pair) :
                                                ApartAt(f, pair) = Closest(p, pair)}})
<1> DEFINE met == MetIn(p, pair)
           apart == ApartIn(pair)
           c == Nearest(p, pair)
           A == Approaches(p, pair)
           S == {ApartAt(f, pair) : f \in A}
           F == {f \in A : ApartAt(f, pair) = Closest(p, pair)}
<1>1. IsNearest(c, met, apart)
  BY NearestIs
<1>2. apart \in [1 .. N -> Nat] /\ met \in SUBSET (1 .. N) /\ N \in Nat
  BY ApartInIs, Recorded DEF MetIn
<1>3. \A i \in 1 .. N : i \in met <=> frames[i] \in A
  <2>1. \A i \in 1 .. N : frames[i] \in ToSet(frames)
    BY Recorded
  <2>2. QED
    BY <2>1 DEF MetIn, Approaches, InTime
<1>4. \A f \in A : f.t \in met /\ frames[f.t] = f /\ f \in ToSet(frames)
  <2>1. \A f \in A : f \in ToSet(frames)
    BY DEF Approaches, InTime
  <2>2. \A f \in ToSet(frames) : f.t \in 1 .. N /\ frames[f.t] = f
    BY Recorded
  <2> HIDE DEF met, A
  <2>3. QED
    BY <1>3, <2>1, <2>2
<1>5. \A i \in 1 .. N : apart[i] = ApartAt(frames[i], pair)
  BY DEF ApartIn
<1>6. pair \in MeetingPairs(p) <=> A # {}
  BY DEF MeetingPairs, Approaches
<1>7. Closest(p, pair) = Min(S)
  BY DEF Closest
<1> HIDE DEF met, apart, c, A
<1>8. CASE met = {}
  <2>1. c = NeverMet /\ A = {}
    BY <1>1, <1>4, <1>8 DEF IsNearest
  <2>2. QED
    BY <1>6, <2>1 DEF c
<1>9. CASE met # {}
  <2>1. PICK j \in met : /\ c = [apart |-> apart[j], t |-> j]
                         /\ \A i \in met : apart[j] <= apart[i] /\ (apart[i] <= apart[j] => j <= i)
    BY <1>1, <1>9 DEF IsNearest
  <2>2. j \in 1 .. N /\ apart[j] \in Nat /\ frames[j] \in A
    BY <1>2, <1>3
  <2>3. c # NeverMet
    <3>1. c.apart = apart[j] /\ NeverMet.apart = -1
      BY <2>1 DEF NeverMet, Unmeasured
    <3>2. QED
      BY <2>2, <3>1
  <2>4. Min(S) = apart[j]
    <3>1. \A x \in S : x \in Nat /\ apart[j] <= x
      <4> SUFFICES ASSUME NEW f \in A PROVE ApartAt(f, pair) \in Nat /\ apart[j] <= ApartAt(f, pair)
        OBVIOUS
      <4>1. f.t \in met /\ frames[f.t] = f /\ f.t \in 1 .. N
        BY <1>2, <1>4
      <4>2. ApartAt(f, pair) = apart[f.t]
        BY <1>5, <4>1
      <4>3. QED
        BY <1>2, <2>1, <4>1, <4>2
    <3>2. apart[j] \in S
      <4>1. apart[j] = ApartAt(frames[j], pair)
        BY <1>5, <2>2
      <4>2. QED
        BY <2>2, <4>1
    <3> HIDE DEF S
    <3>3. S \subseteq Int
      BY <3>1
    <3>4. QED
      BY <3>1, <3>2, <3>3, MinIs
  <2> HIDE DEF S
  <2>5. Closest(p, pair) = apart[j]
    BY <1>7, <2>4
  <2>6. Min({f.t : f \in F}) = j
    <3>1. F \in SUBSET ToSet(frames)
      BY <1>4
    <3>2. frames[j] \in F
      BY <1>5, <2>2, <2>5
    <3>3. ASSUME NEW i \in 1 .. N, frames[i] \in F PROVE j <= i
      <4>1. i \in met /\ apart[i] = apart[j]
        BY <1>3, <1>5, <2>5, <3>3
      <4>2. apart[i] <= apart[j]
        BY <2>2, <4>1
      <4>3. QED
        BY <2>1, <4>1, <4>2
    <3> HIDE DEF F
    <3>4. QED
      BY <2>2, <3>1, <3>2, <3>3, EarliestIs
  <2>7. A # {}
    BY <2>2
  <2>8. QED
    BY <1>6, <2>1, <2>2, <2>3, <2>5, <2>6, <2>7 DEF c, A
<1>10. QED
  BY <1>8, <1>9

\* min_separation keeps, for each pair that met, how close it came and when.
LEMMA MinSeparationIsJudged ==
  ASSUME VerdictInv, study.kind = "min_separation", NEW p, p = study.params
  PROVE  Judged(p)
<1> DEFINE met == {pair \in Pairs(Fleet) : Nearest(p, pair) # NeverMet}
           none == NotMeasured({}, Unmeasured)
           limit == Square(p.min_m)
           least == Min({Nearest(p, pair).apart : pair \in met})
           Drones(pair) == {pair[1], pair[2]}
           Time(pair) == Min({f.t : f \in {f \in Approaches(p, pair) :
                                              ApartAt(f, pair) = Closest(p, pair)}})
           V == {Violation(Drones(pair), Nearest(p, pair).t, Nearest(p, pair).apart) :
                    pair \in {q \in met : Nearest(p, q).apart < limit}}
           M == MeetingPairs(p)
<1>1. evaluate = IF met = {} THEN Outcome(Unmeasured, none) ELSE Outcome(least, V)
  BY DEF evaluate, min_separation
<1>2. /\ Claim(p) <=> M # {} /\ \A pair \in M : Closest(p, pair) >= limit
      /\ Measure(p) = Min({Closest(p, pair) : pair \in M})
      /\ Breaches(p) = {Violation(Drones(pair), Time(pair), Closest(p, pair)) :
                           pair \in {q \in M : Closest(p, q) < limit}}
  BY DEF Claim, Measure, Breaches
<1>3. M \subseteq Pairs(Fleet)
  BY DEF MeetingPairs, Pairs, Airborne
<1>4. met = M
  <2>1. \A pair \in Pairs(Fleet) : pair \in M <=> Nearest(p, pair) # NeverMet
    BY NearestOfPair
  <2> HIDE DEF M
  <2>2. QED
    BY <1>3, <2>1
<1>5. \A pair \in M : /\ Nearest(p, pair).apart = Closest(p, pair) /\ Closest(p, pair) \in Nat
                      /\ Nearest(p, pair).t = Time(pair)
  BY <1>3, NearestOfPair
<1>6. none # {} /\ \A v \in none : v.measured = Unmeasured
  BY DEF NotMeasured, Violation
<1> HIDE DEF met, none, M, Time, Drones
<1>7. CASE M = {}
  <2>1. evaluate = Outcome(Unmeasured, none)
    BY <1>1, <1>4, <1>7
  <2>2. ~Claim(p)
    BY <1>2, <1>7
  <2>3. Right(p, Unmeasured, none)
    BY <1>6, <2>2 DEF Right
  <2>4. QED
    BY <2>1, <2>3, RightIsJudged
<1>8. CASE M # {}
  <2>1. evaluate = Outcome(least, V)
    BY <1>1, <1>4, <1>8
  <2>2. least = Measure(p)
    BY <1>2, <1>4, <1>5
  <2>3. V = Breaches(p)
    <3>1. {q \in met : Nearest(p, q).apart < limit} = {q \in M : Closest(p, q) < limit}
      BY <1>4, <1>5
    <3> DEFINE B == {q \in M : Closest(p, q) < limit}
    <3>2. \A pair \in B : Violation(Drones(pair), Nearest(p, pair).t, Nearest(p, pair).apart) =
                             Violation(Drones(pair), Time(pair), Closest(p, pair))
      BY <1>5
    <3>3. V = {Violation(Drones(pair), Nearest(p, pair).t, Nearest(p, pair).apart) : pair \in B}
      BY <3>1
    <3>4. Breaches(p) = {Violation(Drones(pair), Time(pair), Closest(p, pair)) : pair \in B}
      BY <1>2
    <3> HIDE DEF B, V
    <3>5. QED
      BY <3>2, <3>3, <3>4
  <2>4. V = {} <=> Claim(p)
    <3>1. limit \in Int
      <4>1. IsAssertion(study.kind, study.params, study.drones)
        BY Sampled DEF IsStudy
      <4>2. p.min_m \in Int
        BY <4>1 DEF IsAssertion
      <4>3. QED
        BY <4>2, SquareIs
    <3> HIDE DEF limit
    <3>2. \A pair \in M : Closest(p, pair) >= limit <=> ~(Closest(p, pair) < limit)
      BY <1>5, <3>1
    <3>3. V = {} <=> \A pair \in M : ~(Closest(p, pair) < limit)
      BY <1>4, <1>5
    <3> HIDE DEF V
    <3>4. QED
      BY <1>2, <1>8, <3>2, <3>3
  <2> HIDE DEF V, least
  <2>5. Right(p, least, V)
    BY <2>2, <2>3, <2>4 DEF Right
  <2>6. QED
    BY <2>1, <2>5, RightIsJudged
<1>9. QED
  BY <1>7, <1>8

-----------------------------------------------------------------------------
(* How far a drone strayed. *)

\* A walk over the numbers up to n that keeps the largest of the values met, and
\* which came first; it starts with the value 0 of the first number met.
IsFurthestWalk(g, n, met, strayed, start) ==
    /\ g[0] = [far |-> 0, t |-> start]
    /\ \A k \in 1 .. n :
          g[k] = IF k \in met
                 THEN IF strayed[k] > g[k - 1].far THEN [far |-> strayed[k], t |-> k] ELSE g[k - 1]
                 ELSE g[k - 1]
IsFurthest(c, met, strayed, start) ==
    \E j \in met \cup {start} :
        /\ c = [far |-> strayed[j], t |-> j]
        /\ \A i \in met : strayed[i] <= strayed[j] /\ (strayed[j] <= strayed[i] => j <= i)

\* The walk ends at the largest value.
LEMMA FurthestWalk ==
  ASSUME NEW n \in Nat, NEW met \in SUBSET (1 .. n), NEW strayed \in [1 .. n -> Nat], NEW g,
         NEW start \in met, strayed[start] = 0, \A i \in met : start <= i,
         IsFurthestWalk(g, n, met, strayed, start)
  PROVE  IsFurthest(g[n], met, strayed, start)
<1> DEFINE M(k) == UpTo(met, k)
           P == {k \in 0 .. n : IsFurthest(g[k], M(k), strayed, start)}
<1>1. 0 \in P
  <2>1. M(0) = {}
    BY UpToIs
  <2>2. g[0] = [far |-> strayed[start], t |-> start]
    BY DEF IsFurthestWalk
  <2>3. IsFurthest(g[0], {}, strayed, start)
    BY <2>2 DEF IsFurthest
  <2>4. 0 \in 0 .. n
    OBVIOUS
  <2>5. QED
    BY <2>1, <2>3, <2>4
<1>2. ASSUME NEW k \in 1 .. n, k - 1 \in P PROVE k \in P
  <2>1. IsFurthest(g[k - 1], M(k - 1), strayed, start) /\ k \in 0 .. n
    BY <1>2
  <2>2. g[k] = IF k \in met
               THEN IF strayed[k] > g[k - 1].far THEN [far |-> strayed[k], t |-> k] ELSE g[k - 1]
               ELSE g[k - 1]
    BY DEF IsFurthestWalk
  <2>3. CASE k \notin met
    <3>1. M(k) = M(k - 1)
      BY <2>3, UpToSkips
    <3>2. IsFurthest(g[k], M(k), strayed, start)
      BY <2>1, <2>2, <2>3, <3>1, Zenon
    <3>3. QED
      BY <2>1, <3>2
  <2>4. CASE k \in met
    <3>1. M(k) = M(k - 1) \cup {k} /\ \A j \in M(k - 1) : j \in 1 .. n /\ j < k
      BY <2>4, UpToTakes
    <3> HIDE DEF M
    <3>2. PICK j \in M(k - 1) \cup {start} :
             /\ g[k - 1] = [far |-> strayed[j], t |-> j]
             /\ \A i \in M(k - 1) : strayed[i] <= strayed[j] /\ (strayed[j] <= strayed[i] => j <= i)
      BY <2>1 DEF IsFurthest
    <3>3. start \in 1 .. n /\ start <= k
      BY <2>4
    <3>4. j \in 1 .. n /\ j <= k /\ strayed[j] \in Nat /\ strayed[k] \in Nat
      BY <3>1, <3>3
    <3>5. CASE strayed[k] > strayed[j]
      <4>1. g[k] = [far |-> strayed[k], t |-> k]
        BY <2>2, <2>4, <3>2, <3>5
      <4>2. ASSUME NEW i \in M(k)
            PROVE  strayed[i] <= strayed[k] /\ (strayed[k] <= strayed[i] => k <= i)
        <5>1. CASE i = k
          BY <3>4, <5>1
        <5>2. CASE i \in M(k - 1)
          <6>1. strayed[i] \in Nat /\ strayed[i] <= strayed[j]
            BY <3>1, <3>2, <5>2
          <6>2. QED
            BY <3>4, <3>5, <6>1
        <5>3. QED
          BY <3>1, <5>1, <5>2
      <4>3. k \in M(k)
        BY <3>1
      <4>4. IsFurthest(g[k], M(k), strayed, start)
        BY <4>1, <4>2, <4>3 DEF IsFurthest
      <4>5. QED
        BY <2>1, <4>4
    <3>6. CASE ~(strayed[k] > strayed[j])
      <4>1. g[k] = [far |-> strayed[j], t |-> j]
        BY <2>2, <2>4, <3>2, <3>6
      <4>2. ASSUME NEW i \in M(k)
            PROVE  strayed[i] <= strayed[j] /\ (strayed[j] <= strayed[i] => j <= i)
        <5>1. CASE i = k
          BY <3>4, <3>6, <5>1
        <5>2. CASE i \in M(k - 1)
          BY <3>2, <5>2
        <5>3. QED
          BY <3>1, <5>1, <5>2
      <4>3. j \in M(k) \cup {start}
        BY <3>1
      <4>4. IsFurthest(g[k], M(k), strayed, start)
        BY <4>1, <4>2, <4>3 DEF IsFurthest
      <4>5. QED
        BY <2>1, <4>4
    <3>7. QED
      BY <3>5, <3>6
  <2>5. QED
    BY <2>3, <2>4
<1>3. n \in P
  <2> HIDE DEF P
  <2>1. \A k \in 0 .. n : k \in P
    BY <1>1, <1>2, InductionUpTo
  <2>2. QED
    BY <2>1
<1>4. M(n) = met
  BY UpToIs
<1>5. QED
  BY <1>3, <1>4

\* How far a drone is, in each frame, from where it was in the first.
StrayedIn(p, d) == [i \in 1 .. N |-> Strayed(p, d, frames[i])]

\* How far two points are apart over ground is not negative, and nothing from itself.
LEMMA AcrossIs ==
  ASSUME NEW p, NEW q, IsPoint(p), IsPoint(q)
  PROVE  Across(p, q) \in Int /\ 0 <= Across(p, q) /\ Across(p, p) = 0
<1>1. p[1] \in Int /\ p[2] \in Int /\ q[1] \in Int /\ q[2] \in Int
  BY DEF IsPoint
<1>2. \A m \in Int : Square(m) \in Int /\ 0 <= Square(m) /\ Square(0) = 0
  BY SquareIs DEF Square
<1>3. p[1] - q[1] \in Int /\ p[2] - q[2] \in Int /\ p[1] - p[1] = 0 /\ p[2] - p[2] = 0
  BY <1>1
<1>4. Square(p[1] - q[1]) \in Int /\ 0 <= Square(p[1] - q[1])
      /\ Square(p[2] - q[2]) \in Int /\ 0 <= Square(p[2] - q[2])
  BY <1>2, <1>3
<1>5. Square(p[1] - p[1]) = 0 /\ Square(p[2] - p[2]) = 0
  BY <1>3 DEF Square
<1> DEFINE a == Square(p[1] - q[1])
           b == Square(p[2] - q[2])
<1>6. Across(p, q) = a + b /\ Across(p, p) = Square(p[1] - p[1]) + Square(p[2] - p[2])
  BY DEF Across
<1> HIDE DEF a, b
<1>7. QED
  BY <1>4, <1>5, <1>6 DEF a, b

\* How far a drone strayed is measured in every frame, and nothing in the first.
LEMMA StrayedInIs ==
  ASSUME VerdictInv, NEW p, NEW d \in Fleet, FirstOf(After(p)) \in 1 .. N
  PROVE  /\ StrayedIn(p, d) \in [1 .. N -> Nat]
         /\ StrayedIn(p, d)[FirstOf(After(p))] = 0
<1> DEFINE s == FirstOf(After(p))
<1>1. AtStart(p) = frames[s]
  BY DEF AtStart
<1> HIDE DEF s
<1>2. ASSUME NEW i \in 1 .. N PROVE IsPoint(Of(frames[i], d).position)
  BY Sampled, SampleIs
<1>3. s \in 1 .. N
  BY DEF s
<1>4. ASSUME NEW i \in 1 .. N PROVE Strayed(p, d, frames[i]) \in Nat
  <2>1. IsPoint(Of(frames[i], d).position) /\ IsPoint(Of(frames[s], d).position)
    BY <1>2, <1>3
  <2>2. Across(Of(frames[i], d).position, Of(frames[s], d).position) \in Nat
    BY <2>1, AcrossIs
  <2>3. QED
    BY <1>1, <2>2 DEF Strayed
<1>5. Strayed(p, d, frames[s]) = 0
  <2>1. IsPoint(Of(frames[s], d).position)
    BY <1>2, <1>3
  <2>2. Across(Of(frames[s], d).position, Of(frames[s], d).position) = 0
    BY <2>1, AcrossIs
  <2>3. QED
    BY <1>1, <2>2 DEF Strayed
<1>6. QED
  BY <1>3, <1>4, <1>5 DEF StrayedIn, s

\* travel_after's walk over the frames is such a walk.
LEMMA FurthestFound ==
  ASSUME VerdictInv, NEW p, NEW d \in Fleet, FirstOf(After(p)) \in After(p),
         \A i \in After(p) : FirstOf(After(p)) <= i
  PROVE  IsFurthest(Furthest(p, d), After(p), StrayedIn(p, d), FirstOf(After(p)))
<1> DEFINE met == After(p)
           strayed == StrayedIn(p, d)
           start == FirstOf(After(p))
           X == [far : Nat, t : Nat]
           Kept(c, k) == IF k \in met
                         THEN IF strayed[k] > c.far THEN [far |-> strayed[k], t |-> k] ELSE c
                         ELSE c
           step == [k \in 1 .. N |-> [c \in X |-> Kept(c, k)]]
           base == [far |-> 0, t |-> start]
           Walk(f) == [i \in 0 .. N |->
                          IF i = 0 THEN [far |-> 0, t |-> AtStart(p).t]
                          ELSE IF i \in After(p)
                          THEN Further(f[i - 1], Strayed(p, d, frames[i]), frames[i].t)
                          ELSE f[i - 1]]
<1>1. N \in Nat /\ met \in SUBSET (1 .. N)
  BY Recorded DEF After
<1>2. start \in met /\ start \in 1 .. N /\ \A i \in met : start <= i
  BY <1>1
<1>3. strayed \in [1 .. N -> Nat] /\ strayed[start] = 0
  BY <1>2, StrayedInIs
<1>4. base = [far |-> 0, t |-> AtStart(p).t]
  BY <1>2, Recorded DEF AtStart
<1>5. ASSUME NEW f, NEW k \in 1 .. N
      PROVE  (IF k \in After(p) THEN Further(f[k - 1], Strayed(p, d, frames[k]), frames[k].t)
              ELSE f[k - 1]) = Kept(f[k - 1], k)
  <2>1. frames[k].t = k /\ strayed[k] = Strayed(p, d, frames[k])
    BY Recorded DEF StrayedIn
  <2> HIDE DEF strayed, start
  <2>2. QED
    BY <2>1 DEF Further
<1> HIDE DEF met, strayed, start
<1>6. ASSUME NEW k \in 1 .. N, NEW c \in X PROVE Kept(c, k) \in X
  <2>1. strayed[k] \in Nat /\ k \in Nat
    BY <1>1, <1>3
  <2>2. QED
    BY <2>1
<1>7. step \in Steps(N, X)
  BY <1>6 DEF Steps
<1>8. \A k \in 1 .. N, c \in X : step[k][c] = Kept(c, k)
  OBVIOUS
<1>9. base \in X
  BY <1>2
<1> HIDE DEF step, X, Kept, base
<1>10. PICK f : f \in Iterations(N, X, base, step)
  BY <1>1, <1>7, <1>9, RecursionUpTo
<1>11. f \in [0 .. N -> X] /\ f[0] = base /\ \A k \in 1 .. N : f[k] = Kept(f[k - 1], k)
  <2>1. f \in [0 .. N -> X] /\ f[0] = base /\ \A k \in 1 .. N : f[k] = step[k][f[k - 1]]
    BY <1>10 DEF Iterations
  <2>2. ASSUME NEW k \in 1 .. N PROVE f[k] = Kept(f[k - 1], k)
    <3>1. k - 1 \in 0 .. N /\ N \in Nat
      BY <1>1
    <3>2. QED
      BY <1>8, <2>1, <3>1
  <2>3. QED
    BY <2>1, <2>2
<1>12. f = Walk(f)
  <2>1. \A i \in 0 .. N : i = 0 \/ i \in 1 .. N
    BY <1>1
  <2>2. \A i \in 0 .. N : f[i] = IF i = 0 THEN [far |-> 0, t |-> AtStart(p).t]
                          ELSE IF i \in After(p)
                          THEN Further(f[i - 1], Strayed(p, d, frames[i]), frames[i].t)
                          ELSE f[i - 1]
    BY <1>4, <1>5, <1>11, <2>1, Zenon
  <2>3. QED
    BY <1>11, <2>2
<1> DEFINE g == CHOOSE h : h = Walk(h)
<1>13. g = Walk(g)
  BY <1>12
<1>14. Furthest(p, d) = g[N]
  BY Zenon DEF Furthest, g, N
<1> HIDE DEF g
<1>15. g[0] = base /\ \A k \in 1 .. N : g[k] = Kept(g[k - 1], k)
  <2>1. \A i \in 0 .. N : g[i] = Walk(g)[i]
    BY <1>13
  <2>2. 0 \in 0 .. N /\ \A i \in 1 .. N : i \in 0 .. N /\ i # 0
    BY <1>1
  <2>3. QED
    BY <1>4, <1>5, <2>1, <2>2
<1>16. IsFurthestWalk(g, N, met, strayed, start)
  BY <1>15 DEF IsFurthestWalk, Kept, base
<1>17. IsFurthest(g[N], met, strayed, start)
  BY <1>1, <1>2, <1>3, <1>16, FurthestWalk
<1>18. QED
  BY <1>14, <1>17 DEF met, strayed, start

-----------------------------------------------------------------------------
(* Where the drones got to after an event. *)

\* There is a last event of the kind, if there is any.
LEMMA EventsAre ==
  ASSUME VerdictInv, NEW p
  PROVE  /\ \A x \in Events(p) : x \in Int
         /\ Events(p) # {} => Max(Events(p)) \in Events(p) /\ \A x \in Events(p) : x <= Max(Events(p))
<1> DEFINE T == {e \in ToSet(study.events) : e.kind = p.event}
           E == Events(p)
           n == Len(study.events)
<1>1. E = {e.at_s : e \in T}
  BY DEF Events
<1>2. /\ study.events \in Seq(ToSet(study.events))
      /\ \A e \in ToSet(study.events) : e.at_s \in Int
  BY Sampled DEF IsStudy
<1>3. n \in Nat /\ DOMAIN study.events = 1 .. n
  BY <1>2, LenProperties
<1>4. \A x \in E : x \in Int
  BY <1>1, <1>2
<1>5. IsFiniteSet(ToSet(study.events))
  <2> DEFINE I == 1 .. n
             evs == study.events
  <2> HIDE DEF n
  <2>1. IsFiniteSet(I) /\ Cardinality(I) = n
    BY <1>3, FS_Interval
  <2>2. ToSet(evs) = {evs[i] : i \in I}
    BY <1>3 DEF ToSet
  <2> HIDE DEF I, evs
  <2>3. IsFiniteSet({evs[i] : i \in I})
    BY <2>1, FiniteImage
  <2>4. QED
    BY <2>2, <2>3 DEF evs
<1>6. IsFiniteSet(T)
  BY <1>5, FS_Subset
<1> DEFINE at == [e \in T |-> e.at_s]
<1>7. E = {at[e] : e \in T}
  BY <1>1
<1> HIDE DEF at, T, E, n
<1>8. IsFiniteSet({at[e] : e \in T})
  BY <1>6, FiniteImage
<1>9. IsFiniteSet(E) /\ E \subseteq Int
  BY <1>4, <1>7, <1>8
<1>10. E # {} => Max(E) \in E /\ \A x \in E : x <= Max(E)
  BY <1>9, Extremes
<1>11. QED
  BY <1>4, <1>10 DEF E

\* The frames looked at are those from the last event on, in time.
LEMMA SinceIs ==
  ASSUME VerdictInv, NEW p, p.to_s \in Int, Events(p) # {}
  PROVE  /\ \A i \in 1 .. N : frames[i] \in Since(p) <=> Max(Events(p)) <= i
         /\ Since(p) \subseteq ToSet(frames)
         /\ \A i : i \in After(p) <=> i \in 1 .. N /\ frames[i] \in Since(p) /\ i <= p.to_s
         /\ Max(Events(p)) \in Int
<1> DEFINE m == Max(Events(p))
<1>1. m \in Int /\ m \in Events(p) /\ \A x \in Events(p) : x \in Int /\ x <= m
  BY EventsAre
<1>2. \A i \in 1 .. N : frames[i].t = i /\ frames[i] \in ToSet(frames) /\ i \in Int
  BY Recorded
<1>3. \A i : i \in After(p) <=> i \in 1 .. N /\ m <= i /\ i <= p.to_s
  BY Recorded DEF After
<1> HIDE DEF m
<1>4. \A i \in Int : m <= i <=> \A x \in Events(p) : x <= i
  BY <1>1
<1>5. ASSUME NEW i \in 1 .. N PROVE frames[i] \in Since(p) <=> m <= i
  BY <1>2, <1>4 DEF Since
<1>6. QED
  BY <1>1, <1>3, <1>5 DEF m, Since

\* The first frame looked at is the first since the event.
LEMMA AtEventIs ==
  ASSUME VerdictInv, NEW p, p.to_s \in Int, Events(p) # {}
  PROVE  /\ After(p) = {} <=> {f \in Since(p) : f.t <= p.to_s} = {}
         /\ After(p) # {} => /\ FirstOf(After(p)) \in After(p)
                             /\ \A i \in After(p) : FirstOf(After(p)) <= i
                             /\ AtEvent(p) = frames[FirstOf(After(p))]
<1> DEFINE A == After(p)
           S == Since(p)
           s == FirstOf(A)
<1>1. /\ S \subseteq ToSet(frames)
      /\ \A i : i \in A <=> i \in 1 .. N /\ frames[i] \in S /\ i <= p.to_s
      /\ \A i \in 1 .. N : frames[i] \in S <=> Max(Events(p)) <= i
      /\ Max(Events(p)) \in Int
  BY SinceIs
<1>2. AtEvent(p) = CHOOSE f \in S : \A g \in S : f.t <= g.t
  BY DEF AtEvent
<1> HIDE DEF A, S
<1>3. \A f \in S : f.t \in 1 .. N /\ frames[f.t] = f
  BY <1>1, Recorded
<1>4. \A i \in 1 .. N : frames[i].t = i
  BY Recorded
<1>5. A = {} <=> {f \in S : f.t <= p.to_s} = {}
  <2>1. \A i \in A : frames[i] \in S /\ frames[i].t <= p.to_s
    BY <1>1, <1>4
  <2>2. \A f \in S : f.t <= p.to_s => f.t \in A
    BY <1>1, <1>3
  <2>3. QED
    BY <2>1, <2>2
<1>6. ASSUME A # {}
      PROVE  s \in A /\ (\A i \in A : s <= i) /\ AtEvent(p) = frames[s]
  <2>1. s \in A /\ \A i \in A : s <= i
    <3>1. N \in Nat /\ A \in SUBSET (1 .. N)
      BY <1>1, Recorded
    <3>2. QED
      BY <1>6, <3>1, FirstOfIs
  <2> HIDE DEF s
  <2>2. s \in 1 .. N /\ frames[s] \in S /\ s <= p.to_s /\ frames[s].t = s /\ s \in Int
    BY <1>1, <1>4, <2>1
  <2>3. ASSUME NEW g \in S PROVE s <= g.t
    <3>1. g.t \in 1 .. N /\ frames[g.t] = g /\ g.t \in Int
      BY <1>3
    <3>2. CASE g.t <= p.to_s
      <4>1. g.t \in A
        BY <1>1, <3>1, <3>2
      <4>2. QED
        BY <2>1, <4>1
    <3>3. CASE ~(g.t <= p.to_s)
      BY <2>2, <3>1, <3>3
    <3>4. QED
      BY <3>2, <3>3
  <2>4. ASSUME NEW f \in S, \A g \in S : f.t <= g.t PROVE f = frames[s]
    <3>1. f.t \in 1 .. N /\ frames[f.t] = f /\ f.t <= s /\ s <= f.t
      BY <1>3, <2>2, <2>3, <2>4
    <3>2. f.t = s
      BY <2>2, <3>1
    <3>3. QED
      BY <3>1, <3>2
  <2>5. \A g \in S : frames[s].t <= g.t
    BY <2>2, <2>3
  <2>6. AtEvent(p) = frames[s]
    BY <1>2, <2>2, <2>4, <2>5
  <2>7. QED
    BY <2>1, <2>6
<1>7. QED
  BY <1>5, <1>6 DEF A, S, s

\* What the walk finds is how far the drone got, and when first.
LEMMA TravelIs ==
  ASSUME VerdictInv, NEW p, p.to_s \in Int, Events(p) # {}, After(p) # {}, NEW d \in Fleet
  PROVE  /\ Furthest(p, d).far = Travel(p, d) /\ Travel(p, d) \in Nat
         /\ Furthest(p, d).t = Min({f.t : f \in {g \in Since(p) :
                  Across(Of(g, d).position, Of(AtEvent(p), d).position) = Travel(p, d)}})
         /\ Furthest(p, d).t \in After(p)
<1> DEFINE met == After(p)
           strayed == StrayedIn(p, d)
           start == FirstOf(met)
           c == Furthest(p, d)
           Far(f) == Across(Of(f, d).position, Of(AtEvent(p), d).position)
           S == Since(p)
           W == {f \in S : f.t <= p.to_s}
           T == {Far(f) : f \in W}
           F == {g \in S : Far(g) = Travel(p, d)}
<1>1. start \in met /\ (\A i \in met : start <= i) /\ AtEvent(p) = frames[start]
  BY AtEventIs
<1>2. IsFurthest(c, met, strayed, start)
  BY <1>1, FurthestFound
<1>3. \A i : i \in met <=> i \in 1 .. N /\ frames[i] \in S /\ i <= p.to_s
  BY SinceIs
<1>4. start \in 1 .. N
  BY <1>1, <1>3
<1>5. strayed \in [1 .. N -> Nat]
  BY <1>4, StrayedInIs
<1>6. ASSUME NEW i \in 1 .. N PROVE strayed[i] = Far(frames[i])
  BY <1>1 DEF StrayedIn, Strayed, AtStart
<1>7. Travel(p, d) = Max(T)
  BY DEF Travel
<1>8. S \subseteq ToSet(frames)
  BY SinceIs
<1>9. \A f \in S : f.t \in 1 .. N /\ frames[f.t] = f
  BY <1>8, Recorded
<1> HIDE DEF met, strayed, start, c, Far, S
<1>10. PICK j \in met \cup {start} :
          /\ c = [far |-> strayed[j], t |-> j]
          /\ \A i \in met : strayed[i] <= strayed[j] /\ (strayed[j] <= strayed[i] => j <= i)
  BY <1>2 DEF IsFurthest
<1>11. j \in met /\ j \in 1 .. N /\ frames[j] \in S /\ j <= p.to_s /\ frames[j].t = j
  BY <1>1, <1>3, <1>10, Recorded
<1>12. strayed[j] \in Nat /\ strayed[j] = Far(frames[j])
  BY <1>5, <1>6, <1>11
<1>13. \A f \in W : f.t \in met /\ f.t \in 1 .. N /\ frames[f.t] = f
  BY <1>3, <1>9
<1>14. Max(T) = strayed[j]
  <2>1. strayed[j] \in T
    BY <1>11, <1>12
  <2>2. ASSUME NEW f \in W PROVE Far(f) \in Nat /\ Far(f) <= strayed[j]
    <3>1. f.t \in met /\ f.t \in 1 .. N /\ frames[f.t] = f
      BY <1>13
    <3>2. strayed[f.t] = Far(f) /\ strayed[f.t] \in Nat
      BY <1>5, <1>6, <3>1
    <3>3. QED
      BY <1>10, <3>1, <3>2
  <2>3. \A x \in T : x \in Nat /\ x <= strayed[j]
    BY <2>2
  <2> HIDE DEF T
  <2>4. T \subseteq Int
    BY <2>3
  <2>5. QED
    BY <2>1, <2>3, <2>4, MaxIs
<1>15. Travel(p, d) = strayed[j]
  BY <1>7, <1>14
<1>16. Min({f.t : f \in F}) = j
  <2>1. F \in SUBSET ToSet(frames)
    BY <1>8
  <2>2. frames[j] \in F
    BY <1>11, <1>12, <1>15
  <2>3. ASSUME NEW i \in 1 .. N, frames[i] \in F PROVE j <= i
    <3>1. frames[i] \in S /\ strayed[i] = strayed[j] /\ i \in Int /\ j \in Int
      BY <1>6, <1>11, <1>15, <2>3
    <3>2. CASE i <= p.to_s
      <4>1. i \in met
        BY <1>3, <3>1, <3>2
      <4>2. strayed[j] <= strayed[i]
        BY <1>12, <3>1
      <4>3. QED
        BY <1>10, <4>1, <4>2
    <3>3. CASE ~(i <= p.to_s)
      BY <1>11, <3>1, <3>3
    <3>4. QED
      BY <3>2, <3>3
  <2> HIDE DEF F
  <2>4. QED
    BY <1>11, <2>1, <2>2, <2>3, EarliestIs
<1>17. c.far = strayed[j] /\ c.t = j
  BY <1>10
<1>18. QED
  BY <1>11, <1>12, <1>15, <1>16, <1>17 DEF c, F, Far, S, met

\* travel_after keeps, for each drone in the air at the event, how far it got and when.
LEMMA TravelAfterIsJudged ==
  ASSUME VerdictInv, study.kind = "travel_after", NEW p, p = study.params
  PROVE  Judged(p)
<1> DEFINE E == Events(p)
           A == IF After(p) = {} THEN {}
                ELSE {d \in Airborne(AtStart(p)) : p.drone \in {Nobody, d}}
           none == NotMeasured({}, Unmeasured)
           nobody == NotMeasured({p.drone} \ {Nobody}, Max(E))
           limit == Square(p.max_m)
           greatest == Max({Furthest(p, d).far : d \in A})
           V == {Violation({d}, Furthest(p, d).t, Furthest(p, d).far) :
                    d \in {e \in A : Furthest(p, e).far > limit}}
           S == Since(p)
           Time(d, far) == Min({f.t : f \in {g \in S :
                              Across(Of(g, d).position, Of(AtEvent(p), d).position) = far}})
<1>1. evaluate = IF E = {} THEN Outcome(Unmeasured, none)
                 ELSE IF A = {} THEN Outcome(Unmeasured, nobody)
                 ELSE Outcome(greatest, V)
  BY DEF evaluate, travel_after
<1>2. /\ Claim(p) <=> Followed(p) # {} /\ \A d \in Followed(p) : Travel(p, d) <= limit
      /\ Measure(p) = Max({Travel(p, d) : d \in Followed(p)})
  BY DEF Claim, Measure
<1>3. Breaches(p) =
         {v \in UNION {{Violation({d}, f.t, Travel(p, d)) : f \in S} : d \in Followed(p)} :
             \E d \in v.drones : v.measured > limit /\ v.t = Time(d, v.measured)}
  BY DEF Breaches
<1>4. p.to_s \in Int /\ p.max_m \in Int
  <2>1. IsAssertion(study.kind, study.params, study.drones)
    BY Sampled DEF IsStudy
  <2>2. {p.max_m, p.to_s} \subseteq Int
    BY <2>1 DEF IsAssertion
  <2>3. QED
    BY <2>2
<1>5. limit \in Int
  BY <1>4, SquareIs
<1>6. none # {} /\ (\A v \in none : v.measured = Unmeasured)
      /\ nobody # {} /\ (\A v \in nobody : v.measured = Unmeasured)
  BY DEF NotMeasured, Violation
<1>7. E = {} => Followed(p) = {}
  BY DEF Followed
<1>8. ASSUME E # {} PROVE Followed(p) = A
  <2>1. After(p) = {} <=> {f \in S : f.t <= p.to_s} = {}
    BY <1>4, <1>8, AtEventIs
  <2>2. After(p) # {} => AtEvent(p) = AtStart(p)
    BY <1>4, <1>8, AtEventIs DEF AtStart
  <2>3. QED
    BY <1>8, <2>1, <2>2 DEF Followed
<1>9. A \subseteq Fleet
  BY DEF Airborne
<1>10. ASSUME E # {}, NEW d \in A
       PROVE  /\ Furthest(p, d).far = Travel(p, d) /\ Travel(p, d) \in Nat
              /\ Furthest(p, d).t = Time(d, Travel(p, d))
              /\ \E f \in S : f.t = Furthest(p, d).t
  <2>1. After(p) # {}
    OBVIOUS
  <2>2. d \in Fleet
    BY <1>9
  <2>3. Furthest(p, d).t \in After(p)
    BY <1>4, <1>10, <2>1, <2>2, TravelIs
  <2>4. Furthest(p, d).t \in 1 .. N /\ frames[Furthest(p, d).t] \in S
    BY <1>4, <1>10, <2>3, SinceIs
  <2>5. \E f \in S : f.t = Furthest(p, d).t
    BY <2>4, Recorded
  <2>6. QED
    BY <1>4, <1>10, <2>1, <2>2, <2>5, TravelIs
<1> HIDE DEF E, A, none, nobody, limit, greatest, S, Time
<1>11. CASE E = {}
  <2>1. evaluate = Outcome(Unmeasured, none) /\ ~Claim(p)
    BY <1>1, <1>2, <1>7, <1>11
  <2>2. Right(p, Unmeasured, none)
    BY <1>6, <2>1 DEF Right
  <2>3. QED
    BY <2>1, <2>2, RightIsJudged
<1>12. CASE E # {} /\ A = {}
  <2>1. evaluate = Outcome(Unmeasured, nobody) /\ ~Claim(p)
    BY <1>1, <1>2, <1>8, <1>12
  <2>2. Right(p, Unmeasured, nobody)
    BY <1>6, <2>1 DEF Right
  <2>3. QED
    BY <2>1, <2>2, RightIsJudged
<1>13. CASE E # {} /\ A # {}
  <2>1. evaluate = Outcome(greatest, V)
    BY <1>1, <1>13
  <2>2. Followed(p) = A
    BY <1>8, <1>13
  <2>3. \A d \in A : /\ Furthest(p, d).far = Travel(p, d) /\ Travel(p, d) \in Nat
                     /\ Furthest(p, d).t = Time(d, Travel(p, d))
                     /\ \E f \in S : f.t = Furthest(p, d).t
    BY <1>10, <1>13
  <2>4. greatest = Measure(p)
    <3>1. {Furthest(p, d).far : d \in A} = {Travel(p, d) : d \in A}
      BY <2>3
    <3>2. QED
      BY <1>2, <2>2, <3>1, Zenon DEF greatest
  <2>5. V = {} <=> Claim(p)
    <3>1. \A d \in A : Travel(p, d) <= limit <=> ~(Travel(p, d) > limit)
      BY <1>5, <2>3
    <3>2. V = {} <=> \A d \in A : ~(Travel(p, d) > limit)
      BY <2>3
    <3> HIDE DEF V
    <3>3. QED
      BY <1>2, <1>13, <2>2, <3>1, <3>2
  <2>6. V = Breaches(p)
    <3>1. ASSUME NEW v \in V PROVE v \in Breaches(p)
      <4>1. PICK d \in A : v = Violation({d}, Furthest(p, d).t, Furthest(p, d).far)
                           /\ Furthest(p, d).far > limit
        OBVIOUS
      <4>2. PICK f \in S : f.t = Furthest(p, d).t
        BY <2>3
      <4>3. v = Violation({d}, f.t, Travel(p, d))
        BY <2>3, <4>1, <4>2
      <4>4. v.drones = {d} /\ v.t = Time(d, Travel(p, d)) /\ v.measured = Travel(p, d) /\ v.measured > limit
        BY <2>3, <4>1, <4>2, <4>3 DEF Violation
      <4>5. v \in UNION {{Violation({e}, g.t, Travel(p, e)) : g \in S} : e \in Followed(p)}
        BY <2>2, <4>3
      <4>6. \E e \in v.drones : v.measured > limit /\ v.t = Time(e, v.measured)
        BY <4>4
      <4>7. QED
        BY <1>3, <4>5, <4>6
    <3>2. ASSUME NEW v \in Breaches(p) PROVE v \in V
      <4>1. /\ v \in UNION {{Violation({e}, g.t, Travel(p, e)) : g \in S} : e \in Followed(p)}
            /\ \E e \in v.drones : v.measured > limit /\ v.t = Time(e, v.measured)
        BY <1>3
      <4>2. PICK d \in A, f \in S : v = Violation({d}, f.t, Travel(p, d))
        BY <2>2, <4>1
      <4>3. v.drones = {d} /\ v.t = f.t /\ v.measured = Travel(p, d)
        BY <4>2 DEF Violation
      <4>4. Travel(p, d) > limit /\ f.t = Time(d, Travel(p, d))
        BY <4>1, <4>3
      <4>5. v = Violation({d}, Furthest(p, d).t, Furthest(p, d).far) /\ Furthest(p, d).far > limit
        BY <2>3, <4>2, <4>4
      <4>6. QED
        BY <4>5
    <3> HIDE DEF V
    <3>3. QED
      BY <3>1, <3>2
  <2> HIDE DEF V
  <2>7. Right(p, greatest, V)
    BY <2>4, <2>5, <2>6 DEF Right
  <2>8. QED
    BY <2>1, <2>7, RightIsJudged
<1>14. QED
  BY <1>11, <1>12, <1>13

-----------------------------------------------------------------------------
(* Flights on a low battery. *)

\* A flight is a run of numbers of a set; it is due at the first number at which it
\* outlasts the grace period, counted from where it started.
Flight(low, i, j) == i \in low /\ i <= j /\ \A x \in i .. j : x \in low
IsStart(low, i, j) == Flight(low, i, j) /\ i - 1 \notin low
Outlasts(grace, i, j) == j - i > grace /\ (j > i => j - 1 - i <= grace)
Due(low, grace) == {j \in low : \E i \in low : IsStart(low, i, j) /\ Outlasts(grace, i, j)}
IsLongest(x, low, ends) ==
    /\ x \in Nat
    /\ x = 0 \/ \E j \in ends : \E i \in low : Flight(low, i, j) /\ x = j - i
    /\ \A j \in ends : \A i \in low : Flight(low, i, j) => j - i <= x

\* The greater of two.
LEMMA MaxOfTwo ==
  ASSUME NEW a \in Int, NEW b \in Int
  PROVE  Max({a, b}) = IF a >= b THEN a ELSE b
<1> DEFINE S == {a, b}
           m == IF a >= b THEN a ELSE b
<1>1. S \subseteq Int /\ m \in S /\ \A x \in S : x <= m
  OBVIOUS
<1> HIDE DEF S, m
<1>2. Max(S) = m
  BY <1>1, MaxIs
<1>3. QED
  BY <1>2 DEF S, m

\* A flight started once.
LEMMA OneStart ==
  ASSUME NEW n \in Nat, NEW low \in SUBSET (1 .. n), NEW s \in low, NEW i \in low, NEW j \in low,
         IsStart(low, s, j), Flight(low, i, j)
  PROVE  /\ s <= i
         /\ IsStart(low, i, j) => i = s
<1>1. s \in 1 .. n /\ i \in 1 .. n /\ j \in 1 .. n
  OBVIOUS
<1>2. ASSUME NEW a \in low, NEW b \in low, Flight(low, a, j), IsStart(low, b, j), a < b PROVE FALSE
  <2>1. a \in 1 .. n /\ b \in 1 .. n /\ b <= j
    BY <1>2 DEF IsStart, Flight
  <2>2. b - 1 \in a .. j
    BY <1>1, <1>2, <2>1
  <2>3. QED
    BY <1>2, <2>2 DEF Flight, IsStart
<1>3. s <= i
  BY <1>1, <1>2
<1>4. IsStart(low, i, j) => i <= s
  BY <1>1, <1>2 DEF IsStart
<1>5. QED
  BY <1>1, <1>3, <1>4

\* One that outlasts the grace period is due at some time.
LEMMA SomeDue ==
  ASSUME NEW n \in Nat, NEW low \in SUBSET (1 .. n), NEW grace \in Int, NEW i \in low, NEW j \in low,
         Flight(low, i, j), j - i > grace
  PROVE  Due(low, grace) # {}
<1>1. \A x \in low : x \in 1 .. n
  OBVIOUS
<1> DEFINE S == {x \in low : Flight(low, x, j)}
           s == Min(S)
<1>2. s \in S /\ \A x \in S : s <= x
  <2>1. S \in SUBSET (1 .. n) /\ i \in S
    OBVIOUS
  <2> HIDE DEF S
  <2>2. FirstOf(S) \in S /\ (\A x \in S : FirstOf(S) <= x) /\ FirstOf(S) = Min(S)
    <3>1. S # {}
      BY <2>1
    <3>2. FirstOf(S) \in S /\ \A x \in S : FirstOf(S) <= x
      BY <2>1, <3>1, FirstOfIs
    <3>3. QED
      BY <3>1, <3>2 DEF FirstOf
  <2>3. QED
    BY <2>2
<1> HIDE DEF s
<1>3. s \in low /\ Flight(low, s, j) /\ s <= i
  BY <1>2
<1>4. s \in 1 .. n /\ i \in 1 .. n /\ j \in 1 .. n /\ s <= j
  BY <1>1, <1>3 DEF Flight
<1>5. s - 1 \notin low
  <2>1. SUFFICES ASSUME s - 1 \in low PROVE FALSE
    OBVIOUS
  <2>2. \A x \in s - 1 .. j : x = s - 1 \/ x \in s .. j
    BY <1>4
  <2>3. Flight(low, s - 1, j)
    BY <1>3, <1>4, <2>1, <2>2 DEF Flight
  <2>4. s <= s - 1
    BY <1>2, <2>1, <2>3
  <2>5. QED
    BY <1>4, <2>4
<1> DEFINE T == {x \in s .. j : x - s > grace}
           e == FirstOf(T)
<1>6. e \in T /\ \A x \in T : e <= x
  <2>1. T \in SUBSET (1 .. n) /\ j \in T
    BY <1>3, <1>4
  <2> HIDE DEF T
  <2>2. QED
    BY <2>1, FirstOfIs
<1> HIDE DEF e
<1>7. e \in s .. j /\ e - s > grace
  BY <1>6
<1>8. Flight(low, s, e) /\ e \in low
  BY <1>3, <1>4, <1>7 DEF Flight
<1>9. e > s => e - 1 - s <= grace
  <2>1. SUFFICES ASSUME e > s, ~(e - 1 - s <= grace) PROVE FALSE
    OBVIOUS
  <2>2. e - 1 \in s .. j /\ e - 1 - s > grace
    BY <1>4, <1>7, <2>1
  <2>3. e <= e - 1
    BY <1>6, <2>2
  <2>4. QED
    BY <1>4, <1>7, <2>3
<1>10. IsStart(low, s, e) /\ Outlasts(grace, s, e)
  BY <1>5, <1>7, <1>8, <1>9 DEF IsStart, Outlasts
<1>11. QED
  BY <1>3, <1>8, <1>10 DEF Due

\* LowFor, with what is recorded of a drone told apart.
Lowered(r, t, grace, v) ==
    LET started == IF r.started = Unmeasured THEN t ELSE r.started
        held == t - started
        late == held > grace /\ ~r.reported
    IN  [started |-> started, reported |-> r.reported \/ late,
         longest |-> Max({r.longest, held}),
         violations |-> IF late THEN r.violations \cup {v} ELSE r.violations]

IsLowWalk(g, n, low, grace, mark) ==
    /\ g[0] = NeverLow
    /\ \A k \in 1 .. n :
          g[k] = IF k \in low THEN Lowered(g[k - 1], k, grace, mark[k]) ELSE Recovered(g[k - 1])

Marks(mark, S) == {mark[j] : j \in S}
\* What is known after frame k.
IsLowFlown(r, low, k, grace, mark) ==
    /\ r = [started |-> r.started, reported |-> r.reported, longest |-> r.longest,
            violations |-> r.violations]
    /\ r.reported \in BOOLEAN
    /\ k \in low => r.started \in low /\ IsStart(low, r.started, k) /\ (r.reported <=> k - r.started > grace)
    /\ k \notin low => r.started = Unmeasured /\ ~r.reported
    /\ IsLongest(r.longest, low, UpTo(low, k))
    /\ r.violations = Marks(mark, UpTo(Due(low, grace), k))

\* Nothing is known before the first frame.
LEMMA LowStart ==
  ASSUME NEW n \in Nat, NEW low \in SUBSET (1 .. n), NEW grace \in Int, NEW mark
  PROVE  IsLowFlown(NeverLow, low, 0, grace, mark)
<1>1. 0 \notin low
  OBVIOUS
<1>2. UpTo(low, 0) = {}
  BY UpToIs
<1>3. Due(low, grace) \in SUBSET (1 .. n)
  BY DEF Due
<1>4. UpTo(Due(low, grace), 0) = {}
  BY <1>3, UpToIs
<1>5. IsLongest(0, low, {})
  BY DEF IsLongest
<1>6. Marks(mark, {}) = {}
  BY DEF Marks
<1>7. QED
  BY <1>1, <1>2, <1>4, <1>5, <1>6 DEF IsLowFlown, NeverLow

\* A frame that is not low ends the flight and keeps what was found.
LEMMA LowRecovers ==
  ASSUME NEW n \in Nat, NEW low \in SUBSET (1 .. n), NEW grace \in Int, NEW mark,
         NEW k \in 1 .. n, k \notin low, NEW r, IsLowFlown(r, low, k - 1, grace, mark)
  PROVE  IsLowFlown(Recovered(r), low, k, grace, mark)
<1>1. UpTo(low, k) = UpTo(low, k - 1)
  BY UpToSkips
<1>2. Due(low, grace) \in SUBSET (1 .. n) /\ k \notin Due(low, grace)
  BY DEF Due
<1>3. UpTo(Due(low, grace), k) = UpTo(Due(low, grace), k - 1)
  BY <1>2, UpToSkips
<1>4. Recovered(r) = [started |-> Unmeasured, reported |-> FALSE, longest |-> r.longest,
                      violations |-> r.violations]
  <2>1. r = [started |-> r.started, reported |-> r.reported, longest |-> r.longest,
             violations |-> r.violations]
    BY DEF IsLowFlown
  <2>2. PICK a, b, l, v :
           /\ l = r.longest /\ v = r.violations
           /\ r = [started |-> a, reported |-> b, longest |-> l, violations |-> v]
    BY <2>1, Zenon
  <2>3. r = [started |-> a, reported |-> b, longest |-> l, violations |-> v]
    BY <2>2
  <2> DEFINE q == [r EXCEPT !.started = Unmeasured]
  <2>4. q = [started |-> Unmeasured, reported |-> b, longest |-> l, violations |-> v]
    BY <2>3
  <2> HIDE DEF q
  <2>5. PICK no : no = FALSE
    OBVIOUS
  <2>6. [q EXCEPT !.reported = no] =
           [started |-> Unmeasured, reported |-> no, longest |-> l, violations |-> v]
    BY <2>4
  <2>7. Recovered(r) = [started |-> Unmeasured, reported |-> FALSE, longest |-> l, violations |-> v]
    BY <2>5, <2>6, Zenon DEF Recovered, q
  <2>8. QED
    BY <2>2, <2>7
<1>5. IsLongest(r.longest, low, UpTo(low, k))
  BY <1>1 DEF IsLowFlown
<1>6. r.violations = Marks(mark, UpTo(Due(low, grace), k))
  BY <1>3 DEF IsLowFlown
<1>7. QED
  BY <1>4, <1>5, <1>6 DEF IsLowFlown

\* A low frame starts a flight or goes on with it; the flight is reported when it
\* outlasts the grace period, and not again.
LEMMA LowGoesOn ==
  ASSUME NEW n \in Nat, NEW low \in SUBSET (1 .. n), NEW grace \in Int, NEW mark,
         NEW k \in low, NEW r, IsLowFlown(r, low, k - 1, grace, mark)
  PROVE  IsLowFlown(Lowered(r, k, grace, mark[k]), low, k, grace, mark)
<1> DEFINE s == IF r.started = Unmeasured THEN k ELSE r.started
           held == k - s
           late == held > grace /\ ~r.reported
           longest == Max({r.longest, held})
           D == Due(low, grace)
<1>1. k \in 1 .. n /\ \A x \in low : x \in 1 .. n
  OBVIOUS
<1>2. r.reported \in BOOLEAN /\ IsLongest(r.longest, low, UpTo(low, k - 1))
      /\ r.violations = Marks(mark, UpTo(D, k - 1))
  BY DEF IsLowFlown
<1>3. s \in low /\ IsStart(low, s, k) /\ (r.reported <=> k > s /\ k - 1 - s > grace)
  <2>1. CASE k - 1 \in low
    <3>1. r.started \in low /\ IsStart(low, r.started, k - 1) /\ (r.reported <=> k - 1 - r.started > grace)
      BY <2>1 DEF IsLowFlown
    <3>2. r.started \in 1 .. n /\ r.started <= k - 1
      BY <1>1, <3>1 DEF IsStart, Flight
    <3>3. s = r.started
      <4>1. r.started # -1
        BY <3>2
      <4>2. QED
        BY <4>1 DEF Unmeasured
    <3> HIDE DEF s
    <3>4. \A x \in s .. k : x \in s .. k - 1 \/ x = k
      BY <1>1, <3>2, <3>3
    <3>5. Flight(low, s, k)
      BY <1>1, <3>1, <3>2, <3>3, <3>4 DEF IsStart, Flight
    <3>6. k > s
      BY <1>1, <3>2, <3>3
    <3>7. QED
      BY <3>1, <3>3, <3>5, <3>6 DEF IsStart
  <2>2. CASE k - 1 \notin low
    <3>1. r.started = Unmeasured /\ ~r.reported
      BY <2>2 DEF IsLowFlown
    <3>2. s = k
      BY <3>1
    <3> HIDE DEF s
    <3>3. \A x \in k .. k : x = k
      BY <1>1
    <3>4. IsStart(low, k, k)
      BY <1>1, <2>2, <3>3 DEF IsStart, Flight
    <3>5. ~(k > k)
      BY <1>1
    <3>6. QED
      BY <3>1, <3>2, <3>4, <3>5
  <2>3. QED
    BY <2>1, <2>2
<1> HIDE DEF s
<1>4. s \in 1 .. n /\ s <= k /\ Flight(low, s, k)
  BY <1>1, <1>3 DEF IsStart, Flight
<1>5. held \in Nat /\ r.longest \in Nat
  BY <1>1, <1>2, <1>4 DEF IsLongest
<1>6. late <=> Outlasts(grace, s, k)
  BY <1>1, <1>3, <1>4 DEF Outlasts
<1>7. late <=> k \in D
  <2>1. ASSUME late PROVE k \in D
    BY <1>3, <1>6, <2>1 DEF Due
  <2>2. ASSUME k \in D PROVE late
    <3>1. PICK i \in low : IsStart(low, i, k) /\ Outlasts(grace, i, k)
      BY <2>2 DEF Due
    <3>2. i = s
      BY <1>3, <3>1, OneStart DEF IsStart
    <3>3. QED
      BY <1>6, <3>1, <3>2
  <2> HIDE DEF late, D
  <2>3. QED
    BY <2>1, <2>2
<1>8. (r.reported \/ late) <=> k - s > grace
  BY <1>1, <1>2, <1>3, <1>4
<1>9. longest = IF r.longest >= held THEN r.longest ELSE held
  <2> HIDE DEF held
  <2>1. QED
    BY <1>5, MaxOfTwo
<1> HIDE DEF longest
<1>10. UpTo(low, k) = UpTo(low, k - 1) \cup {k}
  BY UpToTakes
<1>11. IsLongest(longest, low, UpTo(low, k))
  <2>1. longest \in Nat /\ r.longest <= longest /\ held <= longest
    BY <1>5, <1>9
  <2>2. longest = 0 \/ \E j \in UpTo(low, k) : \E i \in low : Flight(low, i, j) /\ longest = j - i
    <3>1. CASE longest = r.longest
      BY <1>2, <1>10, <3>1 DEF IsLongest
    <3>2. CASE longest = held
      BY <1>3, <1>4, <1>10, <3>2
    <3>3. QED
      BY <1>9, <3>1, <3>2
  <2>3. ASSUME NEW j \in UpTo(low, k), NEW i \in low, Flight(low, i, j) PROVE j - i <= longest
    <3>1. CASE j = k
      <4>1. s <= i
        BY <1>3, <2>3, <3>1, OneStart
      <4>2. k - i <= held
        BY <1>1, <1>4, <4>1
      <4> HIDE DEF held
      <4>3. QED
        BY <1>1, <1>5, <2>1, <3>1, <4>2
    <3>2. CASE j \in UpTo(low, k - 1)
      <4>1. j - i <= r.longest
        BY <1>2, <2>3, <3>2 DEF IsLongest
      <4>2. j \in 1 .. n /\ i \in 1 .. n
        BY <1>1, <3>2 DEF UpTo
      <4> HIDE DEF held
      <4>3. QED
        BY <1>5, <2>1, <4>1, <4>2
    <3>3. QED
      BY <1>10, <2>3, <3>1, <3>2
  <2>4. QED
    BY <2>1, <2>2, <2>3 DEF IsLongest
<1>12. D \in SUBSET (1 .. n)
  BY DEF Due
<1> HIDE DEF D, late, held
<1>13. (IF late THEN r.violations \cup {mark[k]} ELSE r.violations) = Marks(mark, UpTo(D, k))
  <2>1. CASE late
    <3>1. UpTo(D, k) = UpTo(D, k - 1) \cup {k}
      BY <1>7, <1>12, <2>1, UpToTakes
    <3>2. QED
      BY <1>2, <2>1, <3>1 DEF Marks
  <2>2. CASE ~late
    <3>1. UpTo(D, k) = UpTo(D, k - 1)
      BY <1>1, <1>7, <1>12, <2>2, UpToSkips
    <3>2. QED
      BY <1>2, <2>2, <3>1
  <2>3. QED
    BY <2>1, <2>2
<1> DEFINE v == IF late THEN r.violations \cup {mark[k]} ELSE r.violations
           reported == r.reported \/ late
<1>14. Lowered(r, k, grace, mark[k]) =
          [started |-> s, reported |-> reported, longest |-> longest, violations |-> v]
  BY Zenon DEF Lowered, s, held, late, longest
<1>15. reported \in BOOLEAN
  OBVIOUS
<1>16. reported <=> k - s > grace
  BY <1>8
<1>17. v = Marks(mark, UpTo(D, k))
  BY <1>13
<1> HIDE DEF v, reported
<1>18. QED
  BY <1>3, <1>11, <1>14, <1>15, <1>16, <1>17 DEF IsLowFlown, D

\* At the end the walk has the longest flight and all that were due.
LEMMA LowWalk ==
  ASSUME NEW n \in Nat, NEW low \in SUBSET (1 .. n), NEW grace \in Int, NEW mark, NEW g,
         IsLowWalk(g, n, low, grace, mark)
  PROVE  /\ IsLongest(g[n].longest, low, low)
         /\ g[n].violations = Marks(mark, Due(low, grace))
<1> DEFINE P == {k \in 0 .. n : IsLowFlown(g[k], low, k, grace, mark)}
<1>1. 0 \in P
  <2>1. IsLowFlown(NeverLow, low, 0, grace, mark)
    BY LowStart
  <2>2. g[0] = NeverLow /\ 0 \in 0 .. n
    BY DEF IsLowWalk
  <2>3. QED
    BY <2>1, <2>2
<1>2. ASSUME NEW k \in 1 .. n, k - 1 \in P PROVE k \in P
  <2>1. IsLowFlown(g[k - 1], low, k - 1, grace, mark) /\ k \in 0 .. n
    BY <1>2
  <2>2. g[k] = IF k \in low THEN Lowered(g[k - 1], k, grace, mark[k]) ELSE Recovered(g[k - 1])
    BY DEF IsLowWalk
  <2>3. IsLowFlown(g[k], low, k, grace, mark)
    <3>1. CASE k \in low
      BY <2>1, <2>2, <3>1, LowGoesOn
    <3>2. CASE k \notin low
      BY <2>1, <2>2, <3>2, LowRecovers
    <3>3. QED
      BY <3>1, <3>2
  <2>4. QED
    BY <2>1, <2>3
<1>3. n \in P
  <2> HIDE DEF P
  <2>1. \A k \in 0 .. n : k \in P
    BY <1>1, <1>2, InductionUpTo
  <2>2. QED
    BY <2>1
<1>4. UpTo(low, n) = low
  BY UpToIs
<1>5. UpTo(Due(low, grace), n) = Due(low, grace)
  <2>1. Due(low, grace) \in SUBSET (1 .. n)
    BY DEF Due
  <2>2. QED
    BY <2>1, UpToIs
<1>6. QED
  BY <1>3, <1>4, <1>5 DEF IsLowFlown

-----------------------------------------------------------------------------
(* The low flights of a drone. *)

LowIn(p, d) == {i \in 1 .. N : TaskedWhileLow(Of(frames[i], d), p.threshold_pct)}
MarkIn(d) == [i \in 1 .. N |-> Violation({d}, i, Of(frames[i], d).battery)]

\* no_task_below_battery's walk over the frames is such a walk.
LEMMA FlownLowIs ==
  ASSUME VerdictInv, NEW p, p.grace_s \in Int, NEW d \in Fleet
  PROVE  /\ IsLongest(FlownLow(p, d).longest, LowIn(p, d), LowIn(p, d))
         /\ FlownLow(p, d).violations = Marks(MarkIn(d), Due(LowIn(p, d), p.grace_s))
<1> DEFINE low == LowIn(p, d)
           mark == MarkIn(d)
           grace == p.grace_s
           V == {mark[i] : i \in 1 .. N}
           X == [started : Int, reported : BOOLEAN, longest : Int, violations : SUBSET V]
           Kept(c, k) == IF k \in low THEN Lowered(c, k, grace, mark[k]) ELSE Recovered(c)
           step == [k \in 1 .. N |-> [c \in X |-> Kept(c, k)]]
           base == NeverLow
           Walk(f) == [i \in 0 .. N |-> IF i = 0 THEN NeverLow ELSE LowFor(p, d, f[i - 1], frames[i])]
<1>1. N \in Nat /\ low \in SUBSET (1 .. N) /\ grace \in Int
  BY Recorded DEF LowIn
<1>2. ASSUME NEW f, NEW k \in 1 .. N
      PROVE  LowFor(p, d, f[k - 1], frames[k]) = Kept(f[k - 1], k)
  <2>1. frames[k].t = k /\ mark[k] = Violation({d}, k, Of(frames[k], d).battery)
    BY Recorded DEF MarkIn
  <2>2. k \in low <=> TaskedWhileLow(Of(frames[k], d), p.threshold_pct)
    BY DEF LowIn
  <2> HIDE DEF low, mark
  <2>3. CASE k \in low
    <3>1. LowFor(p, d, f[k - 1], frames[k]) = Lowered(f[k - 1], k, grace, mark[k])
      BY <2>1, <2>2, <2>3 DEF LowFor, Lowered
    <3>2. QED
      BY <2>3, <3>1
  <2>4. CASE k \notin low
    <3>1. LowFor(p, d, f[k - 1], frames[k]) = Recovered(f[k - 1])
      BY <2>2, <2>4 DEF LowFor
    <3>2. QED
      BY <2>4, <3>1
  <2>5. QED
    BY <2>3, <2>4
<1> HIDE DEF low, mark, grace
<1>3. ASSUME NEW k \in 1 .. N, NEW c \in X PROVE Kept(c, k) \in X
  <2>1. Recovered(c) \in X
    <3>1. PICK no \in BOOLEAN : no = FALSE
      OBVIOUS
    <3> DEFINE q == [c EXCEPT !.started = Unmeasured]
    <3>2. q \in X
      BY DEF Unmeasured
    <3> HIDE DEF q
    <3>3. [q EXCEPT !.reported = no] \in X
      BY <3>2
    <3>4. Recovered(c) = [q EXCEPT !.reported = no]
      BY <3>1, Zenon DEF Recovered, q
    <3>5. QED
      BY <3>3, <3>4
  <2>2. Lowered(c, k, grace, mark[k]) \in X
    <3> DEFINE s == IF c.started = Unmeasured THEN k ELSE c.started
               held == k - s
               late == held > grace /\ ~c.reported
               l == Max({c.longest, held})
               v == IF late THEN c.violations \cup {mark[k]} ELSE c.violations
               reported == c.reported \/ late
    <3>1. c.started \in Int /\ c.reported \in BOOLEAN /\ c.longest \in Int /\ c.violations \in SUBSET V
      OBVIOUS
    <3>2. s \in Int /\ held \in Int
      BY <3>1
    <3>3. l \in Int
      <4> HIDE DEF held
      <4>1. l = IF c.longest >= held THEN c.longest ELSE held
        BY <3>1, <3>2, MaxOfTwo
      <4>2. QED
        BY <3>1, <3>2, <4>1
    <3>4. v \in SUBSET V
      BY <3>1
    <3>5. reported \in BOOLEAN
      OBVIOUS
    <3>6. Lowered(c, k, grace, mark[k]) =
             [started |-> s, reported |-> reported, longest |-> l, violations |-> v]
      BY Zenon DEF Lowered, s, held, late, l, v, reported
    <3> HIDE DEF s, held, late, l, v, reported, V
    <3>7. QED
      BY <3>2, <3>3, <3>4, <3>5, <3>6
  <2>3. QED
    BY <2>1, <2>2
<1>4. step \in Steps(N, X)
  BY <1>3 DEF Steps
<1>5. \A k \in 1 .. N, c \in X : step[k][c] = Kept(c, k)
  OBVIOUS
<1>6. base \in X
  BY DEF NeverLow, Unmeasured
<1> HIDE DEF step, X, Kept, base
<1>7. PICK f : f \in Iterations(N, X, base, step)
  BY <1>1, <1>4, <1>6, RecursionUpTo
<1>8. f \in [0 .. N -> X] /\ f[0] = base /\ \A k \in 1 .. N : f[k] = Kept(f[k - 1], k)
  <2>1. f \in [0 .. N -> X] /\ f[0] = base /\ \A k \in 1 .. N : f[k] = step[k][f[k - 1]]
    BY <1>7 DEF Iterations
  <2>2. ASSUME NEW k \in 1 .. N PROVE f[k] = Kept(f[k - 1], k)
    <3>1. k - 1 \in 0 .. N /\ N \in Nat
      BY <1>1
    <3>2. QED
      BY <1>5, <2>1, <3>1
  <2>3. QED
    BY <2>1, <2>2
<1>9. f = Walk(f)
  <2>1. \A i \in 0 .. N : i = 0 \/ i \in 1 .. N
    BY <1>1
  <2>2. \A i \in 0 .. N : f[i] = IF i = 0 THEN NeverLow ELSE LowFor(p, d, f[i - 1], frames[i])
    BY <1>2, <1>8, <2>1, Zenon DEF base
  <2>3. QED
    BY <1>8, <2>2
<1> DEFINE g == CHOOSE h : h = Walk(h)
<1>10. g = Walk(g)
  BY <1>9
<1>11. FlownLow(p, d) = g[N]
  BY Zenon DEF FlownLow, g, N
<1> HIDE DEF g
<1>12. g[0] = NeverLow /\ \A k \in 1 .. N : g[k] = Kept(g[k - 1], k)
  <2>1. \A i \in 0 .. N : g[i] = Walk(g)[i]
    BY <1>10
  <2>2. 0 \in 0 .. N /\ \A i \in 1 .. N : i \in 0 .. N /\ i # 0
    BY <1>1
  <2>3. QED
    BY <1>2, <2>1, <2>2
<1>13. IsLowWalk(g, N, low, grace, mark)
  BY <1>12 DEF IsLowWalk, Kept
<1>14. IsLongest(g[N].longest, low, low) /\ g[N].violations = Marks(mark, Due(low, grace))
  BY <1>1, <1>13, LowWalk
<1>15. QED
  BY <1>11, <1>14 DEF low, mark, grace

\* LowFlights, in the terms of the walk.
LEMMA LowFlightsAre ==
  ASSUME VerdictInv, NEW p, p = study.params, study.kind = "no_task_below_battery", NEW d \in Fleet
  PROVE  /\ \A i, j \in 1 .. N : <<i, j>> \in LowFlights(p, d) <=> Flight(LowIn(p, d), i, j)
         /\ \A b \in LowFlights(p, d) : /\ b = <<b[1], b[2]>> /\ b[1] \in 1 .. N /\ b[2] \in 1 .. N
                                        /\ b[1] \in LowIn(p, d) /\ b[2] \in LowIn(p, d)
                                        /\ Flight(LowIn(p, d), b[1], b[2])
         /\ \A i, j \in 1 .. N : Lasting(p, i, j) = j - i
<1> DEFINE low == LowIn(p, d)
<1>1. N \in Nat /\ DOMAIN frames = 1 .. N
  BY Recorded
<1>2. \A k \in 1 .. N : k \in low <=> /\ Of(frames[k], d).armed /\ Of(frames[k], d).mode = "OFFBOARD"
                                       /\ Of(frames[k], d).battery < p.threshold_pct
  BY DEF LowIn, TaskedWhileLow
<1> HIDE DEF low
<1>3. ASSUME NEW i \in 1 .. N, NEW j \in 1 .. N
      PROVE  LowFlight(p, d, i, j) <=> \A k \in i .. j : k \in low
  <2>1. \A k \in i .. j : k \in 1 .. N
    BY <1>1
  <2>2. QED
    BY <1>2, <2>1 DEF LowFlight
<1>4. ASSUME NEW i \in 1 .. N, NEW j \in 1 .. N
      PROVE  i <= j /\ LowFlight(p, d, i, j) <=> Flight(low, i, j)
  <2>1. i <= j => i \in i .. j
    OBVIOUS
  <2>2. QED
    BY <1>3, <2>1 DEF Flight
<1>5. ASSUME NEW i \in 1 .. N, NEW j \in 1 .. N
      PROVE  <<i, j>> \in LowFlights(p, d) <=> Flight(low, i, j)
  <2>1. <<i, j>> \in LowFlights(p, d) <=> i <= j /\ LowFlight(p, d, i, j)
    BY <1>1 DEF LowFlights
  <2>2. QED
    BY <1>4, <2>1
<1>6. ASSUME NEW b \in LowFlights(p, d)
      PROVE  /\ b = <<b[1], b[2]>> /\ b[1] \in 1 .. N /\ b[2] \in 1 .. N
             /\ b[1] \in low /\ b[2] \in low /\ Flight(low, b[1], b[2])
  <2>1. b = <<b[1], b[2]>> /\ b[1] \in 1 .. N /\ b[2] \in 1 .. N
    BY <1>1 DEF LowFlights
  <2>2. b[1] <= b[2] /\ LowFlight(p, d, b[1], b[2])
    BY DEF LowFlights
  <2>3. Flight(low, b[1], b[2])
    BY <1>4, <2>1, <2>2
  <2>4. b[2] \in b[1] .. b[2]
    BY <2>1, <2>2
  <2>5. QED
    BY <2>1, <2>3, <2>4 DEF Flight
<1>7. \A i, j \in 1 .. N : Lasting(p, i, j) = j - i
  BY Recorded DEF Lasting
<1>8. QED
  BY <1>5, <1>6, <1>7 DEF low

\* The breaches of a drone are the numbers at which a flight is due.
LowBreaches(p, d) ==
    {Violation({d}, frames[b[2]].t, Of(frames[b[2]], d).battery) :
        b \in {b \in LowFlights(p, d) :
                  /\ b[1] - 1 \in DOMAIN frames => ~LowFlight(p, d, b[1] - 1, b[1])
                  /\ Lasting(p, b[1], b[2]) > p.grace_s
                  /\ b[2] > b[1] => Lasting(p, b[1], b[2] - 1) <= p.grace_s}}

\* The walk reports a flight where it outlasts the grace period: these are the breaches.
LEMMA DueAre ==
  ASSUME VerdictInv, NEW p, p = study.params, study.kind = "no_task_below_battery",
         p.grace_s \in Int, NEW d \in Fleet
  PROVE  Marks(MarkIn(d), Due(LowIn(p, d), p.grace_s)) = LowBreaches(p, d)
<1> DEFINE low == LowIn(p, d)
           mark == MarkIn(d)
           grace == p.grace_s
           L == LowFlights(p, d)
           At2(j) == Violation({d}, frames[j].t, Of(frames[j], d).battery)
           B == {b \in L : /\ b[1] - 1 \in DOMAIN frames => ~LowFlight(p, d, b[1] - 1, b[1])
                           /\ Lasting(p, b[1], b[2]) > grace
                           /\ b[2] > b[1] => Lasting(p, b[1], b[2] - 1) <= grace}
<1>1. N \in Nat /\ DOMAIN frames = 1 .. N /\ low \in SUBSET (1 .. N)
  BY Recorded DEF LowIn
<1>2. \A j \in 1 .. N : mark[j] = At2(j)
  BY Recorded DEF MarkIn
<1>3. \A i, j \in 1 .. N : <<i, j>> \in L <=> Flight(low, i, j)
  BY LowFlightsAre
<1>4. \A b \in L : b = <<b[1], b[2]>> /\ b[1] \in 1 .. N /\ b[2] \in 1 .. N
                   /\ b[1] \in low /\ b[2] \in low /\ Flight(low, b[1], b[2])
  BY LowFlightsAre
<1>5. \A i, j \in 1 .. N : Lasting(p, i, j) = j - i
  BY LowFlightsAre
<1>6. ASSUME NEW i \in low, i - 1 \in 1 .. N
      PROVE  LowFlight(p, d, i - 1, i) <=> i - 1 \in low
  <2>1. i \in 1 .. N
    BY <1>1
  <2>2. \A k \in i - 1 .. i : k = i - 1 \/ k = i
    BY <2>1
  <2>3. i - 1 \in i - 1 .. i /\ i - 1 <= i
    BY <2>1
  <2>4. \A k \in 1 .. N : k \in low <=> /\ Of(frames[k], d).armed /\ Of(frames[k], d).mode = "OFFBOARD"
                                         /\ Of(frames[k], d).battery < p.threshold_pct
    BY DEF LowIn, TaskedWhileLow
  <2> HIDE DEF low
  <2>5. QED
    BY <1>6, <2>1, <2>2, <2>3, <2>4 DEF LowFlight
<1> HIDE DEF low, mark, L, grace
<1>7. ASSUME NEW i \in low, NEW j \in low, Flight(low, i, j)
      PROVE  <<i, j>> \in B <=> IsStart(low, i, j) /\ Outlasts(grace, i, j)
  <2>1. i \in 1 .. N /\ j \in 1 .. N /\ <<i, j>> \in L
    BY <1>1, <1>3, <1>7
  <2>2. (i - 1 \in DOMAIN frames => ~LowFlight(p, d, i - 1, i)) <=> i - 1 \notin low
    BY <1>1, <1>6
  <2>3. Lasting(p, i, j) = j - i
    BY <1>5, <2>1
  <2>4. j > i => Lasting(p, i, j - 1) = j - 1 - i
    <3>1. j > i => j - 1 \in 1 .. N
      BY <1>1, <2>1
    <3>2. QED
      BY <1>5, <2>1, <3>1
  <2> DEFINE b == <<i, j>>
  <2>5. b[1] = i /\ b[2] = j /\ b \in L
    BY <2>1
  <2>6. b \in B <=> /\ b[1] - 1 \in DOMAIN frames => ~LowFlight(p, d, b[1] - 1, b[1])
                    /\ Lasting(p, b[1], b[2]) > grace
                    /\ b[2] > b[1] => Lasting(p, b[1], b[2] - 1) <= grace
    BY <2>5
  <2> HIDE DEF b, B
  <2>7. b \in B <=> i - 1 \notin low /\ Outlasts(grace, i, j)
    BY <2>2, <2>3, <2>4, <2>5, <2>6 DEF Outlasts
  <2>8. QED
    BY <1>7, <2>7 DEF b, IsStart
<1>8. \A b \in B : b \in L
  OBVIOUS
<1> HIDE DEF B
<1>9. ASSUME NEW j \in Due(low, grace) PROVE \E b \in B : mark[j] = At2(b[2])
  <2>1. PICK i \in low : IsStart(low, i, j) /\ Outlasts(grace, i, j)
    BY DEF Due
  <2>2. j \in low /\ j \in 1 .. N
    BY <1>1 DEF Due
  <2>3. <<i, j>> \in B
    BY <1>7, <2>1, <2>2 DEF IsStart
  <2>4. <<i, j>>[2] = j
    OBVIOUS
  <2>5. mark[j] = At2(<<i, j>>[2])
    BY <1>2, <2>2, <2>4
  <2> HIDE DEF At2
  <2>6. QED
    BY <2>3, <2>5
<1>10. ASSUME NEW b \in B PROVE \E j \in Due(low, grace) : mark[j] = At2(b[2])
  <2>1. /\ b = <<b[1], b[2]>> /\ b[1] \in 1 .. N /\ b[2] \in 1 .. N
        /\ b[1] \in low /\ b[2] \in low /\ Flight(low, b[1], b[2])
    BY <1>4, <1>8
  <2>2. <<b[1], b[2]>> \in B
    BY <2>1, Zenon
  <2>3. IsStart(low, b[1], b[2]) /\ Outlasts(grace, b[1], b[2])
    BY <1>7, <2>1, <2>2
  <2>4. b[2] \in Due(low, grace)
    BY <2>1, <2>3 DEF Due
  <2>5. mark[b[2]] = At2(b[2])
    BY <1>2, <2>1
  <2> HIDE DEF At2
  <2>6. QED
    BY <2>4, <2>5
<1>11. Marks(mark, Due(low, grace)) = {At2(b[2]) : b \in B}
  <2> HIDE DEF At2
  <2>1. QED
    BY <1>9, <1>10 DEF Marks
<1>12. QED
  BY <1>11 DEF low, mark, grace, L, B, LowBreaches

\* no_task_below_battery keeps, for each drone, its longest low flight and the flights
\* that outlasted the grace period.
LEMMA NoTaskBelowBatteryIsJudged ==
  ASSUME VerdictInv, study.kind = "no_task_below_battery", NEW p, p = study.params
  PROVE  Judged(p)
<1> DEFINE grace == p.grace_s
           Longest(d) == FlownLow(p, d).longest
           S == {Longest(d) : d \in Fleet}
           greatest == Max(S)
           V == UNION {FlownLow(p, d).violations : d \in Fleet}
           L(d) == LowFlights(p, d)
           T == {0} \cup UNION {{Lasting(p, b[1], b[2]) : b \in L(d)} : d \in Fleet}
<1>1. evaluate = Outcome(greatest, V)
  BY DEF evaluate, no_task_below_battery
<1>2. /\ Claim(p) <=> \A d \in Fleet : \A b \in L(d) : Lasting(p, b[1], b[2]) <= grace
      /\ Measure(p) = Max(T)
  BY DEF Claim, Measure
<1>3. grace \in Int
  <2>1. IsAssertion(study.kind, study.params, study.drones)
    BY Sampled DEF IsStudy
  <2>2. {p.threshold_pct, p.grace_s} \subseteq Int
    BY <2>1 DEF IsAssertion
  <2>3. QED
    BY <2>2
<1>4. ASSUME NEW d \in Fleet
      PROVE  /\ IsLongest(Longest(d), LowIn(p, d), LowIn(p, d))
             /\ FlownLow(p, d).violations = Marks(MarkIn(d), Due(LowIn(p, d), grace))
  BY <1>3, FlownLowIs
<1>5. ASSUME NEW d \in Fleet, NEW b \in L(d)
      PROVE  /\ b[1] \in LowIn(p, d) /\ b[2] \in LowIn(p, d) /\ Flight(LowIn(p, d), b[1], b[2])
             /\ Lasting(p, b[1], b[2]) = b[2] - b[1]
             /\ b[1] \in 1 .. N /\ b[2] \in 1 .. N
  <2>1. /\ b[1] \in 1 .. N /\ b[2] \in 1 .. N /\ b[1] \in LowIn(p, d) /\ b[2] \in LowIn(p, d)
        /\ Flight(LowIn(p, d), b[1], b[2])
    BY LowFlightsAre
  <2>2. \A i, j \in 1 .. N : Lasting(p, i, j) = j - i
    BY LowFlightsAre
  <2>3. QED
    BY <2>1, <2>2
<1>6. ASSUME NEW d \in Fleet, NEW i \in LowIn(p, d), NEW j \in LowIn(p, d), Flight(LowIn(p, d), i, j)
      PROVE  \E b \in L(d) : Lasting(p, b[1], b[2]) = j - i
  <2>1. i \in 1 .. N /\ j \in 1 .. N
    BY DEF LowIn
  <2>2. <<i, j>> \in L(d)
    BY <1>6, <2>1, LowFlightsAre
  <2>3. Lasting(p, i, j) = j - i
    BY <2>1, LowFlightsAre
  <2>4. <<i, j>>[1] = i /\ <<i, j>>[2] = j
    OBVIOUS
  <2>5. Lasting(p, <<i, j>>[1], <<i, j>>[2]) = j - i
    BY <2>3, <2>4
  <2> HIDE DEF L
  <2>6. QED
    BY <2>2, <2>5
<1>7. V = Breaches(p)
  <2>1. Breaches(p) = UNION {LowBreaches(p, d) : d \in Fleet}
    BY Zenon DEF Breaches, LowBreaches
  <2>2. ASSUME NEW d \in Fleet PROVE FlownLow(p, d).violations = LowBreaches(p, d)
    <3>1. Marks(MarkIn(d), Due(LowIn(p, d), p.grace_s)) = LowBreaches(p, d)
      BY <1>3, DueAre
    <3>2. QED
      BY <1>4, <3>1
  <2>3. QED
    BY <2>1, <2>2
<1>8. study.drones \in Nat /\ 1 \in Fleet /\ Fleet = 1 .. study.drones
  <2>1. study.drones \in Nat \ {0}
    BY Sampled DEF IsStudy
  <2>2. QED
    BY <2>1 DEF Fleet
<1>9. \A d \in Fleet : Longest(d) \in Nat
  BY <1>4 DEF IsLongest
<1> HIDE DEF Longest, L
<1>10. greatest \in S /\ \A x \in S : x <= greatest
  <2> DEFINE f == [d \in Fleet |-> Longest(d)]
             n == study.drones
  <2>1. S = {f[d] : d \in Fleet}
    OBVIOUS
  <2>2. IsFiniteSet(Fleet)
    <3> HIDE DEF n
    <3>1. IsFiniteSet(1 .. n) /\ Cardinality(1 .. n) = n
      BY <1>8, FS_Interval DEF n
    <3>2. QED
      BY <1>8, <3>1 DEF n
  <2> HIDE DEF f
  <2>3. IsFiniteSet({f[d] : d \in Fleet})
    BY <2>2, FiniteImage
  <2>4. S # {} /\ S \subseteq Int
    BY <1>8, <1>9
  <2> HIDE DEF S
  <2>5. QED
    BY <2>1, <2>3, <2>4, Extremes
<1> HIDE DEF greatest
<1>11. PICK w \in Fleet : greatest = Longest(w)
  BY <1>10
<1>12. \A d \in Fleet : Longest(d) <= greatest
  BY <1>10
<1>13. greatest \in Nat
  BY <1>9, <1>11
<1>14. greatest = Measure(p)
  <2>1. greatest \in T
    <3>1. greatest = 0 \/ \E j \in LowIn(p, w) : \E i \in LowIn(p, w) :
                              Flight(LowIn(p, w), i, j) /\ greatest = j - i
      BY <1>4, <1>11 DEF IsLongest
    <3>2. greatest = 0 \/ \E b \in L(w) : Lasting(p, b[1], b[2]) = greatest
      BY <1>6, <3>1
    <3>3. QED
      BY <3>2
  <2>2. ASSUME NEW d \in Fleet, NEW b \in L(d)
        PROVE  Lasting(p, b[1], b[2]) \in Int /\ Lasting(p, b[1], b[2]) <= greatest
    <3>1. /\ b[1] \in LowIn(p, d) /\ b[2] \in LowIn(p, d) /\ Flight(LowIn(p, d), b[1], b[2])
          /\ Lasting(p, b[1], b[2]) = b[2] - b[1] /\ b[1] \in Int /\ b[2] \in Int
      BY <1>5
    <3>2. b[2] - b[1] <= Longest(d)
      BY <1>4, <3>1 DEF IsLongest
    <3>3. Longest(d) \in Nat /\ Longest(d) <= greatest
      BY <1>9, <1>12
    <3>4. QED
      BY <1>13, <3>1, <3>2, <3>3
  <2>3. \A x \in T : x \in Int /\ x <= greatest
    BY <1>13, <2>2
  <2> HIDE DEF T
  <2>4. T \subseteq Int
    BY <2>3
  <2>5. Max(T) = greatest
    BY <2>1, <2>3, <2>4, MaxIs
  <2>6. QED
    BY <1>2, <2>5
<1>15. V = {} <=> Claim(p)
  <2>1. ASSUME NEW d \in Fleet
        PROVE  Due(LowIn(p, d), grace) = {} <=> \A b \in L(d) : Lasting(p, b[1], b[2]) <= grace
    <3> DEFINE low == LowIn(p, d)
    <3>1. N \in Nat /\ low \in SUBSET (1 .. N)
      BY Recorded DEF LowIn
    <3>2. ASSUME NEW b \in L(d), ~(Lasting(p, b[1], b[2]) <= grace) PROVE Due(low, grace) # {}
      <4>1. /\ b[1] \in low /\ b[2] \in low /\ Flight(low, b[1], b[2])
            /\ Lasting(p, b[1], b[2]) = b[2] - b[1] /\ b[1] \in Int /\ b[2] \in Int
        BY <1>5
      <4>2. b[2] - b[1] > grace
        BY <1>3, <3>2, <4>1
      <4> HIDE DEF low, grace
      <4>3. QED
        BY <1>3, <3>1, <4>1, <4>2, SomeDue
    <3>3. ASSUME NEW j \in Due(low, grace) PROVE \E b \in L(d) : ~(Lasting(p, b[1], b[2]) <= grace)
      <4>1. PICK i \in low : IsStart(low, i, j) /\ Outlasts(grace, i, j)
        BY DEF Due
      <4>2. j \in low
        BY DEF Due
      <4>3. PICK b \in L(d) : Lasting(p, b[1], b[2]) = j - i
        BY <1>6, <4>1, <4>2 DEF IsStart
      <4>4. j - i > grace /\ i \in Int /\ j \in Int
        BY <3>1, <4>1, <4>2 DEF Outlasts
      <4>5. ~(j - i <= grace)
        BY <1>3, <4>4
      <4>6. QED
        BY <4>3, <4>5
    <3>4. QED
      BY <3>2, <3>3
  <2>2. \A d \in Fleet : FlownLow(p, d).violations = {} <=> Due(LowIn(p, d), grace) = {}
    BY <1>4 DEF Marks
  <2>3. V = {} <=> \A d \in Fleet : FlownLow(p, d).violations = {}
    OBVIOUS
  <2> HIDE DEF V, grace
  <2>4. QED
    BY <1>2, <2>1, <2>2, <2>3
<1> HIDE DEF V
<1>16. Right(p, greatest, V)
  BY <1>7, <1>14, <1>15 DEF Right
<1>17. QED
  BY <1>1, <1>16, RightIsJudged

-----------------------------------------------------------------------------
(* The error of a formation. *)

\* A walk over the numbers up to n that keeps the first of the worst fits.
IsWorstWalk(g, n, shown, fit) ==
    /\ g[0] = NotFlown
    /\ \A k \in 1 .. n : g[k] = IF k \in shown THEN Worse(g[k - 1], [fit |-> fit[k], t |-> k])
                                ELSE g[k - 1]
FirstWorst(j, shown, fit) ==
    \A i \in shown : \/ fit[i].error < fit[j].error
                     \/ fit[i].error = fit[j].error /\ j <= i
IsWorst(c, shown, fit) ==
    \/ shown = {} /\ c = NotFlown
    \/ \E j \in shown : c = [fit |-> fit[j], t |-> j] /\ FirstWorst(j, shown, fit)

\* The walk ends at the first of the largest errors.
LEMMA WorstWalk ==
  ASSUME NEW n \in Nat, NEW shown \in SUBSET (1 .. n), NEW fit,
         \A i \in shown : fit[i].error \in Int, NEW g, IsWorstWalk(g, n, shown, fit)
  PROVE  IsWorst(g[n], shown, fit)
<1> DEFINE M(k) == UpTo(shown, k)
           P == {k \in 0 .. n : IsWorst(g[k], M(k), fit)}
<1>1. 0 \in P
  <2>1. M(0) = {} /\ 0 \in 0 .. n
    BY UpToIs
  <2>2. g[0] = NotFlown
    BY DEF IsWorstWalk
  <2>3. IsWorst(g[0], {}, fit)
    BY <2>2 DEF IsWorst
  <2>4. QED
    BY <2>1, <2>3
<1>2. ASSUME NEW k \in 1 .. n, k - 1 \in P PROVE k \in P
  <2>1. IsWorst(g[k - 1], M(k - 1), fit) /\ k \in 0 .. n
    BY <1>2
  <2>2. g[k] = IF k \in shown THEN Worse(g[k - 1], [fit |-> fit[k], t |-> k]) ELSE g[k - 1]
    BY DEF IsWorstWalk
  <2>3. CASE k \notin shown
    <3>1. M(k) = M(k - 1)
      BY <2>3, UpToSkips
    <3>2. IsWorst(g[k], M(k), fit)
      BY <2>1, <2>2, <2>3, <3>1, Zenon
    <3>3. QED
      BY <2>1, <3>2
  <2>4. CASE k \in shown
    <3> DEFINE x == [fit |-> fit[k], t |-> k]
    <3>1. M(k) = M(k - 1) \cup {k} /\ M(k - 1) \subseteq shown
      <4>1. M(k) = M(k - 1) \cup {k}
        BY <2>4, UpToTakes
      <4>2. QED
        BY <4>1 DEF UpTo
    <3> HIDE DEF M
    <3>2. x.fit = fit[k] /\ fit[k].error \in Int
      BY <2>4
    <3>3. g[k] = IF g[k - 1] = NotFlown \/ x.fit.error > g[k - 1].fit.error THEN x ELSE g[k - 1]
      BY <2>2, <2>4 DEF Worse
    <3>4. CASE M(k - 1) = {}
      <4>1. g[k - 1] = NotFlown
        BY <2>1, <3>4 DEF IsWorst
      <4>2. g[k] = [fit |-> fit[k], t |-> k] /\ M(k) = {k}
        BY <3>1, <3>3, <3>4, <4>1
      <4> HIDE DEF x
      <4>3. IsWorst(g[k], M(k), fit)
        BY <3>2, <4>2 DEF IsWorst, FirstWorst
      <4>4. QED
        BY <2>1, <4>3
    <3>5. CASE M(k - 1) # {}
      <4>1. PICK j \in M(k - 1) : g[k - 1] = [fit |-> fit[j], t |-> j] /\ FirstWorst(j, M(k - 1), fit)
        BY <2>1, <3>5 DEF IsWorst
      <4>2. j \in shown /\ j \in 1 .. n /\ fit[j].error \in Int
        BY <3>1
      <4>3. g[k - 1] # NotFlown /\ g[k - 1].fit = fit[j]
        <5>1. g[k - 1].t = j /\ NotFlown.t = -1 /\ g[k - 1].fit = fit[j]
          BY <4>1 DEF NotFlown, Unmeasured
        <5>2. QED
          BY <4>2, <5>1
      <4>4. CASE fit[k].error > fit[j].error
        <5>1. g[k] = [fit |-> fit[k], t |-> k]
          BY <3>2, <3>3, <4>3, <4>4
        <5>2. ASSUME NEW i \in M(k)
              PROVE  fit[i].error < fit[k].error \/ (fit[i].error = fit[k].error /\ k <= i)
          <6>1. CASE i = k
            BY <3>2, <6>1
          <6>2. CASE i \in M(k - 1)
            <7>1. fit[i].error \in Int /\ fit[i].error <= fit[j].error
              BY <3>1, <4>1, <4>2, <6>2 DEF FirstWorst
            <7> HIDE DEF x
            <7>2. QED
              BY <3>2, <4>2, <4>4, <7>1
          <6>3. QED
            BY <3>1, <6>1, <6>2
        <5> HIDE DEF x
        <5>3. IsWorst(g[k], M(k), fit)
          BY <3>1, <5>1, <5>2 DEF IsWorst, FirstWorst
        <5>4. QED
          BY <2>1, <5>3
      <4>5. CASE ~(fit[k].error > fit[j].error)
        <5>1. g[k] = [fit |-> fit[j], t |-> j]
          BY <3>2, <3>3, <4>1, <4>3, <4>5
        <5>2. ASSUME NEW i \in M(k)
              PROVE  fit[i].error < fit[j].error \/ (fit[i].error = fit[j].error /\ j <= i)
          <6>1. CASE i = k
            <7>1. j <= k
              BY DEF M, UpTo
            <7> HIDE DEF x
            <7>2. QED
              BY <3>2, <4>2, <4>5, <6>1, <7>1
          <6>2. CASE i \in M(k - 1)
            BY <4>1, <6>2 DEF FirstWorst
          <6>3. QED
            BY <3>1, <6>1, <6>2
        <5> HIDE DEF x
        <5>3. IsWorst(g[k], M(k), fit)
          BY <3>1, <5>1, <5>2 DEF IsWorst, FirstWorst
        <5>4. QED
          BY <2>1, <5>3
      <4>6. QED
        BY <4>4, <4>5
    <3>6. QED
      BY <3>4, <3>5
  <2>5. QED
    BY <2>3, <2>4
<1>3. n \in P
  <2> HIDE DEF P
  <2>1. \A k \in 0 .. n : k \in P
    BY <1>1, <1>2, InductionUpTo
  <2>2. QED
    BY <2>1
<1>4. M(n) = shown
  BY UpToIs
<1>5. QED
  BY <1>3, <1>4

\* What formation was asked for.
LEMMA FormationIs ==
  ASSUME VerdictInv, FormationMissions # {}
  PROVE  Formation.count \in Nat \ {0} /\ Formation.spacing \in Int
<1> DEFINE n == Len(study.missions)
           m == Max(FormationMissions)
<1>1. /\ study.missions \in Seq(ToSet(study.missions))
      /\ \A x \in ToSet(study.missions) : {x.at_s, x.spacing} \subseteq Int /\ x.count \in Nat \ {0}
  BY Sampled DEF IsStudy
<1>2. n \in Nat /\ DOMAIN study.missions = 1 .. n
  BY <1>1, LenProperties
<1>3. FormationMissions \in SUBSET (0 .. n)
  BY <1>2 DEF FormationMissions
<1> HIDE DEF n
<1>4. m \in FormationMissions
  BY <1>2, <1>3, GreatestIs
<1> HIDE DEF m
<1>5. m \in DOMAIN study.missions /\ Formation = study.missions[m]
  BY <1>4 DEF FormationMissions, Formation, m
<1>6. Formation \in ToSet(study.missions)
  BY <1>5 DEF ToSet
<1>7. QED
  BY <1>1, <1>6

\* The slots of a shape are points, one for every follower.
LEMMA ShapesAre ==
  ASSUME NEW count \in Nat, NEW spacing \in Int, NEW shape
  PROVE  /\ DOMAIN FORMATIONS(shape, count, spacing) = 1 .. count
         /\ \A i \in 1 .. count : IsPoint(FORMATIONS(shape, count, spacing)[i])
<1>1. \A x, y \in Int : x * y \in Int /\ -x * y \in Int
  OBVIOUS
<1>2. DOMAIN line_formation(count, spacing) = 1 .. count
      /\ \A i \in 1 .. count : IsPoint(line_formation(count, spacing)[i])
  <2>1. DOMAIN line_formation(count, spacing) = 1 .. count
    BY DEF line_formation
  <2>2. ASSUME NEW i \in 1 .. count PROVE IsPoint(line_formation(count, spacing)[i])
    <3> DEFINE back == -spacing * i
    <3>1. back \in Int
      BY <1>1
    <3>2. line_formation(count, spacing)[i] = <<back, 0, 0>>
      BY DEF line_formation
    <3> HIDE DEF back
    <3>3. QED
      BY <3>1, <3>2 DEF IsPoint
  <2>3. QED
    BY <2>1, <2>2
<1>3. DOMAIN v_formation(count, spacing) = 1 .. count
      /\ \A i \in 1 .. count : IsPoint(v_formation(count, spacing)[i])
  <2>1. DOMAIN v_formation(count, spacing) = 1 .. count
    BY DEF v_formation
  <2>2. ASSUME NEW i \in 1 .. count PROVE IsPoint(v_formation(count, spacing)[i])
    <3> DEFINE rank == (i + 1) \div 2
               side == IF i % 2 = 1 THEN 1 ELSE -1
               back == -spacing * rank
               along == side * spacing * rank
    <3>1. v_formation(count, spacing)[i] = <<back, along, 0>>
      BY DEF v_formation
    <3>2. rank \in Int /\ side \in Int
      OBVIOUS
    <3> HIDE DEF rank, side
    <3>3. back \in Int /\ side * spacing \in Int
      BY <1>1, <3>2
    <3>4. along \in Int
      BY <1>1, <3>2, <3>3
    <3> HIDE DEF back, along
    <3>5. QED
      BY <3>1, <3>3, <3>4 DEF IsPoint
  <2>3. QED
    BY <2>1, <2>2
<1>4. QED
  BY <1>2, <1>3 DEF FORMATIONS

\* A fit of the drones of a frame with the errors of a choice of an apex and of
\* slots that suits the formation best.
IsShapeFit(fit, p, f) ==
    \E apex \in Apexes(p, f) : \E slot \in SlotChoices(f, apex) :
        /\ fit.leader = apex
        /\ ShapeError(p, f) = Max({0} \cup SlotErrors(f, apex, slot))
        /\ fit.errors = [d \in DOMAIN slot |-> SlotError(f, apex, slot, d)]

\* The error reported for a frame that shows the formation is that of the closest fit.
LEMMA FitErrorIs ==
  ASSUME VerdictInv, FormationMissions # {}, NEW p, NEW f \in Showing(p)
  PROVE  /\ Fit(p, f).error = ShapeError(p, f) /\ ShapeError(p, f) \in Int
         /\ IsShapeFit(Fit(p, f), p, f)
<1> DEFINE D == Flying(f)
           positions == [d \in D |-> Of(f, d).position]
           offsets == SlotOffsets
           n == Formation.count - 1
           leader == p.leader
           fit == fit_formation(positions, offsets, leader)
           errors == UNION {WorstGaps(positions, offsets, apex) : apex \in Apices(positions, leader)}
<1>1. Formation.count \in Nat \ {0} /\ Formation.spacing \in Int /\ n \in Nat /\ n + 1 = Formation.count
  BY FormationIs
<1>2. f \in ToSet(frames) /\ Cardinality(D) = Formation.count /\ leader \in D \cup {Nobody}
  BY DEF Showing, InTime
<1>3. D \subseteq Fleet /\ Fleet \subseteq Int /\ IsFiniteSet(D)
  <2> DEFINE k == study.drones
  <2>1. k \in Nat
    BY Sampled DEF IsStudy
  <2>2. Fleet = 1 .. k
    BY DEF Fleet
  <2> HIDE DEF k
  <2>3. IsFiniteSet(1 .. k) /\ Cardinality(1 .. k) = k
    BY <2>1, FS_Interval
  <2>4. D \subseteq Fleet
    BY DEF Flying, Airborne
  <2> HIDE DEF D
  <2>5. IsFiniteSet(D)
    BY <2>2, <2>3, <2>4, FS_Subset
  <2>6. QED
    BY <2>1, <2>2, <2>4, <2>5
<1>4. \A d \in D : IsPoint(Of(f, d).position)
  BY <1>2, <1>3, Sampled, SampleIs
<1>5. DOMAIN offsets = 1 .. n /\ \A i \in 1 .. n : IsPoint(offsets[i])
  BY <1>1, ShapesAre DEF SlotOffsets
<1>6. Fit(p, f) = fit_formation(positions, offsets, leader)
  BY DEF Fit
<1>7. ShapeErrors(p, f) = UNION {{Max({0} \cup SlotErrors(f, apex, slot)) : slot \in SlotChoices(f, apex)} :
                                    apex \in Apexes(p, f)}
      /\ ShapeError(p, f) = Min(ShapeErrors(p, f))
  BY DEF ShapeErrors, ShapeError
<1>8. Apexes(p, f) = IF leader = Nobody THEN D ELSE {leader}
  BY DEF Apexes
<1>9. \A apex : SlotChoices(f, apex) = Bijection(D \ {apex}, DOMAIN offsets)
  BY DEF SlotChoices
<1> HIDE DEF D, offsets, n, leader
<1>10. DOMAIN positions = D /\ \A d \in D : positions[d] = Of(f, d).position
  OBVIOUS
<1> HIDE DEF positions
<1>11. IsFormed(positions, offsets, n)
  BY <1>1, <1>2, <1>3, <1>4, <1>5, <1>10 DEF IsFormed
<1>12. /\ fit.error \in errors /\ fit.error \in Int
       /\ \A x \in errors : x \in Int /\ fit.error <= x
       /\ \E apex \in Apices(positions, leader) : IsFitBehind(fit, positions, offsets, apex)
  BY <1>1, <1>2, <1>10, <1>11, FitIsClosest
<1>13. ASSUME NEW apex \in D, NEW slot \in Bijection(D \ {apex}, DOMAIN offsets)
       PROVE  /\ Max({0} \cup SlotErrors(f, apex, slot)) = WorstGap(positions, offsets, apex, slot)
              /\ DOMAIN slot = D \ {apex}
              /\ \A d \in DOMAIN slot :
                    SlotError(f, apex, slot, d) = SlotGap(positions, offsets, apex, slot, d)
  <2>1. DOMAIN slot = D \ {apex}
    BY DEF Bijection, Injection
  <2>2. \A d \in DOMAIN slot : SlotError(f, apex, slot, d) = SlotGap(positions, offsets, apex, slot, d)
    BY <1>10, <2>1 DEF SlotError, SlotGap, offsets
  <2>3. SlotErrors(f, apex, slot) = {SlotGap(positions, offsets, apex, slot, d) : d \in DOMAIN slot}
    BY <2>2 DEF SlotErrors
  <2>4. QED
    BY <2>1, <2>2, <2>3 DEF WorstGap
<1>14. \A apex \in D : {Max({0} \cup SlotErrors(f, apex, slot)) : slot \in SlotChoices(f, apex)} =
                          WorstGaps(positions, offsets, apex)
  <2> SUFFICES ASSUME NEW apex \in D
               PROVE  {Max({0} \cup SlotErrors(f, apex, slot)) : slot \in SlotChoices(f, apex)} =
                         WorstGaps(positions, offsets, apex)
    OBVIOUS
  <2> DEFINE B == Bijection(D \ {apex}, DOMAIN offsets)
  <2>1. SlotChoices(f, apex) = B
    BY <1>9
  <2>2. WorstGaps(positions, offsets, apex) = {WorstGap(positions, offsets, apex, slot) : slot \in B}
    BY <1>10 DEF WorstGaps
  <2>3. \A slot \in B : Max({0} \cup SlotErrors(f, apex, slot)) = WorstGap(positions, offsets, apex, slot)
    BY <1>13
  <2> HIDE DEF B
  <2>4. QED
    BY <2>1, <2>2, <2>3
<1>15. Apices(positions, leader) = Apexes(p, f) /\ Apexes(p, f) \subseteq D
  BY <1>2, <1>8, <1>10 DEF Apices
<1>16. ShapeErrors(p, f) = errors
  BY <1>7, <1>14, <1>15
<1> HIDE DEF errors, fit
<1>17. Min(errors) = fit.error
  BY <1>12, MinIs
<1>18. Fit(p, f) = fit /\ ShapeError(p, f) = fit.error
  BY <1>6, <1>7, <1>16, <1>17 DEF fit
<1>19. PICK apex \in Apexes(p, f) : IsFitBehind(fit, positions, offsets, apex)
  BY <1>12, <1>15
<1>20. PICK slot \in Bijection(D \ {apex}, DOMAIN offsets) :
          /\ fit.error = WorstGap(positions, offsets, apex, slot)
          /\ fit.errors = [d \in D \ {apex} |-> SlotGap(positions, offsets, apex, slot, d)]
  BY <1>10, <1>19 DEF IsFitBehind
<1>21. /\ Max({0} \cup SlotErrors(f, apex, slot)) = WorstGap(positions, offsets, apex, slot)
       /\ DOMAIN slot = D \ {apex}
       /\ \A d \in DOMAIN slot :
             SlotError(f, apex, slot, d) = SlotGap(positions, offsets, apex, slot, d)
  BY <1>13, <1>15
<1>22. fit.errors = [d \in DOMAIN slot |-> SlotError(f, apex, slot, d)]
  BY <1>20, <1>21
<1>23. slot \in SlotChoices(f, apex) /\ fit.leader = apex
  BY <1>9, <1>19 DEF IsFitBehind
<1>24. IsShapeFit(fit, p, f)
  <2>1. SUFFICES \E x \in Apexes(p, f) : \E y \in SlotChoices(f, x) :
                    /\ fit.leader = x
                    /\ ShapeError(p, f) = Max({0} \cup SlotErrors(f, x, y))
                    /\ fit.errors = [d \in DOMAIN y |-> SlotError(f, x, y, d)]
    BY DEF IsShapeFit
  <2>2. WITNESS apex \in Apexes(p, f)
  <2>3. slot \in SlotChoices(f, apex)
    BY <1>23
  <2>4. WITNESS slot \in SlotChoices(f, apex)
  <2>5. QED
    BY <1>18, <1>20, <1>21, <1>22, <1>23
<1>25. QED
  BY <1>12, <1>18, <1>24

\* Of these frames, f is the first with the largest error.
IsWorstShape(p, f) == \A g \in Showing(p) :
    \/ ShapeError(p, g) < ShapeError(p, f)
    \/ ShapeError(p, g) = ShapeError(p, f) /\ f.t <= g.t

\* The walk over the frames keeps the worst of those that show the formation.
LEMMA WorstFitIs ==
  ASSUME VerdictInv, FormationMissions # {}, NEW p
  PROVE  \/ Showing(p) = {} /\ WorstFit(p) = NotFlown
         \/ \E f \in Showing(p) : /\ WorstFit(p) # NotFlown
                                  /\ WorstFit(p).fit = Fit(p, f) /\ WorstFit(p).t = f.t
                                  /\ IsWorstShape(p, f)
<1> DEFINE shown == {i \in 1 .. N : frames[i] \in Showing(p)}
           fit == [i \in 1 .. N |-> Fit(p, frames[i])]
           X == {NotFlown} \cup {[fit |-> fit[i], t |-> i] : i \in 1 .. N}
           Kept(c, k) == IF k \in shown THEN Worse(c, [fit |-> fit[k], t |-> k]) ELSE c
           step == [k \in 1 .. N |-> [c \in X |-> Kept(c, k)]]
           base == NotFlown
           Walk(f) == [i \in 0 .. N |->
                          IF i = 0 THEN NotFlown
                          ELSE IF InWindow(p, frames[i]) /\ Complete(frames[i], p.leader)
                          THEN Worse(f[i - 1], [fit |-> Fit(p, frames[i]), t |-> frames[i].t])
                          ELSE f[i - 1]]
<1>1. N \in Nat /\ shown \in SUBSET (1 .. N)
  BY Recorded
<1>2. ASSUME NEW f, NEW k \in 1 .. N
      PROVE  (IF InWindow(p, frames[k]) /\ Complete(frames[k], p.leader)
              THEN Worse(f[k - 1], [fit |-> Fit(p, frames[k]), t |-> frames[k].t])
              ELSE f[k - 1]) = Kept(f[k - 1], k)
  <2>1. frames[k].t = k /\ frames[k] \in ToSet(frames) /\ fit[k] = Fit(p, frames[k])
    BY Recorded
  <2>2. k \in shown <=> InWindow(p, frames[k]) /\ Complete(frames[k], p.leader)
    BY <2>1 DEF Showing, InTime, Complete
  <2> HIDE DEF shown, fit
  <2>3. QED
    BY <2>1, <2>2
<1>3. \A i \in shown : fit[i].error = ShapeError(p, frames[i]) /\ fit[i].error \in Int
  BY FitErrorIs
<1>4. \A f \in Showing(p) : \E i \in shown : frames[i] = f
  <2>1. \A f \in ToSet(frames) : f.t \in 1 .. N /\ frames[f.t] = f
    BY Recorded
  <2>2. Showing(p) \subseteq ToSet(frames)
    BY DEF Showing, InTime
  <2>3. QED
    BY <2>1, <2>2
<1>5. \A i \in shown : frames[i] \in Showing(p) /\ frames[i].t = i /\ fit[i] = Fit(p, frames[i])
  BY Recorded
<1> HIDE DEF shown, fit
<1>6. ASSUME NEW k \in 1 .. N, NEW c \in X PROVE Kept(c, k) \in X
  BY DEF Worse
<1>7. step \in Steps(N, X)
  BY <1>6 DEF Steps
<1>8. \A k \in 1 .. N, c \in X : step[k][c] = Kept(c, k)
  OBVIOUS
<1>9. base \in X
  OBVIOUS
<1> HIDE DEF step, X, Kept, base
<1>10. PICK f : f \in Iterations(N, X, base, step)
  BY <1>1, <1>7, <1>9, RecursionUpTo
<1>11. f \in [0 .. N -> X] /\ f[0] = base /\ \A k \in 1 .. N : f[k] = Kept(f[k - 1], k)
  <2>1. f \in [0 .. N -> X] /\ f[0] = base /\ \A k \in 1 .. N : f[k] = step[k][f[k - 1]]
    BY <1>10 DEF Iterations
  <2>2. ASSUME NEW k \in 1 .. N PROVE f[k] = Kept(f[k - 1], k)
    <3>1. k - 1 \in 0 .. N /\ N \in Nat
      BY <1>1
    <3>2. QED
      BY <1>8, <2>1, <3>1
  <2>3. QED
    BY <2>1, <2>2
<1>12. f = Walk(f)
  <2>1. \A i \in 0 .. N : i = 0 \/ i \in 1 .. N
    BY <1>1
  <2>2. \A i \in 0 .. N : f[i] = IF i = 0 THEN NotFlown
                          ELSE IF InWindow(p, frames[i]) /\ Complete(frames[i], p.leader)
                          THEN Worse(f[i - 1], [fit |-> Fit(p, frames[i]), t |-> frames[i].t])
                          ELSE f[i - 1]
    BY <1>2, <1>11, <2>1, Zenon DEF base
  <2>3. QED
    BY <1>11, <2>2
<1> DEFINE g == CHOOSE h : h = Walk(h)
<1>13. g = Walk(g)
  BY <1>12
<1>14. WorstFit(p) = g[N]
  BY Zenon DEF WorstFit, g, N
<1> HIDE DEF g
<1>15. g[0] = NotFlown /\ \A k \in 1 .. N : g[k] = Kept(g[k - 1], k)
  <2>1. \A i \in 0 .. N : g[i] = Walk(g)[i]
    BY <1>13
  <2>2. 0 \in 0 .. N /\ \A i \in 1 .. N : i \in 0 .. N /\ i # 0
    BY <1>1
  <2>3. QED
    BY <1>2, <2>1, <2>2
<1>16. IsWorstWalk(g, N, shown, fit)
  BY <1>15 DEF IsWorstWalk, Kept
<1>17. IsWorst(WorstFit(p), shown, fit)
  BY <1>1, <1>3, <1>14, <1>16, WorstWalk
<1>18. CASE shown = {}
  BY <1>4, <1>17, <1>18 DEF IsWorst
<1>19. CASE shown # {}
  <2>1. PICK j \in shown : WorstFit(p) = [fit |-> fit[j], t |-> j] /\ FirstWorst(j, shown, fit)
    BY <1>17, <1>19 DEF IsWorst
  <2>2. WorstFit(p).t = j /\ j \in 1 .. N /\ NotFlown.t = -1 /\ WorstFit(p).fit = fit[j]
    BY <1>1, <2>1 DEF NotFlown, Unmeasured
  <2>3. WorstFit(p) # NotFlown
    BY <2>2
  <2>4. WorstFit(p).fit = Fit(p, frames[j]) /\ WorstFit(p).t = frames[j].t
    BY <1>5, <2>2
  <2>5. ASSUME NEW h \in Showing(p)
        PROVE  \/ ShapeError(p, h) < ShapeError(p, frames[j])
               \/ ShapeError(p, h) = ShapeError(p, frames[j]) /\ frames[j].t <= h.t
    <3>1. PICK i \in shown : frames[i] = h
      BY <1>4
    <3>2. fit[i].error < fit[j].error \/ (fit[i].error = fit[j].error /\ j <= i)
      BY <2>1 DEF FirstWorst
    <3>3. frames[j].t = j /\ h.t = i
      BY <1>5, <3>1
    <3>4. QED
      BY <1>3, <3>1, <3>2, <3>3
  <2>6. QED
    BY <1>5, <2>3, <2>4, <2>5 DEF IsWorstShape
<1>20. QED
  BY <1>18, <1>19

\* There is one such frame only.
LEMMA TheWorstShape ==
  ASSUME VerdictInv, FormationMissions # {}, NEW p, NEW f \in Showing(p), IsWorstShape(p, f)
  PROVE  f = WorstShape(p)
<1>1. \A g \in Showing(p) : g.t \in 1 .. N /\ frames[g.t] = g /\ ShapeError(p, g) \in Int
  BY Recorded, FitErrorIs DEF Showing, InTime
<1>2. ASSUME NEW g \in Showing(p), IsWorstShape(p, g) PROVE g = f
  <2>1. /\ ShapeError(p, g) < ShapeError(p, f) \/ (ShapeError(p, g) = ShapeError(p, f) /\ f.t <= g.t)
        /\ ShapeError(p, f) < ShapeError(p, g) \/ (ShapeError(p, f) = ShapeError(p, g) /\ g.t <= f.t)
    BY <1>2 DEF IsWorstShape
  <2>2. f.t \in Int /\ g.t \in Int /\ ShapeError(p, f) \in Int /\ ShapeError(p, g) \in Int
    BY <1>1
  <2>3. f.t = g.t
    BY <2>1, <2>2
  <2>4. QED
    BY <1>1, <2>3
<1>3. WorstShape(p) = CHOOSE g \in Showing(p) : IsWorstShape(p, g)
  BY DEF WorstShape, IsWorstShape
<1>4. QED
  BY <1>2, <1>3

\* A follower named in a violation is one that is furthest from its slot.
LEMMA FurthestIsMisfit ==
  ASSUME VerdictInv, FormationMissions # {}, NEW p, NEW f \in Showing(p), ShapeError(p, f) > 0
  PROVE  Misfit(p, f, {FurthestOff(Fit(p, f).errors), Fit(p, f).leader})
<1> DEFINE errors == Fit(p, f).errors
           e == ShapeError(p, f)
           furthest == FurthestOff(errors)
<1>1. IsShapeFit(Fit(p, f), p, f)
  BY FitErrorIs
<1>2. PICK apex \in Apexes(p, f) : \E slot \in SlotChoices(f, apex) :
         /\ Fit(p, f).leader = apex
         /\ e = Max({0} \cup SlotErrors(f, apex, slot))
         /\ errors = [d \in DOMAIN slot |-> SlotError(f, apex, slot, d)]
  BY <1>1 DEF IsShapeFit
<1>3. PICK slot \in SlotChoices(f, apex) :
         /\ Fit(p, f).leader = apex
         /\ e = Max({0} \cup SlotErrors(f, apex, slot))
         /\ errors = [d \in DOMAIN slot |-> SlotError(f, apex, slot, d)]
  BY <1>2
<1>4. e \in Int
  BY FitErrorIs
<1> DEFINE D == DOMAIN slot
           T == {d \in D : \A c \in D : errors[c] <= errors[d]}
<1>5. D \subseteq Flying(f) /\ Flying(f) \subseteq Fleet /\ \A d \in Flying(f) : IsPoint(Of(f, d).position)
  <2>1. D \subseteq Flying(f)
    BY DEF SlotChoices, Bijection, Injection
  <2>2. Flying(f) \subseteq Fleet
    BY DEF Flying, Airborne
  <2>3. f \in ToSet(frames)
    BY DEF Showing, InTime
  <2>4. QED
    BY <2>1, <2>2, <2>3, Sampled, SampleIs
<1>6. Fleet \subseteq Int /\ IsFiniteSet(Fleet)
  <2> DEFINE k == study.drones
  <2>1. k \in Nat /\ Fleet = 1 .. k
    BY Sampled DEF IsStudy, Fleet
  <2> HIDE DEF k
  <2>2. QED
    BY <2>1, FS_Interval
<1>7. \A d \in D : errors[d] = SlotError(f, apex, slot, d) /\ errors[d] \in Int
  <2>1. Formation.count - 1 \in Nat /\ Formation.spacing \in Int
    BY FormationIs
  <2>2. \A i \in DOMAIN SlotOffsets : IsPoint(SlotOffsets[i])
    BY <2>1, ShapesAre DEF SlotOffsets
  <2>3. apex \in Flying(f)
    BY DEF Apexes, Showing
  <2>4. \A d \in D : slot[d] \in DOMAIN SlotOffsets
    BY DEF SlotChoices, Bijection, Injection
  <2>5. QED
    BY <1>3, <1>5, <2>2, <2>3, <2>4, ApartIs, PlusIs DEF SlotError
<1>8. DOMAIN errors = D /\ SlotErrors(f, apex, slot) = {errors[d] : d \in D}
  BY <1>3, <1>7 DEF SlotErrors
<1> HIDE DEF errors, e, D
<1>9. IsFiniteSet({errors[d] : d \in D}) /\ IsFiniteSet(D)
  BY <1>5, <1>6, FS_Subset, FiniteImage
<1>10. PICK d \in D : errors[d] = e /\ \A c \in D : errors[c] <= errors[d]
  <2> DEFINE S == {0} \cup {errors[d] : d \in D}
  <2>1. S \subseteq Int /\ S # {}
    BY <1>7
  <2>2. IsFiniteSet(S)
    BY <1>9, FS_AddElement
  <2>3. e = Max(S)
    BY <1>3, <1>8
  <2>4. e \in S /\ \A x \in S : x <= e
    BY <2>1, <2>2, <2>3, Extremes
  <2>5. e # 0
    BY <1>4 DEF e
  <2>6. QED
    BY <2>4, <2>5
<1>11. furthest = Min(T)
  BY <1>8 DEF FurthestOff
<1>12. T \subseteq Int /\ IsFiniteSet(T) /\ T # {}
  BY <1>5, <1>6, <1>9, <1>10, FS_Subset
<1> HIDE DEF furthest
<1>13. furthest \in T
  <2> HIDE DEF T
  <2>1. QED
    BY <1>11, <1>12, Extremes
<1>14. furthest \in D /\ errors[furthest] = e
  BY <1>7, <1>10, <1>13
<1>15. QED
  <2>1. SUFFICES \E x \in Apexes(p, f) : \E y \in SlotChoices(f, x) : \E z \in DOMAIN y :
                    /\ {furthest, Fit(p, f).leader} = {z, x}
                    /\ ShapeError(p, f) = Max({0} \cup SlotErrors(f, x, y))
                    /\ ShapeError(p, f) = SlotError(f, x, y, z)
    BY DEF Misfit, furthest, errors
  <2>2. WITNESS apex \in Apexes(p, f)
  <2>3. WITNESS slot \in SlotChoices(f, apex)
  <2>4. furthest \in DOMAIN slot
    BY <1>14 DEF D
  <2>5. WITNESS furthest \in DOMAIN slot
  <2>6. QED
    BY <1>3, <1>7, <1>14 DEF e

\* formation_error keeps the worst of the closest fits.
LEMMA FormationErrorIsJudged ==
  ASSUME VerdictInv, study.kind = "formation_error", NEW p, p = study.params
  PROVE  Judged(p)
<1> DEFINE none == NotMeasured({}, Unmeasured)
           worst == WorstFit(p)
           limit == Square(p.max_m)
           V == IF worst.fit.error > limit
                THEN {Violation({FurthestOff(worst.fit.errors), worst.fit.leader}, worst.t,
                                worst.fit.error)} ELSE {}
           S == {ShapeError(p, f) : f \in Showing(p)}
           IsBreach(v) == /\ v = Violation(v.drones, WorstShape(p).t, Measure(p))
                          /\ Misfit(p, WorstShape(p), v.drones)
<1>1. evaluate = IF FormationMissions = {} \/ worst = NotFlown THEN Outcome(Unmeasured, none)
                 ELSE Outcome(worst.fit.error, V)
  BY DEF evaluate, formation_error, FitOutcome
<1>2. /\ Claim(p) <=> /\ FormationMissions # {} /\ Showing(p) # {}
                      /\ \A f \in Showing(p) : ShapeError(p, f) <= limit
      /\ Measure(p) = Max(S)
      /\ Breaches(p) = {v \in evaluate.violations : IsBreach(v)}
  BY DEF Claim, Measure, Breaches
<1>3. limit \in Int /\ 0 <= limit
  <2>1. IsAssertion(study.kind, study.params, study.drones)
    BY Sampled DEF IsStudy
  <2>2. {p.max_m, p.from_s, p.to_s} \subseteq Int
    BY <2>1 DEF IsAssertion
  <2>3. QED
    BY <2>2, SquareIs
<1>4. none # {} /\ \A v \in none : v.measured = Unmeasured
  BY DEF NotMeasured, Violation
<1>5. FormationMissions # {} => \A f \in Showing(p) : ShapeError(p, f) \in Int
  BY FitErrorIs
<1>6. /\ V = {} <=> ~(worst.fit.error > limit)
      /\ \A v \in V : v = Violation({FurthestOff(worst.fit.errors), worst.fit.leader}, worst.t,
                                    worst.fit.error)
  OBVIOUS
<1> HIDE DEF none, worst, limit, V, IsBreach
<1>7. CASE FormationMissions = {} \/ Showing(p) = {}
  <2>1. FormationMissions = {} \/ worst = NotFlown
    BY <1>7, WorstFitIs DEF worst
  <2>2. evaluate = Outcome(Unmeasured, none) /\ ~Claim(p)
    BY <1>1, <1>2, <1>7, <2>1
  <2>3. Right(p, Unmeasured, none)
    BY <1>4, <2>2 DEF Right
  <2>4. QED
    BY <2>2, <2>3, RightIsJudged
<1>8. CASE FormationMissions # {} /\ Showing(p) # {}
  <2>1. PICK f \in Showing(p) : /\ worst # NotFlown
                                /\ worst.fit = Fit(p, f) /\ worst.t = f.t
                                /\ IsWorstShape(p, f)
    BY <1>8, WorstFitIs DEF worst
  <2> DEFINE e == ShapeError(p, f)
  <2>2. Fit(p, f).error = ShapeError(p, f)
    BY <1>8, FitErrorIs
  <2>3. evaluate = Outcome(e, V) /\ (V = {} <=> ~(e > limit))
    BY <1>1, <1>6, <1>8, <2>1, <2>2
  <2>4. \A g \in Showing(p) : ShapeError(p, g) \in Int /\ ShapeError(p, g) <= e
    BY <1>5, <1>8, <2>1 DEF IsWorstShape
  <2>5. Max(S) = e
    <3>1. S \subseteq Int /\ e \in S /\ \A x \in S : x <= e
      BY <2>1, <2>4
    <3> HIDE DEF S, e
    <3>2. QED
      BY <3>1, MaxIs
  <2>6. e \in Int /\ \A g \in Showing(p) : ShapeError(p, g) \in Int /\ ShapeError(p, g) <= e
    BY <2>1, <2>4
  <2>7. e = ShapeError(p, f)
    OBVIOUS
  <2> HIDE DEF e
  <2>8. Claim(p) <=> ~(e > limit)
    <3>1. ASSUME ~(e > limit), NEW g \in Showing(p) PROVE ShapeError(p, g) <= limit
      BY <1>3, <2>6, <3>1
    <3>2. ASSUME e > limit PROVE ~(e <= limit)
      BY <1>3, <2>6, <3>2
    <3>3. Claim(p) <=> \A g \in Showing(p) : ShapeError(p, g) <= limit
      BY <1>2, <1>8
    <3>4. QED
      BY <2>7, <3>1, <3>2, <3>3
  <2>9. evaluate.violations = V
    BY <2>3, OutcomeIs
  <2>10. ASSUME NEW v \in V PROVE IsBreach(v)
    <3>1. Measure(p) = e /\ f = WorstShape(p)
      BY <1>2, <1>8, <2>1, <2>5, TheWorstShape
    <3>2. e > limit /\ e > 0
      BY <1>3, <2>3, <2>6
    <3>3. v = Violation({FurthestOff(Fit(p, f).errors), Fit(p, f).leader}, f.t, e)
      BY <1>6, <2>1, <2>7, <2>2
    <3>4. Misfit(p, f, {FurthestOff(Fit(p, f).errors), Fit(p, f).leader})
      BY <1>8, <2>7, <3>2, FurthestIsMisfit
    <3>5. v.drones = {FurthestOff(Fit(p, f).errors), Fit(p, f).leader}
      BY <3>3 DEF Violation
    <3>6. QED
      BY <3>1, <3>3, <3>4, <3>5 DEF IsBreach
  <2>11. Breaches(p) = V
    BY <1>2, <2>9, <2>10
  <2>12. Right(p, e, V)
    BY <1>2, <2>3, <2>5, <2>8, <2>11 DEF Right
  <2>13. QED
    BY <2>3, <2>12, RightIsJudged
<1>9. QED
  BY <1>7, <1>8

-----------------------------------------------------------------------------
(* Every verdict. *)

\* An assertion is one of the nine.
LEMMA NineKinds ==
  ASSUME VerdictInv
  PROVE  study.kind \in {"min_separation", "mission_completes", "all_landed",
                         "no_task_below_battery", "reaches", "final_position",
                         "formation_error", "travel_after", "never_mode"}
<1>1. IsAssertion(study.kind, study.params, study.drones)
  BY Sampled DEF IsStudy
<1>2. QED
  BY <1>1 DEF IsAssertion

\* Whatever the assertion, the verdict on it is what it should be.
LEMMA EveryVerdictIsJudged ==
  ASSUME VerdictInv, frames # <<>>
  PROVE  Judged(study.params)
<1>1. PICK p : p = study.params
  OBVIOUS
<1>2. CASE study.kind = "min_separation"
  BY <1>1, <1>2, MinSeparationIsJudged
<1>3. CASE study.kind = "mission_completes"
  BY <1>1, <1>3, MissionCompletesIsJudged
<1>4. CASE study.kind = "all_landed"
  BY <1>1, <1>4, AllLandedIsJudged
<1>5. CASE study.kind = "no_task_below_battery"
  BY <1>1, <1>5, NoTaskBelowBatteryIsJudged
<1>6. CASE study.kind = "reaches"
  BY <1>1, <1>6, ReachesIsJudged
<1>7. CASE study.kind = "final_position"
  BY <1>1, <1>7, FinalPositionIsJudged
<1>8. CASE study.kind = "formation_error"
  BY <1>1, <1>8, FormationErrorIsJudged
<1>9. CASE study.kind = "travel_after"
  BY <1>1, <1>9, TravelAfterIsJudged
<1>10. CASE study.kind = "never_mode"
  BY <1>1, <1>10, NeverModeIsJudged
<1>11. QED
  BY <1>2, <1>3, <1>4, <1>5, <1>6, <1>7, <1>8, <1>9, <1>10, NineKinds

\* The frames are those of VerdictInv in every run of the harness.
THEOREM FramesAreRecorded == VerdictSpec => []VerdictInv
BY VerdictInvInitially, VerdictInvKept, PTL DEF VerdictSpec

\* A run passes exactly when what its assertion claims is true of what was recorded
\* (assertions.py), for every scenario and every recording.
THEOREM EveryVerdictIsTrue == VerdictSpec => []VerdictsAreTrue
<1>1. VerdictInv => VerdictsAreTrue
  BY EveryVerdictIsJudged DEF Judged, VerdictsAreTrue
<1>2. QED
  BY <1>1, FramesAreRecorded, PTL

\* The number reported is what the assertion is documented to measure
\* (assertions.py, fit.py), for every scenario and every recording.
THEOREM EveryMeasureIsTrue == VerdictSpec => []MeasuresAreTrue
<1>1. VerdictInv => MeasuresAreTrue
  BY EveryVerdictIsJudged DEF Judged, MeasuresAreTrue
<1>2. QED
  BY <1>1, FramesAreRecorded, PTL

\* Where anything was measured, the violations reported are all the breaches, each
\* once, of the drones concerned and at its time: the pairs that came too close, the
\* drones still up, the low flights, the drones that strayed, the drones away from a
\* place or late, and the worst frame of a formation with the drone furthest from
\* its slot (assertions.py, fit.py), for every scenario and every recording.  When a
\* mode was seen is in MeasuresAreTrue.
THEOREM EveryBreachIsReported == VerdictSpec => []BreachesAreReported
<1>1. VerdictInv => BreachesAreReported
  BY EveryVerdictIsJudged DEF Judged, BreachesAreReported
<1>2. QED
  BY <1>1, FramesAreRecorded, PTL

=============================================================================
