------------------------------ MODULE FormationFit ------------------------------
(***************************************************************************)
(* How closely drones fly a formation: swarm_coordination/scenarios/fit.py, *)
(* with the shapes of formation.py.  The algorithms are the code's, a       *)
(* search for augmenting paths inside a binary search for the threshold.    *)
(*                                                                          *)
(* A position is a triple of integers, and a distance its square: the code *)
(* only compares distances with one another and with limits.                *)
(***************************************************************************)
EXTENDS Integers, SequencesExt

Nobody == 0  \* no drone; drones are numbered from 1 in id order

Plus(p, q) == [i \in 1 .. 3 |-> p[i] + q[i]]
Square(n) == n * n
Apart(p, q) == Square(p[1] - q[1]) + Square(p[2] - q[2]) + Square(p[3] - q[3])
Across(p, q) == Square(p[1] - q[1]) + Square(p[2] - q[2])

line_formation(count, spacing) == [i \in 1 .. count |-> <<-spacing * i, 0, 0>>]

v_formation(count, spacing) ==
    [i \in 1 .. count |->
        LET rank == (i + 1) \div 2
            side == IF i % 2 = 1 THEN 1 ELSE -1
        IN  <<-spacing * rank, side * spacing * rank, 0>>]

FORMATIONS(shape, count, spacing) ==
    IF shape = "line" THEN line_formation(count, spacing) ELSE v_formation(count, spacing)

InOrder(S) == [i \in 1 .. Cardinality(S) |->
                  CHOOSE x \in S : Cardinality({y \in S : y < x}) = i - 1]

-----------------------------------------------------------------------------
(* A matching of rows to columns that uses only allowed pairs. *)

Unheld == 0
NoMatching == <<>>

\* How far a row's search has come: who holds each column, which columns were
\* seen, and whether one was found.
Searches(size) ==
    [row_of : [1 .. size -> 0 .. size], seen : SUBSET (1 .. size), found : BOOLEAN]

\* A row that looks for a column, and from which column on it still has to look.
Attempts(size) == [row : 1 .. size, column : 1 .. size + 1, s : Searches(size)]
Attempt(row, column, s) == [row |-> row, column |-> column, s |-> s]

\* One turn of the loop, "augment" being the search itself: a column held by
\* another row is taken if that row finds another.
TryColumn(allowed, augment, x) ==
    LET s == x.s
        holder == s.row_of[x.column]
        marked == [s EXCEPT !.seen = @ \cup {x.column}]
        freed == IF holder = Unheld THEN [marked EXCEPT !.found = TRUE]
                 ELSE augment[Attempt(holder, 1, marked)]
    IN  IF x.column > Len(allowed) THEN s
        ELSE IF x.column \in s.seen \/ ~allowed[x.row][x.column]
        THEN augment[Attempt(x.row, x.column + 1, s)]
        ELSE IF freed.found THEN [freed EXCEPT !.row_of[x.column] = x.row]
        ELSE augment[Attempt(x.row, x.column + 1, freed)]

Augment(allowed, row, s) ==
    LET augment[x \in Attempts(Len(allowed))] == TryColumn(allowed, augment, x)
    IN  augment[Attempt(row, 1, s)]

\* Mutant of Unseen: columns seen for one row stay seen for the next.
UnseenOnce(s) == [s EXCEPT !.found = FALSE]

\* Every row may look at every column.
Unseen(s) == [s EXCEPT !.seen = {}, !.found = FALSE]

\* The rows are matched one after the other, until one of them cannot be.
MatchNext(allowed, s, row) == IF s.found THEN Augment(allowed, row, Unseen(s)) ELSE s
AllUnheld(size) == [row_of |-> [c \in 1 .. size |-> Unheld], seen |-> {}, found |-> TRUE]
Matched(allowed) ==
    LET upto[row \in 0 .. Len(allowed)] ==
            IF row = 0 THEN AllUnheld(Len(allowed))
            ELSE MatchNext(allowed, upto[row - 1], row)
    IN  upto[Len(allowed)]

\* The column of each row, or NoMatching.
PerfectMatching(allowed) ==
    LET matched == Matched(allowed)
    IN  IF ~matched.found THEN NoMatching
        ELSE [row \in 1 .. Len(allowed) |->
                 CHOOSE c \in 1 .. Len(allowed) : matched.row_of[c] = row]

-----------------------------------------------------------------------------
(* The assignment whose largest cost is smallest. *)

Within(cost, threshold) ==
    [row \in DOMAIN cost |-> [c \in DOMAIN cost[row] |-> cost[row][c] <= threshold]]
Enough(cost, threshold) == PerfectMatching(Within(cost, threshold)) # NoMatching

\* The thresholds still searched, by number.
Ranges(n) == [low : 1 .. n, high : 1 .. n]
Halved(cost, thresholds, search, r) ==
    LET middle == (r.low + r.high) \div 2
    IN  IF r.low >= r.high THEN r.low
        ELSE IF Enough(cost, thresholds[middle]) THEN search[[r EXCEPT !.high = middle]]
        ELSE search[[r EXCEPT !.low = middle + 1]]
LeastEnough(cost, thresholds) ==
    LET search[r \in Ranges(Len(thresholds))] == Halved(cost, thresholds, search, r)
    IN  thresholds[search[[low |-> 1, high |-> Len(thresholds)]]]

Costs(cost) == UNION {{cost[row][c] : c \in DOMAIN cost[row]} : row \in DOMAIN cost}

bottleneck_assignment(cost) ==
    IF cost = <<>> THEN [error |-> 0, assignment |-> <<>>]
    ELSE LET least == LeastEnough(cost, InOrder(Costs(cost)))
         IN  [error |-> least, assignment |-> PerfectMatching(Within(cost, least))]

-----------------------------------------------------------------------------
(* The closest fit: every drone is tried as the apex unless one is given.  A *)
(* tie goes to the first.                                                   *)

CostBehind(positions, offsets, apex, names) ==
    [row \in 1 .. Len(names) |->
        [c \in DOMAIN offsets |->
            Apart(positions[names[row]], Plus(positions[apex], offsets[c]))]]

FitBehind(positions, offsets, apex) ==
    LET names == InOrder(DOMAIN positions \ {apex})
        cost == CostBehind(positions, offsets, apex, names)
        best == bottleneck_assignment(cost)
        RowOf(d) == CHOOSE row \in DOMAIN names : names[row] = d
    IN  [error |-> best.error, leader |-> apex,
         errors |-> [d \in DOMAIN positions \ {apex} |->
                        cost[RowOf(d)][best.assignment[RowOf(d)]]]]

\* The first of the fits with the smallest error.
CloserFit(best, fit) == IF fit.error < best.error THEN fit ELSE best
ClosestFit(fits) ==
    LET closest[i \in 0 .. Len(fits)] ==
            IF i = 0 THEN Head(fits) ELSE CloserFit(closest[i - 1], fits[i])
    IN  closest[Len(fits)]

fit_formation(positions, offsets, leader) ==
    LET apexes == InOrder(IF leader = Nobody THEN DOMAIN positions ELSE {leader})
    IN  ClosestFit([i \in DOMAIN apexes |-> FitBehind(positions, offsets, apexes[i])])
=============================================================================
