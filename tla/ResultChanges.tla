--------------------------- MODULE ResultChanges ---------------------------
(***************************************************************************)
(* CollectionChangeBuilder::calculate (impl/collection_change_builder.cpp) *)
(* and the use ResultsNotifier makes of it (impl/results_notifier.cpp):    *)
(* two results of a query, sequences of row indexes of the same table,     *)
(* are compared.  A row is in a result at most once.                       *)
(***************************************************************************)
EXTENDS ChangeBuilder

\* A row present in both results, as its index in the table, its place in the old
\* result, the same without the deleted rows before it, and its place in the new one.
RowInfo(prev, next, j) ==
    LET row == At(next, j)
        i == CHOOSE k \in Positions(prev) : At(prev, k) = row
    IN [row |-> row, prev |-> i, now |-> j,
        shifted |-> i - Cardinality({k \in 0..(i - 1) : At(prev, k) = NPosIndex})]

\* A move, and the deletion and insertion it is made of
WithMove(c, from, to) ==
    [c EXCEPT !.moves = Append(@, <<from, to>>), !.ins = Add(@, to), !.del = Add(@, from)]

\* One row of calculate_moves_unsorted; x: the expected place, and the change set whose
\* deletions are the rows that no longer match.
UnsortedStep(candidates, x, r) ==
    LET place == r.now - Count(x.c.ins, 0, r.now) + Count(x.c.del, 0, r.prev)
    IN CASE r.shifted = x.expected -> [x EXCEPT !.expected = @ + 1]
         [] r.shifted # x.expected /\ ~Has(candidates, r.row) -> [x EXCEPT !.expected = r.shifted + 1]
         [] r.shifted # x.expected /\ Has(candidates, r.row) /\ r.shifted = place -> [x EXCEPT !.expected = place + 1]
         [] OTHER -> [x EXCEPT !.c = WithMove(x.c, r.prev, r.now)]

\* The modified rows in [from, to); the subtraction of the code that gives `from` wraps.
ModifiedIn(mod, from, to) == IF from < 0 THEN 0 ELSE Count(mod, from, to)

\* The match of some size that ends at i and j, or the best one so far; the modified rows
\* of the best one are npos until they are needed.
BetterMatch(mod, best, i, j, size) ==
    LET known == IF best.modified = NPosIndex THEN ModifiedIn(mod, best.j - size + 1, best.j + 1) ELSE best.modified
        here == ModifiedIn(mod, j - size + 1, j + 1)
        found == [i |-> i - size + 1, j |-> j - size + 1, size |-> size, modified |-> NPosIndex]
    IN CASE size > best.size -> found
         [] size = best.size /\ here < known -> [found EXCEPT !.modified = here]
         [] size = best.size /\ here >= known -> [best EXCEPT !.modified = known]
         [] OTHER -> best

\* Row i of a; x: the best match so far, and for each place of b that has the row of a
\* before this one how long the match is that ends there. The length of the one that
\* ends at j is one more.
MatchLength(prev, j) == IF j - 1 \in DOMAIN prev THEN prev[j - 1] + 1 ELSE 1
MatchRow(a, b, mod, begin2, end2, x, i) ==
    LET places == InOrder({j \in begin2..(end2 - 1) : At(b, j) = At(a, i)})
    IN [best |-> FoldLeft(LAMBDA y, j : BetterMatch(mod, y, i, j, MatchLength(x.prev, j)), x.best, places),
        prev |-> [j \in ToSet(places) |-> MatchLength(x.prev, j)]]

\* find_longest_match in a[begin1..end1) and b[begin2..end2), rows matched by their
\* index in the table.
FindLongestMatch(a, b, mod, begin1, end1, begin2, end2) ==
    LET start == [best |-> [i |-> begin1, j |-> begin2, size |-> 0, modified |-> 0], prev |-> <<>>]
    IN FoldLeft(LAMBDA x, i : MatchRow(a, b, mod, begin2, end2, x, i), start,
                [k \in 1..(end1 - begin1) |-> begin1 + k - 1]).best

\* find_longest_matches; the test that ends the search on the right compares an index
\* of a with end2.
FindLongestMatches(a, b, mod, begin1, end1, begin2, end2) ==
    LET within[r \in Nat \X Nat \X Nat \X Nat] ==
            LET m == FindLongestMatch(a, b, mod, r[1], r[2], r[3], r[4])
            IN IF m.size = 0 THEN <<>>
               ELSE (IF m.i > r[1] /\ m.j > r[3] THEN within[<<r[1], m.i, r[3], m.j>>] ELSE <<>>)
                    \o <<m>>
                    \o (IF m.i + m.size < r[4] /\ m.j + m.size < r[4]
                        THEN within[<<m.i + m.size, r[2], m.j + m.size, r[4]>>] ELSE <<>>)
    IN within[<<begin1, end1, begin2, end2>>]

\* Rows of both results that are between two matches were deleted and inserted.
AlignStep(old, new, x, m) ==
    [i |-> m.i + m.size, j |-> m.j + m.size,
     c |-> [x.c EXCEPT !.del = FoldLeft(LAMBDA s, k : Add(s, old[k + 1].prev), @, [k \in 1..(m.i - x.i) |-> x.i + k - 1]),
                       !.ins = FoldLeft(LAMBDA s, k : Add(s, new[k + 1].now), @, [k \in 1..(m.j - x.j) |-> x.j + k - 1])]]

\* calculate_moves_sorted; rows: the rows of both results, in the order of the new one.
CalculateMovesSorted(c, rows) ==
    LET old == InOrderBy(ToSet(rows), LAMBDA r, s : r.prev < s.prev)
        a == [k \in DOMAIN old |-> old[k].row]
        b == [k \in DOMAIN rows |-> rows[k].row]
        differ == {k \in Positions(a) : At(a, k) # At(b, k)}
        first == CHOOSE k \in differ : \A h \in differ : k <= h
        n == Len(a)
        matches == Append(FindLongestMatches(a, b, c.mod, first, n, first, n), [i |-> n, j |-> n, size |-> 0, modified |-> 0])
    IN IF differ = {} THEN c
       ELSE FoldLeft(LAMBDA x, m : AlignStep(old, rows, x, m), [i |-> first, j |-> first, c |-> c], matches).c

\* calculate; unsorted: candidates is the set of rows that may have moved.
Calculate(prev, next, changed, unsorted, candidates) ==
    LET inBoth(j) == \E i \in Positions(prev) : At(prev, i) = At(next, j)
        rows == LET js == InOrder({j \in Positions(next) : inBoth(j)})
                IN [k \in DOMAIN js |-> RowInfo(prev, next, js[k])]
        gone == Built(InOrder({i \in Positions(prev) : At(prev, i) = NPosIndex}))
        removed == {i \in Positions(prev) : At(prev, i) # NPosIndex /\ ~\E j \in Positions(next) : At(prev, i) = At(next, j)}
        c == [NoChanges EXCEPT
                !.ins = Built(InOrder({j \in Positions(next) : ~inBoth(j)})),
                !.mod = Built(InOrder({j \in Positions(next) : inBoth(j) /\ Has(changed, At(next, j))}))]
        moved == IF unsorted
                 THEN FoldLeft(LAMBDA x, r : UnsortedStep(candidates, x, r),
                               [expected |-> 0, c |-> [c EXCEPT !.del = Built(InOrder(removed))]], rows).c
                 ELSE CalculateMovesSorted([c EXCEPT !.del = gone], rows)
    IN [moved EXCEPT !.del = AddAll(@, IF unsorted THEN gone ELSE Built(InOrder(removed)))]

\* calculate_changes: where the row of the last result is now, after the changes to
\* its table; npos if it was deleted.
RowNow(table, row) ==
    LET moved == {k \in DOMAIN table.moves : table.moves[k][1] = row}
    IN IF ~Has(table.del, row) THEN Shift(table.ins, Unshift(table.del, row))
       ELSE IF moved = {} THEN NPosIndex ELSE table.moves[CHOOSE k \in moved : TRUE][2]

\* The changes between two results of a query whose table changed in between; sorted
\* results, and results of a list, have no move candidates.
CalculateChanges(table, prev, next, inTableOrder) ==
    Calculate([k \in DOMAIN prev |-> RowNow(table, prev[k])], next, table.mod, inTableOrder, table.ins)

=============================================================================
