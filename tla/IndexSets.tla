----------------------------- MODULE IndexSets -----------------------------
(***************************************************************************)
(* IndexSet of the object store (ObjectStore/src/index_set.cpp): a set of  *)
(* indexes kept as a sequence of disjoint ranges <<first, second>>, second *)
(* excluded, that never touch.  The chunks the ranges are stored in are    *)
(* left out.  An operation that rebuilds the set walks its indexes in      *)
(* order and hands the new ones to a builder, as the code does.            *)
(***************************************************************************)
EXTENDS Integers, Sequences, FiniteSets, SequencesExt

NPosIndex == -1

\* The members of a finite set in an order, and the entries of a sequence at positions K.
InOrderBy(S, less(_, _)) ==
    [k \in 1..Cardinality(S) |-> CHOOSE x \in S : Cardinality({y \in S : less(y, x)}) = k - 1]
InOrder(S) == InOrderBy(S, <)
EntriesAt(s, K) == LET k == InOrder(K) IN [n \in DOMAIN k |-> s[k[n]]]

\* The indexes of a set of ranges, and the same in order (as_indexes).
Indexes(R) == UNION {R[p][1]..(R[p][2] - 1) : p \in 1..Len(R)}
AsIndexes(R) == InOrder(Indexes(R))

\* What verify() checks of the ranges
WellFormed(R) == /\ \A p \in 1..Len(R) : R[p][1] < R[p][2]
                 /\ \A p \in 2..Len(R) : R[p - 1][2] < R[p][1]

Longer(R, p, n) == [R EXCEPT ![p][2] = @ + n]

\* Ranges from position p on, moved by n
ShiftFrom(R, p, n) == [q \in 1..Len(R) |-> IF q < p THEN R[q] ELSE <<R[q][1] + n, R[q][2] + n>>]

\* ChunkedRangeVectorBuilder::push_back, of the indexes of a sequence
PushBack(R, i) == IF R # <<>> /\ Last(R)[2] = i THEN Longer(R, Len(R), 1) ELSE Append(R, <<i, i + 1>>)
Built(indexes) == FoldLeft(PushBack, <<>>, indexes)

\* find: the position of the range that contains i, or of the first one after it.
Find(R, i) == 1 + Cardinality({p \in 1..Len(R) : R[p][2] <= i})

Has(R, i) == Find(R, i) <= Len(R) /\ R[Find(R, i)][1] <= i

\* count: how many indexes of R lie in [from, to).
Count(R, from, to) == Cardinality({i \in Indexes(R) : from <= i /\ i < to})

DoAdd(R, p, i) ==
    LET before == p > 1 /\ R[p - 1][2] = i
        after  == p <= Len(R) /\ R[p][1] = i + 1
    IN CASE p <= Len(R) /\ R[p][1] <= i -> R
         [] before /\ after  -> RemoveAt([R EXCEPT ![p - 1][2] = R[p][2]], p)
         [] before /\ ~after -> Longer(R, p - 1, 1)
         [] ~before /\ after -> [R EXCEPT ![p][1] = i]
         [] OTHER -> InsertAt(R, p, <<i, i + 1>>)

Add(R, i) == DoAdd(R, Find(R, i), i)
AddAll(R, S) == FoldLeft(Add, R, AsIndexes(S))

\* Walks from range p on over the ranges that begin at or before the index, each of which
\* shifts it by its length: where the walk stops, and the index there.
ShiftPast(R, p, i) ==
    LET shifted(q) == i + Cardinality(Indexes(SubSeq(R, p, q - 1)))
        q == Min({h \in p..(Len(R) + 1) : h > Len(R) \/ R[h][1] > shifted(h)})
    IN <<q, shifted(q)>>

Shift(R, i) == ShiftPast(R, 1, i)[2]
Unshift(R, i) == i - Count(R, 0, i)

\* add_shifted: the new set and the index that was added to it.
AddShifted(R, i) == LET s == ShiftPast(R, 1, i) IN [set |-> DoAdd(R, s[1], s[2]), at |-> s[2]]

\* One value of the loop of add_shifted_by.  b: the builder; p, q: the next ranges of
\* the set and of shifted_by; the shifts so far, and the end of the last range of
\* shifted_by that was passed.
AddShiftedValue(R, by, b, index) ==
    LET passedBy == SubSeq(by, b.q, Cardinality({q \in 1..Len(by) : by[q][1] <= index}))
        newShift == b.newShift + Cardinality(Indexes(passedBy))
        skip     == IF passedBy = <<>> THEN b.skip ELSE Last(passedBy)[2]
        by1      == [b EXCEPT !.q = @ + Len(passedBy), !.newShift = newShift, !.skip = skip]
        old      == ShiftPast(R, b.p, index - newShift + b.oldShift)
        oldRows  == AsIndexes(SubSeq(R, b.p, old[1] - 1))
    IN IF index < skip THEN by1
       ELSE [by1 EXCEPT !.p = old[1], !.oldShift = @ + Len(oldRows),
                        !.out = PushBack(FoldLeft(PushBack, @, oldRows),
                                         index - newShift + b.oldShift + Len(oldRows))]

AddShiftedBy(R, by, values) ==
    LET start == [p |-> 1, q |-> 1, oldShift |-> 0, newShift |-> 0, skip |-> 0, out |-> <<>>]
        end   == FoldLeft(LAMBDA b, index : AddShiftedValue(R, by, b, index), start, AsIndexes(values))
    IN IF values = <<>> THEN R
       ELSE FoldLeft(PushBack, end.out, AsIndexes(SubSeq(R, end.p, Len(R))))

\* Mutant: the ranges after the insertion stay where they are
InsertAtIndexUnmoved(R, i, n) ==
    LET p == Find(R, i) IN
    IF p <= Len(R) /\ R[p][1] <= i THEN Longer(R, p, n) ELSE FoldLeft(Add, R, [k \in 1..n |-> i + k - 1])

\* insert_at(index, count)
InsertAtIndex(R, i, n) ==
    LET p == Find(R, i)
    IN IF p <= Len(R) /\ R[p][1] <= i
       THEN Longer(ShiftFrom(R, p + 1, n), p, n)
       ELSE FoldLeft(Add, ShiftFrom(R, p, n), [k \in 1..n |-> i + k - 1])

\* The loop shared by insert_at and shift_for_insert_at of a set, for one of the existing
\* indexes: it goes past positions b[1], b[2], ... while it is not before the next, each
\* shifting it by one.  x: how many were passed, and what the builder was handed; the
\* positions themselves are handed on or not.
MergeStep(b, keep, x, index) ==
    LET n == Min({m \in x.n..Len(b) : m = Len(b) \/ index + m < b[m + 1]})
    IN [n |-> n, out |-> Append(x.out \o (IF keep THEN SubSeq(b, x.n + 1, n) ELSE <<>>), index + n)]

MergeShifted(a, b, keep) ==
    LET x == FoldLeft(LAMBDA y, index : MergeStep(b, keep, y, index), [n |-> 0, out |-> <<>>], a)
    IN x.out \o (IF keep THEN SubSeq(b, x.n + 1, Len(b)) ELSE <<>>)

InsertAtSet(R, P) == IF P = <<>> THEN R ELSE IF R = <<>> THEN P
                     ELSE Built(MergeShifted(AsIndexes(R), AsIndexes(P), TRUE))

ShiftForInsertAt(R, i, n) ==
    LET p == Find(R, i)
        moved == ShiftFrom(R, p, n)
    IN IF p <= Len(R) /\ R[p][1] < i
       THEN InsertAt([moved EXCEPT ![p] = <<R[p][1], i>>], p + 1, <<i + n, R[p][2] + n>>)
       ELSE moved

ShiftForInsertAtSet(R, P) ==
    IF R = <<>> \/ P = <<>> \/ P[1][1] >= Last(R)[2] THEN R
    ELSE Built(MergeShifted(AsIndexes(R), AsIndexes(P), FALSE))

DoErase(R, p, i) ==
    IF R[p][1] <= i
    THEN IF R[p][1] + 1 = R[p][2] THEN ShiftFrom(RemoveAt(R, p), p, -1)
         ELSE ShiftFrom(Longer(R, p, -1), p + 1, -1)
    ELSE IF p > 1 /\ R[p - 1][2] + 1 = R[p][1]
         THEN ShiftFrom(RemoveAt(Longer(R, p - 1, R[p][2] - R[p][1]), p), p, -1)
         ELSE ShiftFrom(R, p, -1)

EraseAt(R, i) == IF Find(R, i) <= Len(R) THEN DoErase(R, Find(R, i), i) ELSE R

\* The loop of erase_at of a set, for one of the existing indexes
EraseStep(b, x, index) ==
    LET n == Min({m \in x.n..Len(b) : m = Len(b) \/ index <= b[m + 1]})
    IN IF n < Len(b) /\ index = b[n + 1] THEN [x EXCEPT !.n = n + 1]
       ELSE [n |-> n, out |-> Append(x.out, index - n)]

EraseIndexes(a, b) == FoldLeft(LAMBDA y, index : EraseStep(b, y, index), [n |-> 0, out |-> <<>>], a).out

EraseAtSet(R, P) == IF R = <<>> \/ P = <<>> THEN R ELSE Built(EraseIndexes(AsIndexes(R), AsIndexes(P)))

\* The new set, and where the index is without the set before it; npos if it was in it.
EraseOrUnshift(R, i) ==
    [set |-> EraseAt(R, i), at |-> IF Has(R, i) THEN NPosIndex
                                   ELSE i - Cardinality(Indexes(SubSeq(R, 1, Find(R, i) - 1)))]

\* One turn of the loop of do_remove.  x: the ranges, and the first index still to remove.
RemoveStep(x, to) ==
    LET R == x.set
        p == Find(R, x.from)
        first == R[p][1]
        second == R[p][2]
        begin == IF first > x.from THEN first ELSE x.from
    IN IF p > Len(R) \/ first >= to THEN x
       ELSE [from |-> begin,
             set |-> CASE first < begin /\ second > to -> InsertAt([R EXCEPT ![p][2] = begin], p + 1, <<to, second>>)
                       [] begin = first /\ to >= second -> RemoveAt(R, p)
                       [] begin = first /\ to < second -> [R EXCEPT ![p][1] = to]
                       [] OTHER -> [R EXCEPT ![p][2] = begin]]

\* do_remove of the indexes from..to-1; it takes at most one turn for each range.
RemoveRange(R, from, to) ==
    FoldLeft(LAMBDA x, p : RemoveStep(x, to), [set |-> R, from |-> from], [p \in 1..Len(R) |-> p]).set

Remove1(R, i) == RemoveRange(R, i, i + 1)
RemoveSet(R, S) == FoldLeft(LAMBDA T, r : RemoveRange(T, r[1], r[2]), R, S)

\* set(len)
SetTo(n) == IF n > 0 THEN <<<<0, n>>>> ELSE <<>>

-----------------------------------------------------------------------------
(* What the operations promise, in terms of the indexes.                   *)

After(S, i) == {j \in S : j >= i}
InsertedIn(S, i, n, whole) ==
    {j \in S : j < i} \cup {j + n : j \in After(S, i)} \cup (IF whole THEN i..(i + n - 1) ELSE {})
ErasedIn(S, i) == {j \in S : j < i} \cup {j - 1 : j \in After(S, i + 1)}

\* Where index i ends up once all of S was inserted: the i-th index not in S.
ShiftedBy(S, i) == CHOOSE j \in 0..(i + Cardinality(S)) :
                      j \notin S /\ Cardinality({k \in 0..(j - 1) : k \notin S}) = i

\* Every operation on R alone does to its indexes what it promises, at index i, and
\* leaves ranges that do not touch.
OperationsAgree(R, i) ==
    LET S == Indexes(R)
        to(T, U) == WellFormed(T) /\ Indexes(T) = U
    IN /\ to(Add(R, i), S \cup {i})
       /\ Has(R, i) = (i \in S)
       /\ to(InsertAtIndex(R, i, 2), InsertedIn(S, i, 2, TRUE))
       /\ to(ShiftForInsertAt(R, i, 2), InsertedIn(S, i, 2, FALSE))
       /\ to(EraseAt(R, i), ErasedIn(S, i))
       /\ EraseOrUnshift(R, i).at = IF i \in S THEN NPosIndex ELSE i - Cardinality({j \in S : j < i})
       /\ to(RemoveRange(R, i, i + 2), S \ {i, i + 1})
       /\ Shift(R, i) = ShiftedBy(S, i)
       /\ to(AddShifted(R, i).set, S \cup {ShiftedBy(S, i)}) /\ AddShifted(R, i).at = ShiftedBy(S, i)

\* Every operation of two sets does to their indexes what it promises.
SetOperationsAgree(R, P) ==
    LET S == Indexes(R) T == Indexes(P)
        to(U, V) == WellFormed(U) /\ Indexes(U) = V
    IN /\ to(AddAll(R, P), S \cup T)
       /\ to(InsertAtSet(R, P), T \cup {ShiftedBy(T, i) : i \in S})
       /\ to(ShiftForInsertAtSet(R, P), {ShiftedBy(T, i) : i \in S})
       /\ to(EraseAtSet(R, P), {i - Cardinality({j \in T : j < i}) : i \in S \ T})
       /\ to(RemoveSet(R, P), S \ T)
       /\ \A by \in {R, P} : to(AddShiftedBy(R, by, P),
              S \cup {ShiftedBy(S, i - Cardinality({j \in Indexes(by) : j < i})) : i \in T \ Indexes(by)})

=============================================================================
