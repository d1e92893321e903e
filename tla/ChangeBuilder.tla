--------------------------- MODULE ChangeBuilder ---------------------------
(***************************************************************************)
(* CollectionChangeBuilder (ObjectStore/src/impl/collection_change_builder.cpp): *)
(* the changes made to one list or table, as the deleted indexes of the    *)
(* old one, the inserted and modified indexes of the new one, and the      *)
(* moves.  A builder is recorded operation by operation, builders of       *)
(* successive versions are merged, and calculate() compares two query      *)
(* results.  The per-column sets are left out: each is treated as          *)
(* modifications is.                                                       *)
(***************************************************************************)
EXTENDS IndexSets

CONSTANT Huge \* stands for the largest size_t: the length a cleared table is taken to have had

\* Sequences are counted from 0 in the code.
At(s, i) == s[i + 1]
Positions(s) == 0..(Len(s) - 1)

\* A builder: deletions, insertions, modifications; moves, a sequence of
\* <<from, to>>; m_move_mapping, new index to old.
NoChanges == [del |-> <<>>, ins |-> <<>>, mod |-> <<>>, moves |-> <<>>, map |-> <<>>]
IsEmpty(c) == c.del = <<>> /\ c.ins = <<>> /\ c.mod = <<>> /\ c.moves = <<>>

\* verify()
MovesAreMarked(c) == \A k \in 1..Len(c.moves) : Has(c.del, c.moves[k][1]) /\ Has(c.ins, c.moves[k][2])

Without(map, k) == [i \in DOMAIN map \ {k} |-> map[i]]
With(map, k, v) == [i \in DOMAIN map \cup {k} |-> IF i = k THEN v ELSE map[i]]

-----------------------------------------------------------------------------
(* Recording                                                               *)

Modify(c, i) == [c EXCEPT !.mod = Add(@, i)]

Insert(c, i, n, track) ==
    LET mod == [c EXCEPT !.mod = ShiftForInsertAt(@, i, n)]
        place(j) == IF j >= i THEN j + n ELSE j
    IN IF ~track THEN mod
       ELSE [mod EXCEPT !.ins = InsertAtIndex(@, i, n),
                        !.moves = [k \in DOMAIN @ |-> <<@[k][1], place(@[k][2])>>],
                        !.map = [j \in {place(o) : o \in DOMAIN c.map} |->
                                    c.map[CHOOSE o \in DOMAIN c.map : place(o) = j]]]

Erase(c, i) ==
    LET e == EraseOrUnshift(c.ins, i)
        left == EntriesAt(c.moves, {k \in DOMAIN c.moves : c.moves[k][2] # i})
    IN [c EXCEPT !.mod = EraseAt(@, i), !.ins = e.set,
                 !.del = IF e.at = NPosIndex THEN @ ELSE AddShifted(@, e.at).set,
                 !.moves = [k \in DOMAIN left |-> <<left[k][1], IF left[k][2] > i THEN left[k][2] - 1 ELSE left[k][2]>>]]

\* clear of a list whose size is known, or of a table, whose size is not
Clear(c, size) ==
    [NoChanges EXCEPT !.del = SetTo(IF size = Huge THEN Huge
                                    ELSE size + Cardinality(Indexes(c.del)) - Cardinality(Indexes(c.ins)))]

\* The destination of another move, when a row moves past it
MovedPast(j, from, to) == IF j >= to /\ j < from THEN j + 1 ELSE IF j <= to /\ j > from THEN j - 1 ELSE j

Move(c, from, to) ==
    LET again == \E k \in DOMAIN c.moves : c.moves[k][2] = from
        moved == [k \in DOMAIN c.moves |-> <<c.moves[k][1], IF c.moves[k][2] = from THEN to
                                                            ELSE MovedPast(c.moves[k][2], from, to)>>]
        e == EraseOrUnshift(c.ins, from)
        d == AddShifted(c.del, e.at)
        mod == EraseAt(c.mod, from)
        moveMod == IF Has(c.mod, from) THEN InsertAtIndex(mod, to, 1) ELSE ShiftForInsertAt(mod, to, 1)
        c1 == [c EXCEPT !.moves = moved, !.mod = moveMod, !.ins = InsertAtIndex(e.set, to, 1)]
    IN IF again \/ e.at = NPosIndex THEN c1
       ELSE [c1 EXCEPT !.del = d.set, !.moves = Append(@, <<d.at, to>>)]

\* The modifications when the last row takes the place of row i, and of two swapped rows
ModOver(mod, i, last) == IF i # last /\ Has(mod, last) THEN Add(Remove1(mod, last), i) ELSE Remove1(mod, i)
ModSwapped(mod, i, j) ==
    IF Has(mod, i) = Has(mod, j) THEN mod
    ELSE IF Has(mod, i) THEN Add(Remove1(mod, i), j) ELSE Add(Remove1(mod, j), i)

\* move_over with move tracking: the last row takes the place of a removed one.
MoveOver(c, i, last) ==
    LET e == EraseOrUnshift(c.ins, i)
        newRow == Has(c.ins, i)
        newLast == Has(c.ins, last)
        movedLast == newLast /\ last \in DOMAIN c.map
        map1 == IF movedLast THEN With(Without(c.map, last), i, c.map[last])
                ELSE IF newRow THEN Without(c.map, i) ELSE c.map
        d == AddShifted(c.del, Unshift(c.ins, last))
        ins == IF newLast THEN Remove1(c.ins, last) ELSE c.ins
        del == IF newLast THEN c.del ELSE d.set
        map2 == IF newLast THEN map1 ELSE With(map1, i, d.at)
    IN IF i = last
       THEN [c EXCEPT !.mod = ModOver(@, i, last), !.ins = e.set, !.map = Without(@, i),
                      !.del = IF e.at = NPosIndex THEN @ ELSE AddShifted(@, e.at).set]
       ELSE [c EXCEPT !.mod = ModOver(@, i, last), !.map = map2,
                      !.ins = IF newRow THEN ins ELSE Add(ins, i),
                      !.del = IF newRow THEN del ELSE AddShifted(del, Unshift(ins, i)).set]

\* A row that was not moved yet is recorded as moved to another index.
RecordMove(c, from, to) ==
    IF Has(c.ins, from) THEN c
    ELSE LET d == AddShifted(c.del, Unshift(c.ins, from))
         IN [c EXCEPT !.del = d.set, !.ins = Add(@, from), !.map = With(@, to, d.at)]

\* swap with move tracking, i < j.
Swap(c0, i, j) ==
    LET c == [c0 EXCEPT !.mod = ModSwapped(@, i, j)]
        mi == i \in DOMAIN c.map
        mj == j \in DOMAIN c.map
    IN CASE mi /\ mj  -> [c EXCEPT !.map = [@ EXCEPT ![i] = c.map[j], ![j] = c.map[i]]]
         [] mi /\ ~mj -> RecordMove([c EXCEPT !.map = With(Without(@, i), j, @[i])], j, i)
         [] ~mi /\ mj -> RecordMove([c EXCEPT !.map = With(Without(@, j), i, @[j])], i, j)
         [] OTHER -> RecordMove(RecordMove(c, j, i), i, j)

\* subsume with move tracking: the row old is about to be removed, new takes over.
Subsume(c, old, new) ==
    [c EXCEPT !.mod = IF Has(@, old) THEN Add(@, new) ELSE @,
              !.map = IF old \in DOMAIN @ THEN With(Without(@, old), new, @[old])
                      ELSE IF Has(c.ins, old) THEN @
                      ELSE With(@, new, Shift(c.del, Unshift(c.ins, old)))]

-----------------------------------------------------------------------------
(* The end of a transaction log, and merging                               *)

\* clean_up_stale_moves
CleanUpStaleMoves(c) ==
    LET step(x, m) ==
            IF m[1] - Count(x.del, 0, m[1]) # m[2] - Count(x.ins, 0, m[2])
            THEN [x EXCEPT !.moves = Append(@, m)]
            ELSE [x EXCEPT !.del = Remove1(@, m[1]), !.ins = Remove1(@, m[2])]
    IN FoldLeft(step, [c EXCEPT !.moves = <<>>], c.moves)

\* parse_complete, for a table: the mapping becomes moves, in the order of their origin.
ParseComplete(c) ==
    LET still == {i \in DOMAIN c.map : c.map[i] = i}
        pairs == {<<c.map[i], i>> : i \in DOMAIN c.map \ still}
    IN [c EXCEPT !.del = RemoveSet(@, Built(InOrder(still))), !.ins = RemoveSet(@, Built(InOrder(still))),
                 !.moves = InOrderBy(ToSet(@) \cup pairs, LAMBDA a, b : a[1] < b[1] \/ (a[1] = b[1] /\ a[2] < b[2])),
                 !.map = <<>>]

\* The old moves, brought up to date with a later builder; x holds those kept so far and
\* the later builder's moves and modifications.
UpdatedMove(c, later, x, m) ==
    LET again == {k \in DOMAIN x.moves : x.moves[k][1] = m[2]}
        k == CHOOSE h \in again : \A g \in again : h <= g
        target == x.moves[k][2]
    IN IF again # {}
       THEN [kept |-> Append(x.kept, <<m[1], target>>),
             mod |-> IF Has(c.mod, m[2]) THEN Add(x.mod, target) ELSE x.mod,
             moves |-> LET n == Len(x.moves) IN SubSeq([x.moves EXCEPT ![k] = x.moves[n]], 1, n - 1)]
       ELSE IF Has(later.del, m[2]) THEN x
       ELSE [x EXCEPT !.kept = Append(@, <<m[1], Shift(later.ins, Unshift(later.del, m[2]))>>)]

\* Mutant: the deletions of the later builder are taken as they are
MergedDeletionsUnshifted(c, later) == AddAll(c.del, later.del)

\* New deletions, in the indexes of the old collection
MergedDeletions(c, later) == AddShiftedBy(c.del, c.ins, later.del)

\* merge of two builders that are both not empty
MergeBoth(c, later) ==
    LET start == [kept |-> <<>>, mod |-> later.mod, moves |-> later.moves]
        x == IF later.moves = <<>> /\ later.del = <<>> /\ later.ins = <<>>
             THEN [start EXCEPT !.kept = c.moves]
             ELSE FoldLeft(LAMBDA y, m : UpdatedMove(c, later, y, m), start, c.moves)
        fresh == EntriesAt(x.moves, {k \in DOMAIN x.moves : ~Has(c.ins, x.moves[k][1])})
        mod == FoldLeft(LAMBDA s, m : IF Has(c.mod, m[1]) THEN Add(s, m[2]) ELSE s, x.mod, fresh)
        placed == [k \in DOMAIN fresh |-> <<Shift(c.del, Unshift(c.ins, fresh[k][1])), fresh[k][2]>>]
        cleaned == CleanUpStaleMoves(
                     [c EXCEPT !.moves = x.kept \o placed, !.del = MergedDeletions(c, later),
                               !.ins = InsertAtSet(EraseAtSet(@, later.del), later.ins)])
    IN [cleaned EXCEPT !.mod = AddAll(ShiftForInsertAtSet(EraseAtSet(@, later.del), later.ins), mod)]

Merge(c, later) == IF IsEmpty(later) THEN c ELSE IF IsEmpty(c) THEN later ELSE MergeBoth(c, later)

\* Mutant: rows inserted and modified stay in the modifications
FinalizeKeepsInserted(c) ==
    [del |-> c.del, ins |-> c.ins, moves |-> c.moves, modNew |-> c.mod,
     modOld |-> ShiftForInsertAtSet(EraseAtSet(c.mod, c.ins), c.del)]

\* finalize: what the callback is given.
Finalize(c) ==
    [del |-> c.del, ins |-> c.ins, moves |-> c.moves, modNew |-> RemoveSet(c.mod, c.ins),
     modOld |-> ShiftForInsertAtSet(EraseAtSet(c.mod, c.ins), c.del)]

=============================================================================
