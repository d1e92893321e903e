----------------------------- MODULE KVOAdapter -----------------------------
(***************************************************************************)
(* TransactLogObserver and KVOAdapter of the object store                  *)
(* (ObjectStore/src/impl/transact_log_handler.cpp): a transaction log is   *)
(* replayed to builders, one for the table of the observed rows and one for *)
(* the list of each, and every observer is told what becomes of its row.   *)
(* The instructions are those of TransactLog.                              *)
(***************************************************************************)
EXTENDS ChangeBuilder

Observed == 1         \* the table of the observed rows; other tables are not tracked
Value == 0            \* the columns of its rows
Links == 1
Columns == {Value, Links}

(* An observer's state.  columns: the builder of the table, once for each  *)
(* column with the modifications of that column alone; lists: where the    *)
(* row of each list is now (m_info.lists), and whose list it is; of: the   *)
(* builders of the lists; list: m_active_list; skipped: no part of the     *)
(* code, it says that ListsOver left a row behind.                         *)
NoList == 0
Start(observers) ==
    [columns |-> [c \in Columns |-> NoChanges],
     lists |-> observers,
     of |-> [id \in {observers[k].of : k \in DOMAIN observers} |-> NoChanges],
     table |-> 0, list |-> NoList, skipped |-> FALSE]

\* A change to the table's builder, if the selected table is tracked
OfTable(o, Change(_)) ==
    IF o.table = Observed THEN [o EXCEPT !.columns = [c \in Columns |-> Change(@[c])]] ELSE o

\* A change to the builder of the selected list
OfList(o, Change(_)) == IF o.list = NoList THEN o ELSE [o EXCEPT !.of[o.list] = Change(@)]

\* Changes of the places of lists, if they are in the selected table
Lists(o, ls) == IF o.table = Observed THEN [o EXCEPT !.lists = ls] ELSE o

MarkDirty(o, row, col) == IF o.table = Observed THEN [o EXCEPT !.columns[col] = Modify(@, row)] ELSE o

\* find_list: the last one at the row
FindList(o, row) ==
    LET here == {k \in DOMAIN o.lists : o.table = Observed /\ o.lists[k].row = row}
    IN IF here = {} THEN NoList ELSE o.lists[CHOOSE k \in here : \A h \in here : h <= k].of

\* Mutant: the list of the last row keeps its place
ListsOverKept(lists, row, last) == SelectSeq(lists, LAMBDA l : l.row # row)

\* The row is gone and the last one takes its place.  The list that is put in the
\* place of a removed one is not looked at.
ListsOver(lists, row, last) ==
    LET step(ls, k) ==
            IF k > Len(ls) THEN ls
            ELSE IF ls[k].row = row THEN Front([ls EXCEPT ![k] = Last(ls)])
            ELSE IF ls[k].row = last THEN [ls EXCEPT ![k].row = row] ELSE ls
    IN FoldLeft(step, lists, [k \in DOMAIN lists |-> k])

ListsSwapped(lists, i, j) ==
    [k \in DOMAIN lists |-> [lists[k] EXCEPT !.row = IF @ = i THEN j ELSE IF @ = j THEN i ELSE @]]

EraseRows(o, row, prior, unordered) ==
    LET last == prior - 1
        gone == OfTable(o, LAMBDA c : MoveOver(c, row, last))
        \* the list that takes the place of the removed one is that of the last row
        skips == /\ o.table = Observed /\ row # last /\ o.lists # <<>>
                 /\ Last(o.lists).row = last /\ \E l \in ToSet(o.lists) : l.row = row
    IN IF ~unordered THEN OfTable(o, LAMBDA c : Erase(c, row))
       ELSE [Lists(gone, ListsOver(o.lists, row, last)) EXCEPT !.skipped = @ \/ skips]

\* insert_empty_rows; whether the rows are ordered is not looked at.
InsertEmptyRows(o, row, n) ==
    Lists(OfTable(o, LAMBDA c : Insert(c, row, n, TRUE)),
          [k \in DOMAIN o.lists |-> [o.lists[k] EXCEPT !.row = IF @ >= row THEN @ + n ELSE @]])

\* One instruction of the log
Observe(o, i) ==
    CASE i[1] = "SelectTable" -> [o EXCEPT !.table = i[2]]
      [] i[1] = "SelectLinkList" -> [MarkDirty(o, i[2], Links) EXCEPT !.list = FindList(o, i[2])]
      [] i[1] = "Set" -> MarkDirty(o, i[2], i[3])
      [] i[1] = "InsertEmptyRows" -> InsertEmptyRows(o, i[2], i[3])
      [] i[1] = "EraseRows" -> EraseRows(o, i[2], i[4], i[5])
      [] i[1] = "SwapRows" -> Lists(OfTable(o, LAMBDA c : Swap(c, i[2], i[3])), ListsSwapped(o.lists, i[2], i[3]))
      [] i[1] = "ClearTable" -> Lists(OfTable(o, LAMBDA c : Clear(c, Huge)), <<>>)
      [] i[1] = "LinkListSet" -> OfList(o, LAMBDA c : Modify(c, i[2]))
      [] i[1] = "LinkListInsert" -> OfList(o, LAMBDA c : Insert(c, i[2], 1, TRUE))
      [] i[1] \in {"LinkListErase", "LinkListNullify"} -> OfList(o, LAMBDA c : Erase(c, i[2]))
      [] i[1] = "LinkListMove" -> OfList(o, LAMBDA c : Move(c, i[2], i[3]))
      [] i[1] = "LinkListSwap" -> OfList(o, LAMBDA c : Modify(Modify(c, i[2]), i[3]))
      [] i[1] = "LinkListClear" -> OfList(o, LAMBDA c : Clear(c, i[2]))

\* The log is read instruction by instruction (TransactLogParser).
Parse(instrs, o) == FoldLeft(Observe, o, instrs)

\* parse_complete: only the lists that are still there are cleaned up.
Parsed(o) ==
    [o EXCEPT !.columns = [c \in Columns |-> ParseComplete(@[c])],
              !.of = [id \in DOMAIN @ |-> IF \E l \in ToSet(o.lists) : l.of = id THEN CleanUpStaleMoves(@[id]) ELSE @[id]]]

-----------------------------------------------------------------------------
(* KVOAdapter::before                                                      *)

\* Where a row is afterwards; npos if it is gone
RowAfter(c, row) ==
    LET moved == {k \in DOMAIN c.moves : c.moves[k][1] = row}
    IN IF moved # {} THEN c.moves[CHOOSE k \in moved : TRUE][2]
       ELSE IF Has(c.del, row) THEN NPosIndex ELSE Shift(c.ins, Unshift(c.del, row))

\* in_range, with the range the iterator is at afterwards
InRange(R, p, i) ==
    LET q == IF p <= Len(R) /\ i >= R[p][2] THEN p + 1 ELSE p
    IN [at |-> q, in |-> q <= Len(R) /\ R[q][1] <= i /\ i < R[q][2]]

\* The indexes between the moves that were shifted by them
ShiftedIndexes(b) ==
    LET first == IF b.ins[1][1] < b.del[1][1] THEN b.ins[1][1] ELSE b.del[1][1]
        end == IF Last(b.ins)[2] > Last(b.del)[2] THEN Last(b.ins)[2] ELSE Last(b.del)[2]
        step(x, i) ==
            LET d == InRange(b.del, x.d, i)
                n == IF d.in THEN [at |-> x.n, in |-> FALSE] ELSE InRange(b.ins, x.n, i + x.shift)
                shift == x.shift + (IF d.in THEN -1 ELSE IF n.in THEN 1 ELSE 0)
            IN [d |-> d.at, n |-> n.at, shift |-> shift, out |-> IF shift # 0 THEN x.out \cup {i} ELSE x.out]
    IN FoldLeft(step, [d |-> 1, n |-> 1, shift |-> 0, out |-> {}], [k \in 1..(end - first) |-> first + k - 1]).out

Changed(kind, indexes) == [kind |-> kind, at |-> indexes]
Unchanged == Changed("None", {})

\* What a list's observer is told of a list that changed.  Moves can only be told as
\* assignments, and changes of several kinds only as a new list.
ListChange(builder) ==
    LET b == [builder EXCEPT !.mod = RemoveSet(@, builder.ins)]
        size(R) == Cardinality(Indexes(R))
        kinds == {R \in {1, 2, 3} : <<b.ins, b.mod, b.del>>[R] # <<>>}
    IN CASE b.moves # <<>> /\ size(b.ins) = Len(b.moves) /\ size(b.del) = Len(b.moves) ->
                Changed("Set", Indexes(b.mod) \cup Indexes(b.del) \cup ShiftedIndexes(b))
         [] OTHER -> IF Cardinality(kinds) > 1 THEN Changed("SetAll", {})
                     ELSE IF b.ins # <<>> THEN Changed("Insert", Indexes(b.ins))
                     ELSE IF b.mod # <<>> THEN Changed("Set", Indexes(b.mod))
                     ELSE Changed("Remove", Indexes(b.del))

\* What the observer of a row is told
RowChange(o, observer) ==
    LET at == RowAfter(o.columns[Value], observer.row)
        modified(cols) == at # NPosIndex /\ \E c \in cols : Has(o.columns[c].mod, at)
        list == o.of[observer.of]
    IN [at |-> at, value |-> modified({Value}),
        list |-> IF modified(Columns) /\ ~IsEmpty(list) THEN ListChange(list) ELSE Unchanged]

\* What the observers are told of a log; observers are sorted by their rows.
ToldOf(instrs, observers) ==
    LET o == Parsed(Parse(instrs, Start(observers)))
    IN [skipped |-> o.skipped, rows |-> [k \in DOMAIN observers |-> RowChange(o, observers[k])]]

=============================================================================
