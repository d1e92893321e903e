---------------------------- MODULE TransactLog ----------------------------
(***************************************************************************)
(* The transaction log of a Realm (core/realm/impl/transact_log.hpp), for  *)
(* rows and link lists.  An instruction names only a row or a position: the *)
(* table and the list it is about are those selected last, which the       *)
(* encoder selects when they change.  A write that is rolled back reads its *)
(* log through TransactReverser, which replaces each instruction by one    *)
(* that undoes it, and reads the result backwards.                         *)
(*                                                                         *)
(* An instruction is <<name, arguments...>>.  The bytes it is stored as,   *)
(* the values it carries, schema instructions and subtables are left out.  *)
(***************************************************************************)
EXTENDS Integers, Sequences, SequencesExt

\* No table or list is selected.
Unselected == 0

-----------------------------------------------------------------------------
(* TransactLogConvenientEncoder: a log with the table (m_selected_table) and *)
(* the list (m_selected_link_list) that are selected at its end.            *)

EmptyLog == [instrs |-> <<>>, table |-> Unselected, list |-> Unselected]

\* reset_selection_caches, when a transaction begins
ResetSelection(e) == [e EXCEPT !.table = Unselected, !.list = Unselected]

Recorded(e, instr) == [e EXCEPT !.instrs = Append(@, instr)]

\* Mutant: the list stays selected when the table changes
SelectTableOnly(e, t) == [(IF e.table = t THEN e ELSE Recorded(e, <<"SelectTable", t>>)) EXCEPT !.table = t]

SelectTable(e, t) ==
    LET s == IF e.table = t THEN e ELSE Recorded(e, <<"SelectTable", t>>)
    IN [s EXCEPT !.table = t, !.list = Unselected]

\* The list l of the row of table t; what is selected is the list, what is recorded its row.
SelectLinkList(e, t, l, row) ==
    IF e.list = l THEN e
    ELSE [Recorded(SelectTable(e, t), <<"SelectLinkList", row>>) EXCEPT !.list = l]

OnTable(e, t, instr) == Recorded(SelectTable(e, t), instr)
OnList(e, t, l, row, instr) == Recorded(SelectLinkList(e, t, l, row), instr)

-----------------------------------------------------------------------------
(* TransactReverser: the instructions so far, and the selections that wait to *)
(* be put behind the instructions they are for.                            *)

NoInstr == <<>>
Nothing == [out |-> <<>>, table |-> NoInstr, list |-> NoInstr]

SyncLinkView(r) == IF r.list = NoInstr THEN r ELSE [r EXCEPT !.out = Append(@, r.list), !.list = NoInstr]
SyncTable(r) ==
    LET s == SyncLinkView(r)
    IN IF s.table = NoInstr THEN s ELSE [s EXCEPT !.out = Append(@, s.table), !.table = NoInstr]

\* What undoes an instruction that selects nothing: a sequence, to be read backwards too.
\* A move within a list is kept as it is.
Inverse1(i) ==
    CASE i[1] = "InsertEmptyRows" -> <<<<"EraseRows", i[2], i[3], i[4] + i[3], i[5]>>>>
      [] i[1] = "EraseRows" -> <<<<"InsertEmptyRows", i[2], i[3], i[4] - i[3], i[5]>>>>
      [] i[1] = "ClearTable" -> <<<<"InsertEmptyRows", 0, i[2], 0, FALSE>>>>
      [] i[1] = "LinkListInsert" -> <<<<"LinkListErase", i[2], i[3] + 1>>>>
      [] i[1] \in {"LinkListErase", "LinkListNullify"} -> <<<<"LinkListInsert", i[2], i[3] - 1>>>>
      [] i[1] = "LinkListClear" ->
            [k \in 1..i[2] |-> <<"LinkListInsert", i[2] - k, k - 1>>]
      [] OTHER -> <<i>>   \* Set, SwapRows, LinkListSet, LinkListSwap, LinkListMove

Undo(r, i) ==
    CASE i[1] = "SelectTable" -> [SyncTable(r) EXCEPT !.table = i]
      [] i[1] = "SelectLinkList" -> [SyncLinkView(r) EXCEPT !.list = i]
      [] OTHER -> [r EXCEPT !.out = @ \o Inverse1(i)]

\* Mutant: the selections that wait at the end of the log are forgotten
ReversedUnsynced(instrs) == Reverse(FoldLeft(Undo, Nothing, instrs).out)

\* ReversedNoCopyInputStream
Reversed(instrs) == Reverse(SyncTable(FoldLeft(Undo, Nothing, instrs)).out)

=============================================================================
