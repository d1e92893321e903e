---------------------------- MODULE ObservedRows ----------------------------
(***************************************************************************)
(* Key-value observation of objects.  Before a Realm is advanced over the  *)
(* transactions of another one, or its own write is rolled back, the       *)
(* transaction log is replayed to TransactLogObserver and KVOAdapter       *)
(* (ObjectStore/src/impl/transact_log_handler.cpp), which work out for     *)
(* every observed object whether it goes, and which of its properties      *)
(* change and how.                                                         *)
(*                                                                         *)
(* The objects are the rows of one table, each with a value and a list of  *)
(* links.  Rows and entries of a list have an identity here that the code  *)
(* does not see: it says what the observers have to be told.  Subtables,   *)
(* schema instructions and merge_rows, which only synchronization writes,  *)
(* are left out.                                                           *)
(***************************************************************************)
EXTENDS KVOAdapter, TransactLog

CONSTANTS Writers,    \* whose transactions end: "theirs" are advanced over, "ours" is rolled back
          Watchings,  \* which rows are observed, by identity
          StartRows,  \* how many rows there are at first
          Linked, StartLinks,    \* which of them have links, and how many each
          MaxRows, MaxLinks,     \* bounds: rows at a time, links in a list at a time
          MaxOps                 \* bound: operations, over all transactions

ASSUME ObservedRowsAssumption ==
    /\ Writers \subseteq {"theirs", "ours"}
    /\ {StartRows, StartLinks, MaxRows, MaxLinks, MaxOps, Huge} \subseteq Nat
    /\ Linked \subseteq 1..StartRows /\ StartRows <= MaxRows /\ StartLinks <= MaxLinks /\ Huge > MaxRows

VARIABLES writer,
          watched,  \* the observed rows
          rows,     \* the rows now, by identity
          links,    \* the entries of each row's list
          valued,   \* rows whose value was set
          before,   \* the rows and their lists before the first transaction
          enc,      \* the transaction log and its selections
          ops,
          told      \* what the observers were told

vars == <<writer, watched, rows, links, valued, before, enc, ops, told>>

RowIds == 1..(MaxRows + MaxOps)
Other == 2            \* a table nobody observes

IndexIn(s, x) == CHOOSE i \in Positions(s) : At(s, i) = x

FreshRow == CHOOSE i \in RowIds \ (ToSet(rows) \cup ToSet(before.rows)) :
                \A j \in RowIds \ (ToSet(rows) \cup ToSet(before.rows)) : i <= j
\* An entry that no list has had: the operations so far are counted.
FreshLink == StartRows * StartLinks + ops + 1

\* Nothing was told yet.
NotTold == <<>>

Init ==
    /\ writer \in Writers /\ watched \in Watchings
    /\ rows = [i \in 1..StartRows |-> i]
    /\ links = [i \in RowIds |-> IF i \in Linked THEN [k \in 1..StartLinks |-> (i - 1) * StartLinks + k] ELSE <<>>]
    /\ before = [rows |-> rows, links |-> links]
    /\ valued = {} /\ enc = EmptyLog /\ ops = 0 /\ told = NotTold

Counted == told = NotTold /\ ops < MaxOps /\ ops' = ops + 1 /\ UNCHANGED <<writer, watched, before, told>>

-----------------------------------------------------------------------------
(* Operations on the rows                                                  *)

RowOp(instr) == Counted /\ enc' = OnTable(enc, Observed, instr)

SetValue(i) ==
    /\ i \in Positions(rows) /\ RowOp(<<"Set", i, Value>>)
    /\ valued' = valued \cup {At(rows, i)} /\ UNCHANGED <<rows, links>>

AddRow ==
    /\ Len(rows) < MaxRows /\ RowOp(<<"InsertEmptyRows", Len(rows), 1, Len(rows), FALSE>>)
    /\ rows' = Append(rows, FreshRow) /\ links' = [links EXCEPT ![FreshRow] = <<>>]
    /\ UNCHANGED valued

\* move_last_over: the last row takes the place of row i.
EraseRow(i) ==
    /\ i \in Positions(rows) /\ RowOp(<<"EraseRows", i, 1, Len(rows), TRUE>>)
    /\ rows' = IF i = Len(rows) - 1 THEN Front(rows) ELSE [Front(rows) EXCEPT ![i + 1] = Last(rows)]
    /\ UNCHANGED <<links, valued>>

SwapRows(i, j) ==
    /\ {i, j} \subseteq Positions(rows) /\ i < j /\ RowOp(<<"SwapRows", i, j>>)
    /\ rows' = [rows EXCEPT ![i + 1] = At(rows, j), ![j + 1] = At(rows, i)] /\ UNCHANGED <<links, valued>>

ClearTable ==
    /\ rows # <<>> /\ RowOp(<<"ClearTable", Len(rows)>>)
    /\ rows' = <<>> /\ UNCHANGED <<links, valued>>

SetElsewhere ==
    /\ Counted /\ enc' = OnTable(enc, Other, <<"Set", 0, Value>>) /\ UNCHANGED <<rows, links, valued>>

-----------------------------------------------------------------------------
(* Operations on the list of row i; n is its length                        *)

ListOp(i, entries, instr) ==
    /\ Counted /\ enc' = OnList(enc, Observed, At(rows, i), i, instr)
    /\ links' = [links EXCEPT ![At(rows, i)] = entries] /\ UNCHANGED <<rows, valued>>

ListOps(i) ==
    LET s == links[At(rows, i)] n == Len(s) IN
    \/ \E k \in 0..n : n < MaxLinks /\ ListOp(i, InsertAt(s, k + 1, FreshLink), <<"LinkListInsert", k, n>>)
    \/ \E k \in Positions(s) :
        \/ ListOp(i, [s EXCEPT ![k + 1] = FreshLink], <<"LinkListSet", k, n>>)
        \/ \E name \in {"LinkListErase", "LinkListNullify"} : ListOp(i, RemoveAt(s, k + 1), <<name, k, n>>)
    \/ \E k, to \in Positions(s) :
        \/ k # to /\ ListOp(i, InsertAt(RemoveAt(s, k + 1), to + 1, At(s, k)), <<"LinkListMove", k, to>>)
        \/ k < to /\ ListOp(i, [s EXCEPT ![k + 1] = At(s, to), ![to + 1] = At(s, k)], <<"LinkListSwap", k, to>>)
    \/ n > 0 /\ ListOp(i, <<>>, <<"LinkListClear", n>>)

\* Another transaction of the same writer begins.
NextTransaction ==
    /\ told = NotTold /\ writer = "theirs" /\ enc # ResetSelection(enc)
    /\ enc' = ResetSelection(enc)
    /\ UNCHANGED <<writer, watched, rows, links, valued, before, ops, told>>

\* get_observed_rows of a state: the observed rows that exist, in order
Observers(r) == LET at == InOrder({i \in Positions(r) : At(r, i) \in watched})
                IN [k \in DOMAIN at |-> [row |-> at[k], of |-> At(r, at[k])]]

\* do_advance_read: the Realm is about to go to the last transaction.
Advance ==
    /\ told = NotTold /\ writer = "theirs" /\ enc.instrs # <<>>
    /\ told' = ToldOf(enc.instrs, Observers(before.rows))
    /\ UNCHANGED <<writer, watched, rows, links, valued, before, enc, ops>>

\* rollback_and_continue_as_read: the Realm is about to go back.
Rollback ==
    /\ told = NotTold /\ writer = "ours" /\ enc.instrs # <<>>
    /\ told' = ToldOf(Reversed(enc.instrs), Observers(rows))
    /\ UNCHANGED <<writer, watched, rows, links, valued, before, enc, ops>>

Next ==
    \/ AddRow \/ ClearTable \/ SetElsewhere \/ NextTransaction \/ Advance \/ Rollback
    \/ \E i \in 0..MaxRows : SetValue(i) \/ EraseRow(i) \/ \E j \in 0..MaxRows : SwapRows(i, j)
    \/ \E i \in Positions(rows) : ListOps(i)

Spec == Init /\ [][Next]_vars

-----------------------------------------------------------------------------
(* Properties                                                              *)

\* The rows stay distinct and the lists within their bounds, and the log has a list
\* selected only while its table is the one selected last.
TypeOK ==
    /\ writer \in Writers /\ watched \in Watchings /\ ops \in 0..MaxOps
    /\ rows \in Seq(RowIds) /\ IsInjective(rows) /\ Len(rows) <= MaxRows
    /\ DOMAIN links = RowIds /\ \A i \in RowIds : Len(links[i]) <= MaxLinks
    /\ valued \subseteq RowIds
    /\ enc.table \in {Unselected, Observed, Other} /\ enc.list \in {Unselected} \cup RowIds
    /\ enc.list # Unselected => enc.table = Observed

Now == [rows |-> rows, links |-> links]
Old == IF writer = "theirs" THEN before ELSE Now
New == IF writer = "theirs" THEN Now ELSE before

Kept(s, indexes) == LET k == InOrder(Positions(s) \ indexes) IN [n \in DOMAIN k |-> At(s, k[n])]

\* c describes how list s became list t.
Describes(c, s, t) ==
    CASE c.kind = "None" -> s = t
      [] c.kind = "Set" -> Len(s) = Len(t) /\ c.at \subseteq Positions(s) /\ Kept(s, c.at) = Kept(t, c.at)
      [] c.kind = "Insert" -> c.at \subseteq Positions(t) /\ Kept(t, c.at) = s
      [] c.kind = "Remove" -> c.at \subseteq Positions(s) /\ Kept(s, c.at) = t
      [] c.kind = "SetAll" -> TRUE

RowTold(observer, c) ==
    LET id == observer.of IN
    /\ (c.at = NPosIndex) = (id \notin ToSet(New.rows))
    /\ c.at # NPosIndex => /\ c.at \in Positions(New.rows) /\ At(New.rows, c.at) = id
                            /\ c.value = (id \in valued)
                            /\ Describes(c.list, Old.links[id], New.links[id])

AllTold == \A k \in DOMAIN told.rows : RowTold(Observers(Old.rows)[k], told.rows[k])

Instrs(names) == {k \in DOMAIN enc.instrs : enc.instrs[k][1] \in names}

\* A Realm that is advanced tells the observers of each row that is gone, of each other
\* row where it is, whether its value changed, and how its list changed, unless
\* erase_rows passed over a list that was to follow its row.
AdvanceToldTrue == told # NotTold /\ writer = "theirs" /\ ~told.skipped => AllTold

\* The same of a write that is rolled back, unless rows changed their places in it or
\* entries moved within a list.
RollbackToldTrue ==
    told # NotTold /\ writer = "ours" /\ Instrs({"SwapRows", "LinkListMove"}) = {}
      /\ (\A k \in Instrs({"EraseRows"}) : enc.instrs[k][2] = enc.instrs[k][4] - 1)
    => AllTold

=============================================================================
