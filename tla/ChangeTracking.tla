--------------------------- MODULE ChangeTracking ---------------------------
(***************************************************************************)
(* From the operations of write transactions to the changes a callback is  *)
(* given.  A transaction log is replayed to a builder                      *)
(* (TransactLogObserver of ObjectStore/src/impl/transact_log_handler.cpp). *)
(* The changes of a list, or of a table seen by notifiers that start at    *)
(* different versions, are merged version by version (IncrementalChangeInfo *)
(* and add_changes); those of a query's results are calculated at each     *)
(* version and merged.  The behaviour ends with what finalize() gives the  *)
(* callback.                                                               *)
(*                                                                         *)
(* Entries of a list and rows of a table have an identity here, which the  *)
(* code does not see: it says what the changes have to be.                 *)
(***************************************************************************)
EXTENDS ResultChanges

CONSTANTS Kinds,      \* what is observed: "list", "table", "ordered" or "sorted" results
          StartSizes, \* how many entries there are at first
          MaxSize,    \* bound: entries at a time
          MaxOperations \* bound: operations, over all transactions

ASSUME ChangeTrackingAssumption ==
    /\ Kinds \subseteq {"list", "table", "ordered", "sorted"}
    /\ StartSizes \subseteq 0..MaxSize /\ {MaxSize, MaxOperations} \subseteq Nat /\ Huge \in Nat /\ Huge > MaxSize

VARIABLES kind,
          current, \* the entries now, by identity
          base,    \* the entries when the callback was last called
          key,     \* for results: the value of a row; rows with value 0 do not match
          shown,   \* for results: m_previous_rows
          baseShown, \* for results: the rows shown when the callback was last called
          log,     \* the builder of the present transaction
          acc,     \* accumulated_changes
          touched, \* identities of entries set, or merged with a set one, since the callback was last called
          operations

trackingVars == <<kind, current, base, key, shown, baseShown, log, acc, touched, operations>>

Values == 0..2
Ids == 1..(MaxSize + MaxOperations)
Used == ToSet(current) \cup ToSet(base) \cup touched
Fresh == CHOOSE i \in Ids \ Used : \A j \in Ids \ Used : i <= j

Results == kind \in {"ordered", "sorted"}

\* The row indexes the query gives for entries r with values k; the sort is stable.
Query(r, k) ==
    LET match == {i \in Positions(r) : k[At(r, i)] # 0}
    IN InOrderBy(match, LAMBDA i, j : IF kind = "sorted" /\ k[At(r, i)] # k[At(r, j)]
                                     THEN k[At(r, i)] < k[At(r, j)] ELSE i < j)

Identities(s) == [k \in DOMAIN s |-> At(current, s[k])]

TrackingInit ==
    /\ kind \in Kinds
    /\ \E n \in StartSizes : current = [i \in 1..n |-> i]
    /\ base = current
    /\ key \in [Ids -> IF Results THEN Values ELSE {1}]
    /\ \A i \in Ids : i > Len(current) => key[i] = 1
    /\ shown = IF Results THEN Query(current, key) ELSE <<>>
    /\ baseShown = Identities(shown)
    /\ log = NoChanges /\ acc = NoChanges /\ touched = {} /\ operations = 0

CountOperation == operations < MaxOperations /\ operations' = operations + 1
Logged(r, c) == /\ current' = r /\ log' = c /\ CountOperation
                  /\ UNCHANGED <<kind, base, shown, baseShown, acc>>

-----------------------------------------------------------------------------
(* Operations on a list                                                    *)

ListSet(i) ==
    /\ kind = "list" /\ i \in Positions(current)
    /\ Logged(current, Modify(log, i)) /\ touched' = touched \cup {At(current, i)} /\ UNCHANGED key

ListInsert(i) ==
    /\ kind = "list" /\ i \in 0..Len(current) /\ Len(current) < MaxSize
    /\ Logged(InsertAt(current, i + 1, Fresh), Insert(log, i, 1, TRUE)) /\ UNCHANGED <<key, touched>>

ListErase(i) ==
    /\ kind = "list" /\ i \in Positions(current)
    /\ Logged(RemoveAt(current, i + 1), Erase(log, i)) /\ UNCHANGED <<key, touched>>

ListMove(i, j) ==
    /\ kind = "list" /\ i \in Positions(current) /\ j \in Positions(current) /\ i # j
    /\ Logged(InsertAt(RemoveAt(current, i + 1), j + 1, At(current, i)), Move(log, i, j)) /\ UNCHANGED <<key, touched>>

\* Two entries exchange their values.
ListSwap(i, j) ==
    /\ kind = "list" /\ {i, j} \subseteq Positions(current) /\ i < j
    /\ Logged(current, Modify(Modify(log, i), j)) /\ touched' = touched \cup {At(current, i), At(current, j)} /\ UNCHANGED key

ListClear ==
    /\ kind = "list" /\ current # <<>>
    /\ Logged(<<>>, Clear(log, Len(current))) /\ UNCHANGED <<key, touched>>

-----------------------------------------------------------------------------
(* Operations on a table                                                   *)

\* mark_dirty
TableSet(i, v) ==
    /\ kind # "list" /\ i \in Positions(current)
    /\ key' = [key EXCEPT ![At(current, i)] = v]
    /\ Logged(current, Modify(log, i)) /\ touched' = touched \cup {At(current, i)}

\* insert_empty_rows, at the end as create does
TableAdd(v) ==
    /\ kind # "list" /\ Len(current) < MaxSize
    /\ key' = [key EXCEPT ![Fresh] = v]
    /\ Logged(Append(current, Fresh), Insert(log, Len(current), 1, TRUE)) /\ UNCHANGED touched

\* The last entry takes the place of entry i.
Over(s, i) == IF i = Len(s) - 1 THEN Front(s) ELSE [Front(s) EXCEPT ![i + 1] = Last(s)]

\* erase_rows, unordered: the last row takes the place of the erased one.
TableErase(i) ==
    /\ kind # "list" /\ i \in Positions(current)
    /\ Logged(Over(current, i), MoveOver(log, i, Len(current) - 1)) /\ UNCHANGED <<key, touched>>

TableSwap(i, j) ==
    /\ kind # "list" /\ {i, j} \subseteq Positions(current) /\ i < j
    /\ Logged([current EXCEPT ![i + 1] = At(current, j), ![j + 1] = At(current, i)], Swap(log, i, j)) /\ UNCHANGED <<key, touched>>

\* merge_rows: a row added in this transaction becomes row i, which is erased.
TableMerge(i, new) ==
    /\ kind # "list" /\ {i, new} \subseteq Positions(current) /\ i # new
    /\ Has(log.ins, new) /\ new \notin DOMAIN log.map
    /\ LET s == [current EXCEPT ![new + 1] = At(current, i)] IN
       /\ Logged(Over(s, i), MoveOver(Subsume(log, i, new), i, Len(current) - 1))
       /\ key' = [key EXCEPT ![At(current, i)] = key[At(current, new)]]
    /\ touched' = IF At(current, new) \in touched THEN touched \cup {At(current, i)} ELSE touched

\* clear_table: the size of the table is not known to the builder.
TableClear ==
    /\ Results /\ current # <<>>
    /\ Logged(<<>>, Clear(log, Huge)) /\ UNCHANGED <<key, touched>>

-----------------------------------------------------------------------------
\* The transaction ends, and the worker advances over it.
EndTransaction ==
    /\ log # NoChanges
    /\ LET done == IF kind = "list" THEN CleanUpStaleMoves(log) ELSE ParseComplete(log)
           next == IF Results THEN Query(current, key) ELSE <<>>
       IN /\ acc' = Merge(acc, IF Results THEN CalculateChanges(done, shown, next, kind = "ordered") ELSE done)
          /\ shown' = next
    /\ log' = NoChanges
    /\ UNCHANGED <<kind, current, base, key, baseShown, touched, operations>>

TrackingNext ==
    \/ EndTransaction
    \/ \E i \in 0..MaxSize : ListSet(i) \/ ListInsert(i) \/ ListErase(i) \/ TableErase(i)
    \/ \E i, j \in 0..MaxSize : ListMove(i, j) \/ ListSwap(i, j) \/ TableSwap(i, j) \/ TableMerge(i, j)
    \/ \E v \in Values : TableAdd(v) \/ \E i \in 0..MaxSize : TableSet(i, v)
    \/ ListClear \/ TableClear

TrackingSpec == TrackingInit /\ [][TrackingNext]_trackingVars

-----------------------------------------------------------------------------
(* Properties, of what the callback would be given between two transactions *)

Told == Finalize(acc)
OldEntries == IF Results THEN baseShown ELSE base
NewEntries == IF Results THEN Identities(shown) ELSE current
Between == log = NoChanges

Staying(s, R) == LET k == InOrder({i \in Positions(s) : ~Has(R, i)}) IN [n \in DOMAIN k |-> At(s, k[n])]

\* Deleting and inserting as told turns the old collection into the new one, entry
\* for entry: calculate() verifies as much in debug builds for one version, this is
\* for any number of merged ones.  Of a table alone the deletions may reach beyond the old
\* table: clear_table deletes up to the largest index there is (size_t(-1)), the log having
\* no size of the table.  Of a table's record the notifiers only ask about rows they know
\* (of a query, its row numbers; of an object, its row), so that nobody is told of these.
ChangesApply ==
    Between => /\ Indexes(Told.ins) \subseteq Positions(NewEntries)
               /\ kind # "table" => Indexes(Told.del) \subseteq Positions(OldEntries)
               /\ Staying(OldEntries, Told.del) = Staying(NewEntries, Told.ins)

\* "Every `from` index will also be present in `deletions` and every `to` index will be
\* present in `insertions`", and "a reported move will always actually be a move".
MovesAreMoves ==
    Between => /\ MovesAreMarked(Told)
               /\ \A k \in DOMAIN Told.moves : At(OldEntries, Told.moves[k][1]) = At(NewEntries, Told.moves[k][2])
               /\ \A k, h \in DOMAIN Told.moves : k # h => Told.moves[k][1] # Told.moves[h][1]

\* The two together: what is told can be applied, moves included.
ToldIsTrue == ChangesApply /\ MovesAreMoves

\* An entry that stayed is reported modified exactly when it was set, at its place in
\* the old collection as well as in the new one.
ModificationsAreTold ==
    Between => /\ Indexes(Told.modNew) = {i \in Positions(NewEntries) : ~Has(Told.ins, i) /\ At(NewEntries, i) \in touched}
               /\ {At(OldEntries, i) : i \in Indexes(Told.modOld)} = {At(NewEntries, i) : i \in Indexes(Told.modNew)}
               /\ Cardinality(Indexes(Told.modOld)) = Cardinality(Indexes(Told.modNew))

\* The sets of the builders are well formed, and the operations of IndexSet do on them
\* what they promise.
SetsAreSound ==
    Between => /\ WellFormed(acc.del) /\ WellFormed(acc.ins) /\ WellFormed(acc.mod)
               /\ SetOperationsAgree(acc.del, acc.ins)
               /\ \A i \in 0..MaxSize : OperationsAgree(acc.ins, i) /\ OperationsAgree(acc.del, i)

=============================================================================
