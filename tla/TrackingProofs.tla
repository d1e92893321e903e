--------------------------- MODULE TrackingProofs ---------------------------
(***************************************************************************)
(* Proofs about what observers of a Realm are told.  ObservedRows: the     *)
(* rows stay distinct, the lists within their bounds and the log's         *)
(* selections consistent, for any bounds, any rows observed and any links. *)
(* ChangeTracking: whatever is recorded, merged or calculated is a builder *)
(* of sets that are well formed, on which the operations of IndexSet do    *)
(* what they promise, for any sizes and any number of operations and       *)
(* transactions.                                                           *)
(***************************************************************************)
EXTENDS ChangeTracking, ObservedRows, IndexSetProofs

-----------------------------------------------------------------------------
(* The rows that are observed                                              *)

\* The log is a record of its instructions and its selections, and has a list selected
\* only while its table is the one selected last.
LogFits(e) ==
    /\ e = [instrs |-> e.instrs, table |-> e.table, list |-> e.list]
    /\ e.table \in {Unselected, Observed, Other} /\ e.list \in {Unselected} \cup RowIds
    /\ e.list # Unselected => e.table = Observed

\* Distinct rows, of identities up to n
RowsFit(r, n) ==
    /\ r \in Seq(RowIds) /\ IsInjective(r) /\ Len(r) <= MaxRows
    /\ \A k \in 1..Len(r) : r[k] <= n

LinksFit(ls) == DOMAIN ls = RowIds /\ \A i \in RowIds : ls[i] \in Seq(Nat) /\ Len(ls[i]) <= MaxLinks

\* The inductive invariant: an identity that no row has had is left for every operation,
\* because each adds at most one, the least.
IndInv ==
    /\ writer \in Writers /\ watched \in Watchings /\ ops \in 0..MaxOps /\ valued \subseteq RowIds
    /\ RowsFit(rows, StartRows + ops) /\ LinksFit(links) /\ LogFits(enc)
    /\ before.rows = [i \in 1..StartRows |-> i]

LEMMA Bounds ==
    /\ StartRows \in Nat /\ StartLinks \in Nat /\ MaxRows \in Nat /\ MaxLinks \in Nat /\ MaxOps \in Nat
    /\ StartRows <= MaxRows /\ StartLinks <= MaxLinks /\ RowIds \in SUBSET Nat /\ Unselected \notin RowIds
BY ObservedRowsAssumption DEF RowIds, Unselected

-----------------------------------------------------------------------------
(* The log                                                                 *)

LEMMA TableOps ==
    ASSUME NEW e, LogFits(e), NEW t \in {Observed, Other}, NEW instr
    PROVE  LogFits(OnTable(e, t, instr)) /\ LogFits(SelectTable(e, t)) /\ SelectTable(e, t).table = t
<1>1. e = [instrs |-> e.instrs, table |-> e.table, list |-> e.list]
  BY DEF LogFits
<1> DEFINE s == IF e.table = t THEN e ELSE Recorded(e, <<"SelectTable", t>>)
           u == SelectTable(e, t)
<1>2. s = [instrs |-> s.instrs, table |-> e.table, list |-> e.list]
  BY <1>1 DEF Recorded
<1>3. u = [s EXCEPT !.table = t, !.list = Unselected]
  BY DEF SelectTable
<1> HIDE DEF s, u
<1>4. u = [instrs |-> u.instrs, table |-> t, list |-> Unselected] /\ u.table = t /\ u.list = Unselected
  BY <1>2, <1>3
<1>5. LogFits(u)
  BY <1>4 DEF LogFits
<1> DEFINE w == Recorded(u, instr)
<1>6. w = [instrs |-> w.instrs, table |-> t, list |-> Unselected] /\ w.table = t /\ w.list = Unselected
  BY <1>4 DEF Recorded
<1> HIDE DEF w
<1>7. LogFits(w)
  BY <1>6 DEF LogFits
<1> QED BY <1>4, <1>5, <1>7 DEF OnTable, u, w

LEMMA ListOps1 ==
    ASSUME NEW e, LogFits(e), NEW l \in RowIds, NEW row, NEW instr
    PROVE  LogFits(OnList(e, Observed, l, row, instr))
<1> DEFINE s == SelectTable(e, Observed)
           u == SelectLinkList(e, Observed, l, row)
           w == Recorded(u, instr)
<1>1. LogFits(s) /\ s.table = Observed
  BY TableOps
<1>2. l # Unselected /\ Observed \in {Unselected, Observed, Other}
  BY Bounds
<1> HIDE DEF s
<1>3. u = IF e.list = l THEN e ELSE [Recorded(s, <<"SelectLinkList", row>>) EXCEPT !.list = l]
  BY DEF SelectLinkList, s
<1> HIDE DEF u
<1>4. u = [instrs |-> u.instrs, table |-> Observed, list |-> l] /\ u.table = Observed /\ u.list = l
  <2>1. CASE e.list = l
    <3>1. u = e /\ e.table = Observed
      BY <2>1, <1>2, <1>3 DEF LogFits
    <3>2. e = [instrs |-> e.instrs, table |-> e.table, list |-> e.list]
      BY DEF LogFits
    <3> QED BY <3>1, <3>2, <2>1
  <2>2. CASE e.list # l
    <3>1. s = [instrs |-> s.instrs, table |-> Observed, list |-> s.list]
      BY <1>1 DEF LogFits
    <3> DEFINE v == Recorded(s, <<"SelectLinkList", row>>)
    <3>2. u = [v EXCEPT !.list = l]
      BY <2>2, <1>3
    <3>3. v = [instrs |-> v.instrs, table |-> Observed, list |-> s.list]
      BY <3>1, SMTT(40) DEF Recorded
    <3> HIDE DEF v
    <3> QED BY <3>2, <3>3
  <2> QED BY <2>1, <2>2
<1>5. w = [instrs |-> w.instrs, table |-> Observed, list |-> l] /\ w.table = Observed /\ w.list = l
  BY <1>4 DEF Recorded
<1> HIDE DEF w
<1>6. LogFits(w)
  BY <1>2, <1>5 DEF LogFits
<1> QED BY <1>6 DEF w, u, OnList

LEMMA ResetFits ==
    ASSUME NEW e, LogFits(e)
    PROVE  LogFits(ResetSelection(e))
<1> DEFINE u == ResetSelection(e)
           v == [e EXCEPT !.table = Unselected]
<1>1. e = [instrs |-> e.instrs, table |-> e.table, list |-> e.list]
  BY DEF LogFits
<1>2. v = [instrs |-> e.instrs, table |-> Unselected, list |-> e.list]
  BY <1>1
<1>3. u = [v EXCEPT !.list = Unselected]
  BY DEF ResetSelection
<1> HIDE DEF u, v
<1>4. u = [instrs |-> u.instrs, table |-> Unselected, list |-> Unselected] /\ u.table = Unselected /\ u.list = Unselected
  BY <1>2, <1>3
<1>5. LogFits(u)
  BY <1>4 DEF LogFits
<1> QED BY <1>5 DEF u

-----------------------------------------------------------------------------
(* The rows and the lists                                                  *)

\* A row can be added while operations are left, and is the least that was never there.
LEMMA RowIsFresh ==
    ASSUME IndInv, ops < MaxOps
    PROVE  FreshRow \in RowIds /\ FreshRow \notin ToSet(rows) /\ FreshRow <= StartRows + ops + 1
<1> DEFINE used == ToSet(rows) \cup ToSet(before.rows)
           n == StartRows + ops + 1
           left == RowIds \ used
<1>1. rows \in Seq(RowIds) /\ ops \in Nat /\ \A k \in 1..Len(rows) : rows[k] <= StartRows + ops
  BY DEF IndInv, RowsFit
<1>2. n \in RowIds
  BY <1>1, Bounds DEF RowIds
<1>3. n \notin ToSet(rows)
  <2>1. \A k \in DOMAIN rows : rows[k] \in RowIds /\ rows[k] <= StartRows + ops
    BY <1>1
  <2> QED BY <2>1, <1>1, Bounds DEF ToSet
<1>4. n \notin ToSet(before.rows)
  <2>1. before.rows = [i \in 1..StartRows |-> i]
    BY DEF IndInv
  <2> QED BY <2>1, <1>1, Bounds DEF ToSet
<1>5. left \in SUBSET Nat /\ n \in left
  BY <1>2, <1>3, <1>4, Bounds
<1>6. PICK m \in left : \A j \in left : m <= j
  BY <1>5, LeastNatural
<1>7. FreshRow = CHOOSE i \in left : \A j \in left : i <= j
  BY DEF FreshRow
<1> HIDE DEF left
<1>8. FreshRow \in left /\ \A j \in left : FreshRow <= j
  BY <1>6, <1>7
<1> QED BY <1>5, <1>8 DEF left

LEMMA LinkIsFresh ==
    ASSUME IndInv
    PROVE  FreshLink \in Nat
<1>1. ops \in Nat
  BY DEF IndInv
<1>2. StartRows * StartLinks \in Nat
  BY Bounds
<1> QED BY <1>1, <1>2 DEF FreshLink

\* The last row takes the place of another, which goes.
LEMMA RowErased ==
    ASSUME NEW r, NEW n \in Nat, RowsFit(r, n), NEW i \in Positions(r)
    PROVE  RowsFit(IF i = Len(r) - 1 THEN Front(r) ELSE [Front(r) EXCEPT ![i + 1] = Last(r)], n)
<1> DEFINE m == Len(r)
           f == Front(r)
           g == i + 1
           t == IF i = m - 1 THEN f ELSE [f EXCEPT ![g] = Last(r)]
<1>1. /\ r \in Seq(RowIds) /\ m \in Nat /\ m <= MaxRows /\ \A k \in 1..m : r[k] \in RowIds /\ r[k] <= n
      /\ \A a, b \in 1..m : r[a] = r[b] => a = b
  BY DEF RowsFit, IsInjective
<1>2. i \in Nat /\ i < m /\ g \in 1..m /\ g \in Nat /\ m - 1 \in Nat
  BY <1>1 DEF Positions
<1>3. f \in Seq(RowIds) /\ Len(f) = m - 1 /\ \A k \in 1..(m - 1) : f[k] = r[k]
  <2>1. 1 \in Int /\ m - 1 \in Int /\ \A k \in 1..(m - 1) : r[k] \in RowIds
    BY <1>1, <1>2
  <2>2. f = SubSeq(r, 1, m - 1)
    BY DEF Front
  <2>3. /\ SubSeq(r, 1, m - 1) \in Seq(RowIds) /\ Len(SubSeq(r, 1, m - 1)) = m - 1
        /\ \A k \in 1..(m - 1) : SubSeq(r, 1, m - 1)[k] = r[k]
    <3> DEFINE h == m - 1
    <3>1. h \in Nat /\ 1 \in Int /\ h - 1 + 1 = h /\ (1 <= h \/ h = 0) /\ \A k \in 1..h : r[k] \in RowIds
      <4>1. h \in Nat
        BY <1>2
      <4>2. \A k \in 1..h : k \in 1..m
        BY <1>1
      <4>3. \A k \in 1..h : r[k] \in RowIds
        BY <4>2, <1>1
      <4> HIDE DEF h
      <4> QED BY <4>1, <4>3
    <3> HIDE DEF h
    <3>2. /\ SubSeq(r, 1, h) \in Seq(RowIds)
          /\ Len(SubSeq(r, 1, h)) = IF 1 <= h THEN h - 1 + 1 ELSE 0
          /\ \A k \in 1..(h - 1 + 1) : SubSeq(r, 1, h)[k] = r[1 + k - 1]
      BY <3>1, SubSeqProperties
    <3>3. \A k \in 1..h : 1 + k - 1 = k
      BY <3>1
    <3> QED BY <3>1, <3>2, <3>3 DEF h
  <2> QED BY <2>2, <2>3
<1>4. i # m - 1 => g \in 1..(m - 1)
  BY <1>1, <1>2
<1>5. Last(r) = r[m]
  BY DEF Last
<1>6. i = m - 1 <=> g = m
  BY <1>1, <1>2
<1> HIDE DEF f, g
<1>7. t \in Seq(RowIds) /\ Len(t) = m - 1 /\ \A k \in 1..(m - 1) : t[k] = IF k = g THEN r[m] ELSE r[k]
  <2>1. CASE i = m - 1
    <3>1. t = f /\ g \notin 1..(m - 1)
      BY <2>1, <1>1, <1>6
    <3> QED BY <3>1, <1>3
  <2>2. CASE i # m - 1
    <3>1. t = [f EXCEPT ![g] = r[m]] /\ r[m] \in RowIds
      BY <2>2, <1>1, <1>2, <1>5
    <3>2. t \in Seq(RowIds) /\ Len(t) = m - 1
      BY <3>1, <1>3, <1>4, <2>2
    <3>3. \A k \in 1..(m - 1) : t[k] = IF k = g THEN r[m] ELSE r[k]
      BY <3>1, <1>3, <1>4, <2>2
    <3> QED BY <3>2, <3>3
  <2> QED BY <2>1, <2>2
<1> HIDE DEF t
<1>8. \A a, b \in 1..(m - 1) : t[a] = t[b] => a = b
  BY <1>1, <1>2, <1>7
<1>9. \A k \in 1..(m - 1) : t[k] <= n
  BY <1>1, <1>2, <1>7
<1>10. IsInjective(t) /\ m - 1 <= MaxRows
  BY <1>1, <1>7, <1>8, Bounds DEF IsInjective
<1>11. RowsFit(t, n)
  BY <1>7, <1>9, <1>10 DEF RowsFit
<1> QED BY <1>11 DEF t, f, g

LEMMA RowsSwapped ==
    ASSUME NEW r, NEW n \in Nat, RowsFit(r, n), NEW i \in Positions(r), NEW j \in Positions(r), i < j
    PROVE  RowsFit([r EXCEPT ![i + 1] = At(r, j), ![j + 1] = At(r, i)], n)
<1> DEFINE m == Len(r)
           g == i + 1
           h == j + 1
           t == [r EXCEPT ![g] = r[h], ![h] = r[g]]
<1>1. /\ r \in Seq(RowIds) /\ m \in Nat /\ m <= MaxRows /\ \A k \in 1..m : r[k] \in RowIds /\ r[k] <= n
      /\ \A a, b \in 1..m : r[a] = r[b] => a = b
  BY DEF RowsFit, IsInjective
<1>2. g \in 1..m /\ h \in 1..m /\ g # h
  BY <1>1 DEF Positions
<1> HIDE DEF g, h
<1>3. t \in Seq(RowIds) /\ Len(t) = m /\ \A k \in 1..m : t[k] = IF k = h THEN r[g] ELSE IF k = g THEN r[h] ELSE r[k]
  BY <1>1, <1>2
<1> HIDE DEF t
<1>4. \A a, b \in 1..m : t[a] = t[b] => a = b
  BY <1>1, <1>2, <1>3
<1>5. \A k \in 1..m : t[k] <= n
  BY <1>1, <1>2, <1>3
<1>6. IsInjective(t)
  BY <1>3, <1>4 DEF IsInjective
<1>7. RowsFit(t, n)
  BY <1>1, <1>3, <1>5, <1>6 DEF RowsFit
<1> QED BY <1>7 DEF t, g, h, At

\* Rows stay below a bound that grows.
LEMMA MoreOps ==
    ASSUME NEW r, NEW n \in Nat, RowsFit(r, n)
    PROVE  RowsFit(r, n + 1)
<1>1. \A k \in 1..Len(r) : r[k] \in Nat /\ r[k] <= n
  <2>1. r \in Seq(RowIds) /\ \A k \in 1..Len(r) : r[k] <= n
    BY DEF RowsFit
  <2>2. \A k \in 1..Len(r) : r[k] \in RowIds
    BY <2>1
  <2> QED BY <2>1, <2>2, Bounds
<1>2. \A k \in 1..Len(r) : r[k] <= n + 1
  BY <1>1
<1> QED BY <1>2 DEF RowsFit

LEMMA LinksChanged ==
    ASSUME NEW ls, LinksFit(ls), NEW r \in RowIds, NEW s \in Seq(Nat), Len(s) <= MaxLinks
    PROVE  LinksFit([ls EXCEPT ![r] = s])
<1> DEFINE t == [ls EXCEPT ![r] = s]
<1>1. DOMAIN t = RowIds /\ \A i \in RowIds : t[i] = IF i = r THEN s ELSE ls[i]
  BY DEF LinksFit
<1> HIDE DEF t
<1>2. \A i \in RowIds : t[i] \in Seq(Nat) /\ Len(t[i]) <= MaxLinks
  BY <1>1 DEF LinksFit
<1>3. LinksFit(t)
  BY <1>1, <1>2 DEF LinksFit
<1> QED BY <1>3 DEF t

-----------------------------------------------------------------------------
(* The operations                                                          *)

\* An operation on the rows; the observed table is the one selected after it.
LEMMA RowStep ==
    ASSUME IndInv, Counted, LogFits(enc'), RowsFit(rows', StartRows + ops + 1), LinksFit(links'),
           valued' \subseteq RowIds
    PROVE  IndInv'
<1>1. ops' = ops + 1 /\ ops' \in 0..MaxOps /\ writer' = writer /\ watched' = watched /\ before' = before
  BY Bounds DEF IndInv, Counted
<1>2. StartRows + ops' = StartRows + ops + 1
  BY <1>1, Bounds DEF IndInv
<1>3. RowsFit(rows', StartRows + ops')
  BY <1>2
<1> QED BY <1>1, <1>3 DEF IndInv, RowsFit, LinksFit, LogFits, RowIds

LEMMA IndFacts ==
    ASSUME IndInv
    PROVE  /\ StartRows + ops \in Nat /\ RowsFit(rows, StartRows + ops) /\ RowsFit(rows, StartRows + ops + 1)
           /\ LinksFit(links) /\ LogFits(enc) /\ valued \subseteq RowIds
           /\ rows \in Seq(RowIds) /\ \A i \in Positions(rows) : At(rows, i) \in RowIds
<1>1. StartRows + ops \in Nat /\ RowsFit(rows, StartRows + ops)
  BY Bounds DEF IndInv
<1>2. RowsFit(rows, StartRows + ops + 1)
  BY <1>1, MoreOps
<1>3. rows \in Seq(RowIds)
  BY <1>1 DEF RowsFit
<1>4. \A i \in Positions(rows) : i + 1 \in 1..Len(rows)
  BY <1>3 DEF Positions
<1>5. \A i \in Positions(rows) : At(rows, i) \in RowIds
  BY <1>3, <1>4 DEF At
<1> QED BY <1>1, <1>2, <1>3, <1>5 DEF IndInv

LEMMA AddRowStep ==
    ASSUME IndInv, AddRow
    PROVE  IndInv'
<1> DEFINE n == StartRows + ops + 1
           f == FreshRow
<1>1. Counted /\ enc' = OnTable(enc, Observed, <<"InsertEmptyRows", Len(rows), 1, Len(rows), FALSE>>)
  BY DEF AddRow, RowOp
<1>2. ops < MaxOps
  BY <1>1 DEF Counted
<1>3. f \in RowIds /\ f \notin ToSet(rows) /\ f <= n
  BY <1>2, RowIsFresh
<1>4. rows' = Append(rows, f) /\ links' = [links EXCEPT ![f] = <<>>] /\ valued' = valued /\ Len(rows) < MaxRows
  BY DEF AddRow
<1> HIDE DEF f
<1>5. RowsFit(rows, n) /\ LinksFit(links) /\ LogFits(enc) /\ valued \subseteq RowIds
  BY IndFacts
<1>6. RowsFit(rows', n)
  <2> DEFINE t == Append(rows, f)
             m == Len(rows)
  <2>1. rows \in Seq(RowIds) /\ m \in Nat /\ \A a, b \in 1..m : rows[a] = rows[b] => a = b
    BY <1>5 DEF RowsFit, IsInjective
  <2>2. t \in Seq(RowIds) /\ Len(t) = m + 1 /\ \A k \in 1..(m + 1) : t[k] = IF k = m + 1 THEN f ELSE rows[k]
    BY <2>1, <1>3
  <2>3. \A k \in 1..m : rows[k] # f /\ rows[k] <= n
    BY <2>1, <1>3, <1>5 DEF ToSet, RowsFit
  <2> HIDE DEF t
  <2>4. \A k \in 1..(m + 1) : t[k] <= n
    BY <2>1, <2>2, <2>3, <1>3
  <2>5. \A a, b \in 1..(m + 1) : t[a] = t[b] => a = b
    BY <2>1, <2>2, <2>3
  <2>6. IsInjective(t) /\ m + 1 <= MaxRows
    <3>1. DOMAIN t = 1..(m + 1)
      BY <2>2
    <3> QED BY <3>1, <2>1, <2>5, <1>4, Bounds DEF IsInjective
  <2>7. RowsFit(t, n)
    BY <2>2, <2>4, <2>6 DEF RowsFit
  <2> QED BY <2>7, <1>4 DEF t
<1>7. LinksFit(links')
  <2>1. <<>> \in Seq(Nat) /\ Len(<<>>) <= MaxLinks
    BY Bounds
  <2> QED BY <2>1, <1>3, <1>4, <1>5, LinksChanged
<1>8. LogFits(enc')
  BY <1>1, <1>5, TableOps
<1> QED BY <1>1, <1>4, <1>5, <1>6, <1>7, <1>8, RowStep

LEMMA SetValueStep ==
    ASSUME IndInv, NEW i, SetValue(i)
    PROVE  IndInv'
<1>1. /\ Counted /\ enc' = OnTable(enc, Observed, <<"Set", i, Value>>) /\ i \in Positions(rows)
      /\ valued' = valued \cup {At(rows, i)} /\ rows' = rows /\ links' = links
  BY DEF SetValue, RowOp
<1>2. /\ RowsFit(rows, StartRows + ops + 1) /\ LinksFit(links) /\ LogFits(enc)
      /\ valued \subseteq RowIds /\ At(rows, i) \in RowIds
  BY <1>1, IndFacts
<1>3. LogFits(enc')
  BY <1>1, <1>2, TableOps
<1>4. valued' \subseteq RowIds
  BY <1>1, <1>2
<1> QED BY <1>1, <1>2, <1>3, <1>4, RowStep

LEMMA EraseRowStep ==
    ASSUME IndInv, NEW i, EraseRow(i)
    PROVE  IndInv'
<1> DEFINE n == StartRows + ops + 1
<1>1. /\ Counted /\ enc' = OnTable(enc, Observed, <<"EraseRows", i, 1, Len(rows), TRUE>>) /\ i \in Positions(rows)
      /\ rows' = IF i = Len(rows) - 1 THEN Front(rows) ELSE [Front(rows) EXCEPT ![i + 1] = Last(rows)]
      /\ valued' = valued /\ links' = links
  BY DEF EraseRow, RowOp
<1>2. RowsFit(rows, n) /\ LinksFit(links) /\ LogFits(enc) /\ valued \subseteq RowIds /\ n \in Nat
  BY IndFacts
<1> HIDE DEF n
<1>3. LogFits(enc')
  BY <1>1, <1>2, TableOps
<1>4. RowsFit(rows', n)
  BY <1>1, <1>2, RowErased
<1> QED BY <1>1, <1>2, <1>3, <1>4, RowStep DEF n

LEMMA SwapRowsStep ==
    ASSUME IndInv, NEW i, NEW j, SwapRows(i, j)
    PROVE  IndInv'
<1> DEFINE n == StartRows + ops + 1
<1>1. /\ Counted /\ enc' = OnTable(enc, Observed, <<"SwapRows", i, j>>)
      /\ i \in Positions(rows) /\ j \in Positions(rows) /\ i < j
      /\ rows' = [rows EXCEPT ![i + 1] = At(rows, j), ![j + 1] = At(rows, i)]
      /\ valued' = valued /\ links' = links
  BY DEF SwapRows, RowOp
<1>2. RowsFit(rows, n) /\ LinksFit(links) /\ LogFits(enc) /\ valued \subseteq RowIds /\ n \in Nat
  BY IndFacts
<1> HIDE DEF n
<1>3. LogFits(enc')
  BY <1>1, <1>2, TableOps
<1>4. RowsFit(rows', n)
  BY <1>1, <1>2, RowsSwapped
<1> QED BY <1>1, <1>2, <1>3, <1>4, RowStep DEF n

LEMMA ClearTableStep ==
    ASSUME IndInv, ClearTable
    PROVE  IndInv'
<1> DEFINE n == StartRows + ops + 1
<1>1. /\ Counted /\ enc' = OnTable(enc, Observed, <<"ClearTable", Len(rows)>>)
      /\ rows' = <<>> /\ valued' = valued /\ links' = links
  BY DEF ClearTable, RowOp
<1>2. LinksFit(links) /\ LogFits(enc) /\ valued \subseteq RowIds
  BY IndFacts
<1>3. LogFits(enc')
  BY <1>1, <1>2, TableOps
<1>4. RowsFit(<<>>, n)
  BY Bounds DEF RowsFit, IsInjective
<1> QED BY <1>1, <1>2, <1>3, <1>4, RowStep

LEMMA SetElsewhereStep ==
    ASSUME IndInv, SetElsewhere
    PROVE  IndInv'
<1>1. /\ Counted /\ enc' = OnTable(enc, Other, <<"Set", 0, Value>>)
      /\ rows' = rows /\ valued' = valued /\ links' = links
  BY DEF SetElsewhere
<1>2. RowsFit(rows, StartRows + ops + 1) /\ LinksFit(links) /\ LogFits(enc) /\ valued \subseteq RowIds
  BY IndFacts
<1>3. LogFits(enc')
  BY <1>1, <1>2, TableOps
<1> QED BY <1>1, <1>2, <1>3, RowStep

\* An operation on a list, whatever becomes of its entries
LEMMA ListStep ==
    ASSUME IndInv, NEW i \in Positions(rows), NEW s \in Seq(Nat), Len(s) <= MaxLinks, NEW instr,
           ListOp(i, s, instr)
    PROVE  IndInv'
<1> DEFINE r == At(rows, i)
<1>1. /\ Counted /\ enc' = OnList(enc, Observed, r, i, instr)
      /\ rows' = rows /\ valued' = valued /\ links' = [links EXCEPT ![r] = s]
  BY DEF ListOp
<1>2. /\ RowsFit(rows, StartRows + ops + 1) /\ LinksFit(links) /\ LogFits(enc)
      /\ valued \subseteq RowIds /\ r \in RowIds
  BY IndFacts
<1> HIDE DEF r
<1>3. LogFits(enc')
  BY <1>1, <1>2, ListOps1
<1>4. LinksFit(links')
  BY <1>1, <1>2, LinksChanged
<1> QED BY <1>1, <1>2, <1>3, <1>4, RowStep

\* Whichever operation on a list, its entries stay within their bound.
LEMMA ListOpsStep ==
    ASSUME IndInv, NEW i \in Positions(rows), ListOps(i)
    PROVE  IndInv'
<1> DEFINE s == links[At(rows, i)]
           n == Len(s)
           f == FreshLink
<1>1. s \in Seq(Nat) /\ n <= MaxLinks /\ n \in Nat /\ f \in Nat
  BY IndFacts, LinkIsFresh DEF LinksFit
<1>2. \A p \in 1..n : s[p] \in Nat
  BY <1>1
<1>3. \A k \in Positions(s) : k + 1 \in 1..n /\ k \in Nat
  BY <1>1 DEF Positions
<1>d. \/ \E k \in 0..n : n < MaxLinks /\ ListOp(i, InsertAt(s, k + 1, f), <<"LinkListInsert", k, n>>)
      \/ \E k \in Positions(s) : ListOp(i, [s EXCEPT ![k + 1] = f], <<"LinkListSet", k, n>>)
      \/ \E k \in Positions(s) : \E name \in {"LinkListErase", "LinkListNullify"} :
            ListOp(i, RemoveAt(s, k + 1), <<name, k, n>>)
      \/ \E k, to \in Positions(s) :
            ListOp(i, InsertAt(RemoveAt(s, k + 1), to + 1, At(s, k)), <<"LinkListMove", k, to>>)
      \/ \E k, to \in Positions(s) :
            ListOp(i, [s EXCEPT ![k + 1] = At(s, to), ![to + 1] = At(s, k)], <<"LinkListSwap", k, to>>)
      \/ ListOp(i, <<>>, <<"LinkListClear", n>>)
  BY DEF ListOps
<1> HIDE DEF s, f
<1>4. ASSUME NEW k \in 0..n, n < MaxLinks, ListOp(i, InsertAt(s, k + 1, f), <<"LinkListInsert", k, n>>)
      PROVE  IndInv'
  <2> DEFINE p == k + 1
             t == InsertAt(s, p, f)
  <2>1. p \in 1..(n + 1)
    BY <1>1
  <2> HIDE DEF p
  <2>2. InsertAt(s, p, f) \in Seq(Nat) /\ Len(InsertAt(s, p, f)) = n + 1
    BY <2>1, <1>1, InsertAtFacts
  <2>3. Len(InsertAt(s, p, f)) <= MaxLinks
    BY <2>2, <1>1, <1>4, Bounds
  <2>4. ListOp(i, InsertAt(s, p, f), <<"LinkListInsert", k, n>>)
    BY <1>4 DEF p
  <2> QED BY <2>2, <2>3, <2>4, ListStep
<1>5. ASSUME NEW k \in Positions(s), ListOp(i, [s EXCEPT ![k + 1] = f], <<"LinkListSet", k, n>>)
      PROVE  IndInv'
  <2> DEFINE t == [s EXCEPT ![k + 1] = f]
  <2>1. t \in Seq(Nat) /\ Len(t) = n
    BY <1>1, <1>3
  <2> QED BY <2>1, <1>1, <1>5, ListStep
<1>6. ASSUME NEW k \in Positions(s), NEW name \in {"LinkListErase", "LinkListNullify"},
             ListOp(i, RemoveAt(s, k + 1), <<name, k, n>>)
      PROVE  IndInv'
  <2> DEFINE p == k + 1
  <2>1. p \in 1..n
    BY <1>3
  <2> HIDE DEF p
  <2>2. RemoveAt(s, p) \in Seq(Nat) /\ Len(RemoveAt(s, p)) = n - 1
    BY <2>1, <1>1, RemoveAtFacts
  <2>3. Len(RemoveAt(s, p)) <= MaxLinks
    BY <2>2, <1>1, Bounds
  <2>4. ListOp(i, RemoveAt(s, p), <<name, k, n>>)
    BY <1>6 DEF p
  <2> QED BY <2>2, <2>3, <2>4, ListStep
<1>7. ASSUME NEW k \in Positions(s), NEW to \in Positions(s),
             ListOp(i, InsertAt(RemoveAt(s, k + 1), to + 1, At(s, k)), <<"LinkListMove", k, to>>)
      PROVE  IndInv'
  <2> DEFINE p == k + 1
             q == to + 1
             e == At(s, k)
             u == RemoveAt(s, p)
  <2>1. p \in 1..n /\ q \in 1..n /\ e \in Nat
    BY <1>2, <1>3 DEF At
  <2> HIDE DEF p, q, e
  <2>2. u \in Seq(Nat) /\ Len(u) = n - 1
    <3>1. RemoveAt(s, p) \in Seq(Nat) /\ Len(RemoveAt(s, p)) = n - 1
      BY <2>1, <1>1, RemoveAtFacts
    <3> QED BY <3>1
  <2> HIDE DEF u
  <2>3. q \in 1..(Len(u) + 1)
    BY <2>1, <2>2, <1>1
  <2>4. InsertAt(u, q, e) \in Seq(Nat) /\ Len(InsertAt(u, q, e)) = Len(u) + 1
    <3>1. u \in Seq(Nat) /\ e \in Nat
      BY <2>1, <2>2
    <3> QED BY <3>1, <2>3, InsertAtFacts
  <2>5. Len(InsertAt(u, q, e)) <= MaxLinks
    BY <2>2, <2>4, <1>1
  <2>6. ListOp(i, InsertAt(u, q, e), <<"LinkListMove", k, to>>)
    BY <1>7 DEF p, q, e, u
  <2> QED BY <2>4, <2>5, <2>6, ListStep
<1>8. ASSUME NEW k \in Positions(s), NEW to \in Positions(s),
             ListOp(i, [s EXCEPT ![k + 1] = At(s, to), ![to + 1] = At(s, k)], <<"LinkListSwap", k, to>>)
      PROVE  IndInv'
  <2> DEFINE p == k + 1
             q == to + 1
             a == At(s, to)
             b == At(s, k)
             t == [s EXCEPT ![p] = a, ![q] = b]
  <2>1. p \in 1..n /\ q \in 1..n /\ a \in Nat /\ b \in Nat
    BY <1>2, <1>3 DEF At
  <2> HIDE DEF p, q, a, b
  <2>2. t \in Seq(Nat) /\ Len(t) = n
    BY <2>1, <1>1
  <2>3. ListOp(i, t, <<"LinkListSwap", k, to>>)
    BY <1>8 DEF p, q, a, b, t
  <2> HIDE DEF t
  <2> QED BY <2>2, <2>3, <1>1, ListStep
<1>9. ASSUME ListOp(i, <<>>, <<"LinkListClear", n>>) PROVE IndInv'
  <2>1. <<>> \in Seq(Nat) /\ Len(<<>>) <= MaxLinks
    BY Bounds
  <2> QED BY <2>1, <1>9, ListStep
<1> QED BY <1>d, <1>4, <1>5, <1>6, <1>7, <1>8, <1>9

LEMMA NextTransactionStep ==
    ASSUME IndInv, NextTransaction
    PROVE  IndInv'
<1>1. /\ enc' = ResetSelection(enc) /\ writer' = writer /\ watched' = watched /\ rows' = rows
      /\ links' = links /\ valued' = valued /\ before' = before /\ ops' = ops
  BY DEF NextTransaction
<1>2. LogFits(ResetSelection(enc))
  BY ResetFits DEF IndInv
<1> QED BY <1>1, <1>2 DEF IndInv, RowsFit, LinksFit, LogFits, RowIds

\* A step that only tells the observers, or no step
LEMMA ToldStep ==
    ASSUME IndInv, UNCHANGED <<writer, watched, rows, links, valued, before, enc, ops>>
    PROVE  IndInv'
BY DEF IndInv, RowsFit, LinksFit, LogFits, RowIds

-----------------------------------------------------------------------------
(* The invariant                                                           *)

LEMMA InitInv ==
    ASSUME Init
    PROVE  IndInv
<1> DEFINE entries(i) == [k \in 1..StartLinks |-> (i - 1) * StartLinks + k]
<1>1. /\ writer \in Writers /\ watched \in Watchings /\ rows = [i \in 1..StartRows |-> i]
      /\ links = [i \in RowIds |-> IF i \in Linked THEN entries(i) ELSE <<>>]
      /\ before = [rows |-> rows, links |-> links] /\ valued = {} /\ enc = EmptyLog /\ ops = 0
  BY DEF Init
<1>2. ops \in 0..MaxOps /\ StartRows + ops = StartRows
  BY <1>1, Bounds
<1>3. RowsFit(rows, StartRows)
  <2>1. 1..StartRows \subseteq RowIds /\ Len(rows) = StartRows /\ rows \in Seq(RowIds)
    <3>1. \A i \in 1..StartRows : i \in RowIds
      BY Bounds DEF RowIds
    <3> QED BY <3>1, <1>1, Bounds
  <2>2. \A k \in 1..StartRows : rows[k] = k
    BY <1>1
  <2> QED BY <2>1, <2>2, <1>1, Bounds DEF RowsFit, IsInjective
<1>4. ASSUME NEW i \in RowIds PROVE links[i] \in Seq(Nat) /\ Len(links[i]) <= MaxLinks
  <2>1. entries(i) \in Seq(Nat) /\ Len(entries(i)) = StartLinks
    <3>1. (i - 1) * StartLinks \in Nat
      <4>1. i - 1 \in Nat /\ StartLinks \in Nat
        BY Bounds DEF RowIds
      <4> QED BY <4>1
    <3> DEFINE c == (i - 1) * StartLinks
    <3> HIDE DEF c
    <3>2. [k \in 1..StartLinks |-> c + k] \in Seq(Nat) /\ Len([k \in 1..StartLinks |-> c + k]) = StartLinks
      BY <3>1, Bounds DEF c
    <3> QED BY <3>2 DEF c
  <2> HIDE DEF entries
  <2>2. links[i] = entries(i) \/ links[i] = <<>>
    BY <1>1
  <2>3. Len(<<>>) <= MaxLinks /\ <<>> \in Seq(Nat)
    BY Bounds
  <2> QED BY <2>1, <2>2, <2>3, Bounds
<1>5. LinksFit(links)
  BY <1>1, <1>4 DEF LinksFit
<1>6. LogFits(enc)
  BY <1>1 DEF EmptyLog, LogFits
<1> QED BY <1>1, <1>2, <1>3, <1>5, <1>6 DEF IndInv

LEMMA NextInv ==
    ASSUME IndInv, [Next]_vars
    PROVE  IndInv'
<1>1. CASE UNCHANGED vars
  BY <1>1, ToldStep DEF vars
<1>2. CASE Advance
  BY <1>2, ToldStep DEF Advance
<1>3. CASE Rollback
  BY <1>3, ToldStep DEF Rollback
<1> QED BY <1>1, <1>2, <1>3, AddRowStep, ClearTableStep, SetElsewhereStep, NextTransactionStep,
           SetValueStep, EraseRowStep, SwapRowsStep, ListOpsStep DEF Next

\* The rows stay distinct however rows are added, erased, swapped and cleared, the lists
\* stay within their bound, and the encoder never holds a list of another table selected.
THEOREM TypeCorrect == Spec => []TypeOK
<1>1. Init => IndInv
  BY InitInv
<1>2. IndInv /\ [Next]_vars => IndInv'
  BY NextInv
<1>3. IndInv => TypeOK
  BY DEF IndInv, RowsFit, LinksFit, LogFits, TypeOK
<1> QED BY <1>1, <1>2, <1>3, PTL DEF Spec

-----------------------------------------------------------------------------
(* Builders                                                                *)

Pairs == Nat \X Nat
Maps == {f \in UNION {[S -> Nat] : S \in SUBSET Nat} : IsFiniteSet(DOMAIN f)}

\* What a builder can be: its sets are sets of ranges, whose indexes and moves are those
\* of some list or table, and its mapping is finite.
Builders == [del : Sets, ins : Sets, mod : Sets, moves : Seq(Pairs), map : Maps]

LEMMA MapFacts ==
    ASSUME NEW f
    PROVE  f \in Maps <=> DOMAIN f \in SUBSET Nat /\ IsFiniteSet(DOMAIN f) /\ f \in [DOMAIN f -> Nat]
BY DEF Maps

LEMMA WithFacts ==
    ASSUME NEW f \in Maps, NEW k \in Nat, NEW v \in Nat
    PROVE  With(f, k, v) \in Maps /\ DOMAIN With(f, k, v) = DOMAIN f \cup {k}
<1> DEFINE g == With(f, k, v)
<1>1. DOMAIN f \in SUBSET Nat /\ IsFiniteSet(DOMAIN f) /\ f \in [DOMAIN f -> Nat]
  BY MapFacts
<1>2. DOMAIN g = DOMAIN f \cup {k} /\ \A i \in DOMAIN g : g[i] = IF i = k THEN v ELSE f[i]
  BY DEF With
<1>3. g \in [DOMAIN g -> Nat]
  <2>1. g = [i \in DOMAIN f \cup {k} |-> IF i = k THEN v ELSE f[i]]
    BY DEF With
  <2>2. \A i \in DOMAIN f \cup {k} : (IF i = k THEN v ELSE f[i]) \in Nat
    BY <1>1
  <2> HIDE DEF g
  <2> QED BY <2>1, <2>2
<1> HIDE DEF g
<1>4. IsFiniteSet(DOMAIN f \cup {k})
  BY <1>1, FS_AddElement
<1>5. DOMAIN g \in SUBSET Nat /\ IsFiniteSet(DOMAIN g)
  BY <1>1, <1>2, <1>4
<1>6. g \in Maps
  BY <1>3, <1>5, MapFacts
<1> QED BY <1>2, <1>6 DEF g

LEMMA WithoutFacts ==
    ASSUME NEW f \in Maps, NEW k
    PROVE  Without(f, k) \in Maps /\ DOMAIN Without(f, k) = DOMAIN f \ {k}
<1> DEFINE g == Without(f, k)
<1>1. DOMAIN f \in SUBSET Nat /\ IsFiniteSet(DOMAIN f) /\ f \in [DOMAIN f -> Nat]
  BY MapFacts
<1>2. DOMAIN g = DOMAIN f \ {k} /\ g \in [DOMAIN g -> Nat]
  <2>1. g = [i \in DOMAIN f \ {k} |-> f[i]]
    BY DEF Without
  <2>2. \A i \in DOMAIN f \ {k} : f[i] \in Nat
    BY <1>1
  <2> HIDE DEF g
  <2> QED BY <2>1, <2>2
<1> HIDE DEF g
<1>3. IsFiniteSet(DOMAIN f \ {k})
  BY <1>1, FS_RemoveElement
<1>4. DOMAIN g \in SUBSET Nat /\ IsFiniteSet(DOMAIN g)
  BY <1>1, <1>2, <1>3
<1>5. g \in Maps
  BY <1>2, <1>4, MapFacts
<1> QED BY <1>2, <1>5 DEF g

LEMMA BuilderParts ==
    ASSUME NEW c \in Builders
    PROVE  /\ c.del \in Sets /\ c.ins \in Sets /\ c.mod \in Sets /\ c.moves \in Seq(Pairs) /\ c.map \in Maps
           /\ c = [del |-> c.del, ins |-> c.ins, mod |-> c.mod, moves |-> c.moves, map |-> c.map]
           /\ DOMAIN c.moves = 1..Len(c.moves) /\ Len(c.moves) \in Nat
           /\ \A k \in 1..Len(c.moves) : c.moves[k] \in Pairs /\ c.moves[k][1] \in Nat /\ c.moves[k][2] \in Nat
<1>1. /\ c.del \in Sets /\ c.ins \in Sets /\ c.mod \in Sets /\ c.moves \in Seq(Pairs) /\ c.map \in Maps
      /\ c = [del |-> c.del, ins |-> c.ins, mod |-> c.mod, moves |-> c.moves, map |-> c.map]
  BY DEF Builders
<1> DEFINE m == c.moves
<1>2. m \in Seq(Pairs)
  BY <1>1
<1> HIDE DEF m
<1>3. /\ DOMAIN m = 1..Len(m) /\ Len(m) \in Nat
      /\ \A k \in 1..Len(m) : m[k] \in Pairs /\ m[k][1] \in Nat /\ m[k][2] \in Nat
  BY <1>2 DEF Pairs
<1> QED BY <1>1, <1>3 DEF m

LEMMA BuilderOf ==
    ASSUME NEW d \in Sets, NEW i \in Sets, NEW m \in Sets, NEW v \in Seq(Pairs), NEW p \in Maps
    PROVE  [del |-> d, ins |-> i, mod |-> m, moves |-> v, map |-> p] \in Builders
BY DEF Builders

LEMMA BuilderWith ==
    ASSUME NEW c \in Builders
    PROVE  /\ \A x \in Sets : [c EXCEPT !.del = x] \in Builders
           /\ \A x \in Sets : [c EXCEPT !.ins = x] \in Builders
           /\ \A x \in Sets : [c EXCEPT !.mod = x] \in Builders
           /\ \A x \in Seq(Pairs) : [c EXCEPT !.moves = x] \in Builders
           /\ \A x \in Maps : [c EXCEPT !.map = x] \in Builders
BY DEF Builders

LEMMA NoChangesFacts == NoChanges \in Builders
<1> DEFINE E == <<>>
<1>1. E \in Sets
  BY EmptySet
<1>2. E \in Seq(Pairs)
  OBVIOUS
<1>3. E \in Maps
  <2>1. DOMAIN E = {} /\ E \in [{} -> Nat]
    OBVIOUS
  <2>2. IsFiniteSet({}) /\ {} \in SUBSET Nat
    BY FS_EmptySet
  <2> HIDE DEF E
  <2> QED BY <2>1, <2>2, MapFacts
<1>4. NoChanges = [del |-> E, ins |-> E, mod |-> E, moves |-> E, map |-> E]
  BY DEF NoChanges
<1> HIDE DEF E
<1> QED BY <1>1, <1>2, <1>3, <1>4, BuilderOf

\* Pairs and their sequences
LEMMA PairOf ==
    ASSUME NEW a \in Nat, NEW b \in Nat
    PROVE  <<a, b>> \in Pairs
BY DEF Pairs

\* The entries of a sequence at some positions
LEMMA EntriesAtFacts ==
    ASSUME NEW S, NEW s \in Seq(S), NEW K \in SUBSET (1..Len(s))
    PROVE  EntriesAt(s, K) \in Seq(S)
<1> DEFINE k == InOrder(K)
           n == Len(k)
<1>1. Len(s) \in Nat /\ \A j \in 1..Len(s) : s[j] \in S
  OBVIOUS
<1>2. IsFiniteSet(K) /\ K \in SUBSET Nat
  <2> DEFINE m == Len(s)
             D == 1..m
  <2>1. m \in Nat /\ K \in SUBSET D /\ D \in SUBSET Nat
    BY <1>1
  <2> HIDE DEF m
  <2>2. IsFiniteSet(D)
    BY <2>1, CardinalityOfFirst
  <2> HIDE DEF D
  <2> QED BY <2>1, <2>2, FS_Subset
<1>3. k \in Increasing /\ Entries(k) = K
  BY <1>2, InOrderFacts
<1>4. EntriesAt(s, K) = [j \in DOMAIN k |-> s[k[j]]]
  BY DEF EntriesAt
<1> HIDE DEF k
<1>5. k \in Seq(Nat) /\ n \in Nat /\ DOMAIN k = 1..n /\ \A j \in 1..n : k[j] \in K
  BY <1>3 DEF Increasing, Entries
<1>6. \A j \in 1..n : s[k[j]] \in S
  BY <1>5, <1>1
<1> QED BY <1>4, <1>5, <1>6

-----------------------------------------------------------------------------
(* Recording                                                               *)

\* The operations of IndexSet that recording uses keep sets of ranges
LEMMA SetOps ==
    ASSUME NEW R \in Sets, NEW i \in Nat
    PROVE  /\ Add(R, i) \in Sets /\ EraseAt(R, i) \in Sets /\ Remove1(R, i) \in Sets
           /\ InsertAtIndex(R, i, 1) \in Sets /\ ShiftForInsertAt(R, i, 1) \in Sets
           /\ AddShifted(R, i).set \in Sets /\ AddShifted(R, i).at \in Nat
           /\ Unshift(R, i) \in Nat /\ Shift(R, i) \in Nat
           /\ EraseOrUnshift(R, i).set \in Sets
           /\ EraseOrUnshift(R, i).at = NPosIndex \/ EraseOrUnshift(R, i).at \in Nat
           /\ Has(R, i) = (i \in Indexes(R))
<1>1. Add(R, i) \in Sets
  BY AddAdds
<1>2. EraseAt(R, i) \in Sets
  BY EraseAtErases
<1>3. Remove1(R, i) \in Sets
  <2> DEFINE j == i + 1
  <2>1. j \in Nat /\ i < j
    OBVIOUS
  <2>2. Remove1(R, i) = RemoveRange(R, i, j)
    BY DEF Remove1
  <2> HIDE DEF j
  <2> QED BY <2>1, <2>2, RemoveRangeRemoves
<1>4. InsertAtIndex(R, i, 1) \in Sets /\ ShiftForInsertAt(R, i, 1) \in Sets
  <2> DEFINE n == 1
  <2>1. n \in Nat \ {0} /\ n \in Nat
    OBVIOUS
  <2> HIDE DEF n
  <2>2. InsertAtIndex(R, i, n) \in Sets /\ ShiftForInsertAt(R, i, n) \in Sets
    BY <2>1, InsertAtIndexInserts, ShiftForInsertAtShifts
  <2> QED BY <2>2 DEF n
<1>5. AddShifted(R, i).set \in Sets /\ AddShifted(R, i).at \in Nat
  BY AddShiftedAdds
<1>6. Unshift(R, i) \in Nat
  BY CountIsBelow
<1>7. Shift(R, i) \in Nat
  BY ShiftShifts
<1>8. EraseOrUnshift(R, i).set \in Sets
  BY EraseOrUnshiftUnshifts, <1>2
<1>9. EraseOrUnshift(R, i).at = NPosIndex \/ EraseOrUnshift(R, i).at \in Nat
  BY EraseOrUnshiftUnshifts
<1>10. Has(R, i) = (i \in Indexes(R))
  BY HasIsMember
<1> QED BY <1>1, <1>2, <1>3, <1>4, <1>5, <1>6, <1>7, <1>8, <1>9, <1>10

LEMMA ModifyKeeps ==
    ASSUME NEW c \in Builders, NEW i \in Nat
    PROVE  Modify(c, i) \in Builders
<1>1. Add(c.mod, i) \in Sets
  BY BuilderParts, SetOps
<1>2. Modify(c, i) = [c EXCEPT !.mod = Add(c.mod, i)]
  BY DEF Modify
<1> QED BY <1>1, <1>2, BuilderWith

\* A finite set of images
LEMMA ImageFinite ==
    ASSUME NEW S, IsFiniteSet(S), NEW f, f = [x \in S |-> f[x]]
    PROVE  IsFiniteSet({f[x] : x \in S}) /\ Cardinality({f[x] : x \in S}) <= Cardinality(S)
<1> DEFINE T == {f[x] : x \in S}
<1>1. f \in [S -> T] /\ DOMAIN f = S
  <2>1. \A x \in S : f[x] \in T
    OBVIOUS
  <2> HIDE DEF T
  <2>2. [x \in S |-> f[x]] \in [S -> T]
    BY <2>1
  <2> QED BY <2>2
<1>2. f \in Surjection(S, T)
  BY <1>1 DEF Surjection
<1> HIDE DEF T
<1>3. IsFiniteSet(T) /\ Cardinality(T) <= Cardinality(S)
  BY <1>2, FS_Surjection
<1> QED BY <1>3 DEF T

LEMMA InsertKeeps ==
    ASSUME NEW c \in Builders, NEW i \in Nat
    PROVE  Insert(c, i, 1, TRUE) \in Builders
<1> DEFINE n == 1
           place(j) == IF j >= i THEN j + n ELSE j
           mod == ShiftForInsertAt(c.mod, i, n)
           ins == InsertAtIndex(c.ins, i, n)
           moves == [k \in DOMAIN c.moves |-> <<c.moves[k][1], place(c.moves[k][2])>>]
           to == {place(o) : o \in DOMAIN c.map}
           map == [j \in to |-> c.map[CHOOSE o \in DOMAIN c.map : place(o) = j]]
<1>1. c.del \in Sets /\ mod \in Sets /\ ins \in Sets
  BY BuilderParts, SetOps
<1>2. \A j \in Nat : place(j) \in Nat
  OBVIOUS
<1>3. moves \in Seq(Pairs)
  <2>1. /\ DOMAIN c.moves = 1..Len(c.moves) /\ Len(c.moves) \in Nat
        /\ \A k \in 1..Len(c.moves) : c.moves[k][1] \in Nat /\ c.moves[k][2] \in Nat
    BY BuilderParts
  <2>2. \A k \in 1..Len(c.moves) : <<c.moves[k][1], place(c.moves[k][2])>> \in Pairs
    BY <2>1, <1>2 DEF Pairs
  <2> HIDE DEF place
  <2> QED BY <2>1, <2>2
<1>4. map \in Maps
  <2>1. c.map \in Maps
    BY BuilderParts
  <2>2. DOMAIN c.map \in SUBSET Nat /\ IsFiniteSet(DOMAIN c.map) /\ \A o \in DOMAIN c.map : c.map[o] \in Nat
    BY <2>1, MapFacts
  <2>3. IsFiniteSet(to) /\ to \in SUBSET Nat
    <3> DEFINE f == [o \in DOMAIN c.map |-> place(o)]
    <3>1. IsFiniteSet({f[o] : o \in DOMAIN c.map})
      <4> DEFINE S == DOMAIN c.map
      <4>1. f = [x \in S |-> f[x]] /\ IsFiniteSet(S)
        BY <2>2
      <4> HIDE DEF f, S
      <4>2. IsFiniteSet({f[x] : x \in S})
        BY <4>1, ImageFinite
      <4> QED BY <4>2 DEF S
    <3>2. to = {f[o] : o \in DOMAIN c.map}
      <4> HIDE DEF place
      <4> QED OBVIOUS
    <3>3. to \in SUBSET Nat
      BY <2>2, <1>2
    <3> QED BY <3>1, <3>2, <3>3
  <2>4. ASSUME NEW j \in to PROVE c.map[CHOOSE o \in DOMAIN c.map : place(o) = j] \in Nat
    <3> HIDE DEF place
    <3>1. (CHOOSE o \in DOMAIN c.map : place(o) = j) \in DOMAIN c.map
      OBVIOUS
    <3> QED BY <3>1, <2>2
  <2>5. DOMAIN map = to /\ map \in [to -> Nat]
    <3> HIDE DEF place, to
    <3> QED BY <2>4
  <2> HIDE DEF map, to
  <2> QED BY <2>3, <2>5, MapFacts
<1>5. Insert(c, i, n, TRUE) = [[[[c EXCEPT !.mod = mod] EXCEPT !.ins = ins] EXCEPT !.moves = moves] EXCEPT !.map = map]
  <2> DEFINE b == [c EXCEPT !.mod = mod]
  <2>1. c = [del |-> c.del, ins |-> c.ins, mod |-> c.mod, moves |-> c.moves, map |-> c.map]
    BY BuilderParts
  <2>2. b.ins = c.ins /\ b.moves = c.moves
    BY <2>1
  <2>3. Insert(c, i, n, TRUE) = [b EXCEPT !.ins = InsertAtIndex(b.ins, i, n),
                        !.moves = [k \in DOMAIN b.moves |-> <<b.moves[k][1], place(b.moves[k][2])>>],
                        !.map = map]
    BY DEF Insert
  <2>4. Insert(c, i, n, TRUE) = [b EXCEPT !.ins = ins, !.moves = moves, !.map = map]
    <3> HIDE DEF b, place, map
    <3> QED BY <2>2, <2>3
  <2> HIDE DEF b, ins, moves, map
  <2>5. [b EXCEPT !.ins = ins, !.moves = moves, !.map = map]
        = [[[b EXCEPT !.ins = ins] EXCEPT !.moves = moves] EXCEPT !.map = map]
    OBVIOUS
  <2> QED BY <2>4, <2>5 DEF b
<1> HIDE DEF mod, ins, moves, map
<1>6. [[[[c EXCEPT !.mod = mod] EXCEPT !.ins = ins] EXCEPT !.moves = moves] EXCEPT !.map = map] \in Builders
  BY <1>1, <1>3, <1>4, BuilderWith
<1>7. Insert(c, i, n, TRUE) \in Builders
  BY <1>5, <1>6
<1> QED BY <1>7 DEF n

LEMMA EraseKeeps ==
    ASSUME NEW c \in Builders, NEW i \in Nat
    PROVE  Erase(c, i) \in Builders
<1> DEFINE e == EraseOrUnshift(c.ins, i)
           K == {k \in DOMAIN c.moves : c.moves[k][2] # i}
           left == EntriesAt(c.moves, K)
           mod == EraseAt(c.mod, i)
           ins == e.set
           del == IF e.at = NPosIndex THEN c.del ELSE AddShifted(c.del, e.at).set
           to(j) == IF j > i THEN j - 1 ELSE j
           moves == [k \in DOMAIN left |-> <<left[k][1], to(left[k][2])>>]
<1>1. mod \in Sets /\ ins \in Sets /\ (e.at = NPosIndex \/ e.at \in Nat)
  BY BuilderParts, SetOps
<1>2. del \in Sets
  <2>1. c.del \in Sets
    BY BuilderParts
  <2>2. CASE e.at = NPosIndex
    BY <2>1, <2>2
  <2>3. CASE e.at # NPosIndex
    <3> DEFINE at == e.at
    <3>1. at \in Nat
      BY <1>1, <2>3
    <3> HIDE DEF at
    <3>2. AddShifted(c.del, at).set \in Sets
      BY <3>1, <2>1, SetOps
    <3> QED BY <2>3, <3>2 DEF at
  <2> QED BY <2>2, <2>3
<1>3. left \in Seq(Pairs)
  <2> DEFINE s == c.moves
  <2>1. s \in Seq(Pairs) /\ K \in SUBSET (1..Len(s))
    BY BuilderParts
  <2> HIDE DEF s, K
  <2>2. EntriesAt(s, K) \in Seq(Pairs)
    BY <2>1, EntriesAtFacts
  <2> QED BY <2>2 DEF s
<1>4. moves \in Seq(Pairs)
  <2> HIDE DEF left
  <2>1. /\ DOMAIN left = 1..Len(left) /\ Len(left) \in Nat
        /\ \A k \in 1..Len(left) : left[k][1] \in Nat /\ left[k][2] \in Nat
    BY <1>3 DEF Pairs
  <2>2. \A j \in Nat : to(j) \in Nat
    OBVIOUS
  <2> HIDE DEF to
  <2>3. \A k \in 1..Len(left) : <<left[k][1], to(left[k][2])>> \in Pairs
    BY <2>1, <2>2 DEF Pairs
  <2> QED BY <2>1, <2>3
<1>5. Erase(c, i) = [c EXCEPT !.mod = mod, !.ins = ins, !.del = del, !.moves = moves]
  BY DEF Erase
<1> HIDE DEF mod, ins, del, moves
<1>6. [c EXCEPT !.mod = mod, !.ins = ins, !.del = del, !.moves = moves]
      = [[[[c EXCEPT !.mod = mod] EXCEPT !.ins = ins] EXCEPT !.del = del] EXCEPT !.moves = moves]
  OBVIOUS
<1>7. [[[[c EXCEPT !.mod = mod] EXCEPT !.ins = ins] EXCEPT !.del = del] EXCEPT !.moves = moves] \in Builders
  BY <1>1, <1>2, <1>4, BuilderWith
<1> QED BY <1>5, <1>6, <1>7

LEMMA ClearKeeps ==
    ASSUME NEW c \in Builders, NEW size \in Nat, Huge \in Nat
    PROVE  Clear(c, size) \in Builders
<1> DEFINE n == IF size = Huge THEN Huge ELSE size + Cardinality(Indexes(c.del)) - Cardinality(Indexes(c.ins))
<1>1. n \in Int
  <2>1. Cardinality(Indexes(c.del)) \in Nat /\ Cardinality(Indexes(c.ins)) \in Nat
    BY BuilderParts, IndexesFinite
  <2> QED BY <2>1
<1>2. Clear(c, size) = [NoChanges EXCEPT !.del = SetTo(n)]
  BY DEF Clear
<1> HIDE DEF n
<1>3. SetTo(n) \in Sets
  <2>1. CASE n > 0
    <3> DEFINE r == <<0, n>>
               s == <<r>>
    <3>1. r \in Range2 /\ r[1] = 0 /\ r[2] = n
      BY <2>1, <1>1 DEF Range2
    <3> HIDE DEF r
    <3>2. s \in Seq(Range2) /\ Len(s) = 1 /\ s[1] = r
      BY <3>1
    <3> HIDE DEF s
    <3>3. WellFormed(s)
      BY <3>1, <3>2, <2>1, <1>1 DEF WellFormed
    <3>4. SetTo(n) = s
      BY <2>1 DEF SetTo, s, r
    <3> QED BY <3>2, <3>3, <3>4 DEF Sets
  <2>2. CASE ~ (n > 0)
    BY <2>2, EmptySet DEF SetTo
  <2> QED BY <2>1, <2>2
<1> QED BY <1>2, <1>3, NoChangesFacts, BuilderWith

LEMMA MoveKeeps ==
    ASSUME NEW c \in Builders, NEW from \in Nat, NEW to \in Nat
    PROVE  Move(c, from, to) \in Builders
<1> DEFINE e == EraseOrUnshift(c.ins, from)
           at == e.at
           place(j) == IF j = from THEN to ELSE MovedPast(j, from, to)
           moved == [k \in DOMAIN c.moves |-> <<c.moves[k][1], place(c.moves[k][2])>>]
           again == \E k \in DOMAIN c.moves : c.moves[k][2] = from
           m1 == EraseAt(c.mod, from)
           mod == IF Has(c.mod, from) THEN InsertAtIndex(m1, to, 1) ELSE ShiftForInsertAt(m1, to, 1)
           ins == InsertAtIndex(e.set, to, 1)
           d == AddShifted(c.del, at)
           c1 == [c EXCEPT !.moves = moved, !.mod = mod, !.ins = ins]
<1>1. m1 \in Sets /\ e.set \in Sets /\ (at = NPosIndex \/ at \in Nat)
  BY BuilderParts, SetOps
<1>2. mod \in Sets /\ ins \in Sets
  <2> DEFINE es == e.set
  <2>1. m1 \in Sets /\ es \in Sets
    BY <1>1
  <2> HIDE DEF m1, es
  <2>2. InsertAtIndex(m1, to, 1) \in Sets /\ ShiftForInsertAt(m1, to, 1) \in Sets /\ InsertAtIndex(es, to, 1) \in Sets
    BY <2>1, SetOps
  <2> QED BY <2>2 DEF es
<1>3. moved \in Seq(Pairs)
  <2>1. /\ DOMAIN c.moves = 1..Len(c.moves) /\ Len(c.moves) \in Nat
        /\ \A k \in 1..Len(c.moves) : c.moves[k][1] \in Nat /\ c.moves[k][2] \in Nat
    BY BuilderParts
  <2>2. \A j \in Nat : place(j) \in Nat
    BY DEF MovedPast
  <2> HIDE DEF place
  <2>3. \A k \in 1..Len(c.moves) : <<c.moves[k][1], place(c.moves[k][2])>> \in Pairs
    BY <2>1, <2>2 DEF Pairs
  <2> QED BY <2>1, <2>3
<1>4. Move(c, from, to) = IF again \/ at = NPosIndex THEN c1
                          ELSE [c1 EXCEPT !.del = d.set, !.moves = Append(c1.moves, <<d.at, to>>)]
  BY DEF Move
<1> HIDE DEF again, moved, mod, ins, d
<1>5. c1 \in Builders
  <2>1. c1 = [[[c EXCEPT !.moves = moved] EXCEPT !.mod = mod] EXCEPT !.ins = ins]
    OBVIOUS
  <2> HIDE DEF c1
  <2>2. [[[c EXCEPT !.moves = moved] EXCEPT !.mod = mod] EXCEPT !.ins = ins] \in Builders
    BY <1>2, <1>3, BuilderWith
  <2> QED BY <2>1, <2>2
<1> HIDE DEF c1
<1>6. CASE again \/ at = NPosIndex
  BY <1>4, <1>5, <1>6
<1>7. CASE ~ (again \/ at = NPosIndex)
  <2> HIDE DEF at
  <2>1. d.set \in Sets /\ d.at \in Nat
    <3>1. at \in Nat /\ c.del \in Sets
      BY <1>1, <1>7, BuilderParts
    <3>2. AddShifted(c.del, at).set \in Sets /\ AddShifted(c.del, at).at \in Nat
      BY <3>1, SetOps
    <3> QED BY <3>2 DEF d
  <2> DEFINE new == <<d.at, to>>
             ms == Append(c1.moves, new)
             ds == d.set
  <2>2. new \in Pairs
    BY <2>1, PairOf
  <2>3. ms \in Seq(Pairs) /\ ds \in Sets
    <3> HIDE DEF new
    <3>1. c1.moves \in Seq(Pairs)
      BY <1>5, BuilderParts
    <3> QED BY <3>1, <2>1, <2>2
  <2>4. Move(c, from, to) = [c1 EXCEPT !.del = ds, !.moves = ms]
    BY <1>4, <1>7
  <2> HIDE DEF ms, ds
  <2>5. [c1 EXCEPT !.del = ds, !.moves = ms] = [[c1 EXCEPT !.del = ds] EXCEPT !.moves = ms]
    OBVIOUS
  <2>6. [[c1 EXCEPT !.del = ds] EXCEPT !.moves = ms] \in Builders
    BY <1>5, <2>3, BuilderWith
  <2> QED BY <2>4, <2>5, <2>6
<1> QED BY <1>6, <1>7

LEMMA ModFacts ==
    ASSUME NEW R \in Sets, NEW i \in Nat, NEW j \in Nat
    PROVE  ModOver(R, i, j) \in Sets /\ ModSwapped(R, i, j) \in Sets
<1> DEFINE a == Remove1(R, i)
           b == Remove1(R, j)
<1>1. a \in Sets /\ b \in Sets
  BY SetOps
<1>2. ModOver(R, i, j) = (IF i # j /\ Has(R, j) THEN Add(b, i) ELSE a)
  BY DEF ModOver
<1>3. ModSwapped(R, i, j) = (IF Has(R, i) = Has(R, j) THEN R ELSE IF Has(R, i) THEN Add(a, j) ELSE Add(b, i))
  BY DEF ModSwapped
<1> HIDE DEF a, b
<1>4. Add(b, i) \in Sets /\ Add(a, j) \in Sets
  BY <1>1, SetOps
<1> QED BY <1>1, <1>2, <1>3, <1>4

\* The row of a set without another, and the row at an index
LEMMA AddedShifted ==
    ASSUME NEW R \in Sets, NEW P \in Sets, NEW i \in Nat
    PROVE  AddShifted(R, Unshift(P, i)).set \in Sets /\ AddShifted(R, Unshift(P, i)).at \in Nat
<1> DEFINE u == Unshift(P, i)
<1>1. u \in Nat
  BY SetOps
<1> HIDE DEF u
<1>2. AddShifted(R, u).set \in Sets /\ AddShifted(R, u).at \in Nat
  BY <1>1, SetOps
<1> QED BY <1>2 DEF u

LEMMA MoveOverKeeps ==
    ASSUME NEW c \in Builders, NEW i \in Nat, NEW last \in Nat
    PROVE  MoveOver(c, i, last) \in Builders
<1> DEFINE e == EraseOrUnshift(c.ins, i)
           at == e.at
           newRow == Has(c.ins, i)
           newLast == Has(c.ins, last)
           movedLast == newLast /\ last \in DOMAIN c.map
           w == Without(c.map, last)
           old == c.map[last]
           map1 == IF movedLast THEN With(w, i, old) ELSE IF newRow THEN Without(c.map, i) ELSE c.map
           d == AddShifted(c.del, Unshift(c.ins, last))
           ins == IF newLast THEN Remove1(c.ins, last) ELSE c.ins
           del == IF newLast THEN c.del ELSE d.set
           dat == d.at
           map2 == IF newLast THEN map1 ELSE With(map1, i, dat)
           mod == ModOver(c.mod, i, last)
<1>0. c.del \in Sets /\ c.ins \in Sets /\ c.mod \in Sets /\ c.map \in Maps
  BY BuilderParts
<1>1. mod \in Sets
  BY <1>0, ModFacts
<1>2. CASE i = last
  <2> DEFINE x == e.set
             m == Without(c.map, i)
             y == IF at = NPosIndex THEN c.del ELSE AddShifted(c.del, at).set
  <2>1. x \in Sets /\ (at = NPosIndex \/ at \in Nat)
    BY <1>0, SetOps
  <2>2. m \in Maps
    BY <1>0, WithoutFacts
  <2>3. MoveOver(c, i, last) = [c EXCEPT !.mod = mod, !.ins = x, !.map = m, !.del = y]
    BY <1>2 DEF MoveOver
  <2> HIDE DEF x, m, mod, at
  <2>4. y \in Sets
    <3>1. at # NPosIndex => AddShifted(c.del, at).set \in Sets
      BY <2>1, <1>0, SetOps
    <3> QED BY <3>1, <1>0
  <2> HIDE DEF y
  <2>5. [c EXCEPT !.mod = mod, !.ins = x, !.map = m, !.del = y]
        = [[[[c EXCEPT !.mod = mod] EXCEPT !.ins = x] EXCEPT !.map = m] EXCEPT !.del = y]
    OBVIOUS
  <2>6. [[[[c EXCEPT !.mod = mod] EXCEPT !.ins = x] EXCEPT !.map = m] EXCEPT !.del = y] \in Builders
    BY <1>1, <2>1, <2>2, <2>4, BuilderWith
  <2> QED BY <2>3, <2>5, <2>6
<1>3. CASE i # last
  <2> DEFINE x == IF newRow THEN ins ELSE Add(ins, i)
             y == IF newRow THEN del ELSE AddShifted(del, Unshift(ins, i)).set
  <2>1. MoveOver(c, i, last) = [c EXCEPT !.mod = mod, !.map = map2, !.ins = x, !.del = y]
    BY <1>3 DEF MoveOver
  <2>2. ins \in Sets
    <3>1. Remove1(c.ins, last) \in Sets
      BY <1>0, SetOps
    <3> QED BY <3>1, <1>0
  <2>3. del \in Sets /\ dat \in Nat
    <3>1. d.set \in Sets /\ d.at \in Nat
      BY <1>0, AddedShifted
    <3> HIDE DEF d
    <3> QED BY <3>1, <1>0
  <2>4. map1 \in Maps
    <3>1. w \in Maps /\ Without(c.map, i) \in Maps
      BY <1>0, WithoutFacts
    <3>2. movedLast => old \in Nat
      BY <1>0, MapFacts
    <3> HIDE DEF w, old
    <3>3. movedLast => With(w, i, old) \in Maps
      BY <3>1, <3>2, WithFacts
    <3> HIDE DEF movedLast
    <3> QED BY <3>1, <3>3, <1>0
  <2> HIDE DEF map1, dat, ins, del
  <2>5. map2 \in Maps
    <3>1. With(map1, i, dat) \in Maps
      BY <2>3, <2>4, WithFacts
    <3> QED BY <3>1, <2>4
  <2>6. x \in Sets
    <3>1. Add(ins, i) \in Sets
      BY <2>2, SetOps
    <3> QED BY <3>1, <2>2
  <2>7. y \in Sets
    <3>1. AddShifted(del, Unshift(ins, i)).set \in Sets
      BY <2>2, <2>3, AddedShifted
    <3> QED BY <3>1, <2>3
  <2> HIDE DEF x, y, map2, mod
  <2>8. [c EXCEPT !.mod = mod, !.map = map2, !.ins = x, !.del = y]
        = [[[[c EXCEPT !.mod = mod] EXCEPT !.map = map2] EXCEPT !.ins = x] EXCEPT !.del = y]
    OBVIOUS
  <2>9. [[[[c EXCEPT !.mod = mod] EXCEPT !.map = map2] EXCEPT !.ins = x] EXCEPT !.del = y] \in Builders
    BY <1>1, <2>5, <2>6, <2>7, BuilderWith
  <2> QED BY <2>1, <2>8, <2>9
<1> QED BY <1>2, <1>3

LEMMA RecordMoveKeeps ==
    ASSUME NEW c \in Builders, NEW from \in Nat, NEW to \in Nat
    PROVE  RecordMove(c, from, to) \in Builders
<1> DEFINE d == AddShifted(c.del, Unshift(c.ins, from))
           ds == d.set
           dat == d.at
           ins == Add(c.ins, from)
           map == With(c.map, to, dat)
<1>0. c.del \in Sets /\ c.ins \in Sets /\ c.map \in Maps
  BY BuilderParts
<1>1. ds \in Sets /\ dat \in Nat
  BY <1>0, AddedShifted
<1>2. ins \in Sets
  BY <1>0, SetOps
<1>3. map \in Maps
  <2> HIDE DEF dat
  <2> QED BY <1>0, <1>1, WithFacts
<1>4. RecordMove(c, from, to) = IF Has(c.ins, from) THEN c ELSE [c EXCEPT !.del = ds, !.ins = ins, !.map = map]
  BY DEF RecordMove
<1> HIDE DEF ds, ins, map
<1>5. [c EXCEPT !.del = ds, !.ins = ins, !.map = map] = [[[c EXCEPT !.del = ds] EXCEPT !.ins = ins] EXCEPT !.map = map]
  OBVIOUS
<1>6. [[[c EXCEPT !.del = ds] EXCEPT !.ins = ins] EXCEPT !.map = map] \in Builders
  BY <1>1, <1>2, <1>3, BuilderWith
<1> QED BY <1>4, <1>5, <1>6

LEMMA SwapKeeps ==
    ASSUME NEW c0 \in Builders, NEW i \in Nat, NEW j \in Nat
    PROVE  Swap(c0, i, j) \in Builders
<1> DEFINE m == ModSwapped(c0.mod, i, j)
           c == [c0 EXCEPT !.mod = m]
           mi == i \in DOMAIN c.map
           mj == j \in DOMAIN c.map
           p == [c.map EXCEPT ![i] = c.map[j], ![j] = c.map[i]]
           pj == With(Without(c.map, i), j, c.map[i])
           pi == With(Without(c.map, j), i, c.map[j])
<1>1. m \in Sets
  BY BuilderParts, ModFacts
<1>2. Swap(c0, i, j) =
         CASE mi /\ mj  -> [c EXCEPT !.map = p]
           [] mi /\ ~mj -> RecordMove([c EXCEPT !.map = pj], j, i)
           [] ~mi /\ mj -> RecordMove([c EXCEPT !.map = pi], i, j)
           [] OTHER -> RecordMove(RecordMove(c, j, i), i, j)
  BY DEF Swap
<1> HIDE DEF m
<1>3. c \in Builders
  BY <1>1, BuilderWith
<1> HIDE DEF c
<1> DEFINE f == c.map
<1>4. f \in Maps /\ DOMAIN f \in SUBSET Nat /\ \A k \in DOMAIN f : f[k] \in Nat
  BY <1>3, BuilderParts, MapFacts
<1>5. CASE mi /\ mj
  <2>1. p \in Maps
    <3>1. IsFiniteSet(DOMAIN f) /\ f \in [DOMAIN f -> Nat]
      BY <1>4, MapFacts
    <3> DEFINE a == f[j]
               b == f[i]
    <3>2. a \in Nat /\ b \in Nat
      BY <1>4, <1>5
    <3>3. p = [f EXCEPT ![i] = a, ![j] = b]
      OBVIOUS
    <3> HIDE DEF p, f, a, b
    <3>4. p \in [DOMAIN f -> Nat] /\ DOMAIN p = DOMAIN f
      BY <3>1, <3>2, <3>3
    <3> QED BY <3>1, <3>4, <1>4, MapFacts
  <2>2. Swap(c0, i, j) = [c EXCEPT !.map = p]
    BY <1>2, <1>5
  <2> HIDE DEF p
  <2> QED BY <2>1, <2>2, <1>3, BuilderWith
<1>6. CASE mi /\ ~mj
  <2> DEFINE w == Without(f, i)
             o == f[i]
             b == [c EXCEPT !.map = pj]
  <2>1. w \in Maps /\ o \in Nat
    BY <1>4, <1>6, WithoutFacts
  <2>2. pj = With(w, j, o)
    OBVIOUS
  <2> HIDE DEF w, o, pj
  <2>3. pj \in Maps
    BY <2>1, <2>2, WithFacts
  <2>4. b \in Builders
    BY <2>3, <1>3, BuilderWith
  <2>5. Swap(c0, i, j) = RecordMove(b, j, i)
    BY <1>2, <1>6
  <2> HIDE DEF b
  <2> QED BY <2>4, <2>5, RecordMoveKeeps
<1>7. CASE ~mi /\ mj
  <2> DEFINE w == Without(f, j)
             o == f[j]
             b == [c EXCEPT !.map = pi]
  <2>1. w \in Maps /\ o \in Nat
    BY <1>4, <1>7, WithoutFacts
  <2>2. pi = With(w, i, o)
    OBVIOUS
  <2> HIDE DEF w, o, pi
  <2>3. pi \in Maps
    BY <2>1, <2>2, WithFacts
  <2>4. b \in Builders
    BY <2>3, <1>3, BuilderWith
  <2>5. Swap(c0, i, j) = RecordMove(b, i, j)
    BY <1>2, <1>7
  <2> HIDE DEF b
  <2> QED BY <2>4, <2>5, RecordMoveKeeps
<1>8. CASE ~mi /\ ~mj
  <2> DEFINE b == RecordMove(c, j, i)
  <2>1. b \in Builders
    BY <1>3, RecordMoveKeeps
  <2>2. Swap(c0, i, j) = RecordMove(b, i, j)
    BY <1>2, <1>8
  <2> HIDE DEF b
  <2> QED BY <2>1, <2>2, RecordMoveKeeps
<1> QED BY <1>5, <1>6, <1>7, <1>8

LEMMA SubsumeKeeps ==
    ASSUME NEW c \in Builders, NEW old \in Nat, NEW new \in Nat
    PROVE  Subsume(c, old, new) \in Builders
<1> DEFINE mod == IF Has(c.mod, old) THEN Add(c.mod, new) ELSE c.mod
           w == Without(c.map, old)
           o == c.map[old]
           u == Unshift(c.ins, old)
           s == Shift(c.del, u)
           map == IF old \in DOMAIN c.map THEN With(w, new, o)
                  ELSE IF Has(c.ins, old) THEN c.map ELSE With(c.map, new, s)
<1>0. c.del \in Sets /\ c.ins \in Sets /\ c.mod \in Sets /\ c.map \in Maps
  BY BuilderParts
<1>1. mod \in Sets
  <2>1. Add(c.mod, new) \in Sets
    BY <1>0, SetOps
  <2> QED BY <2>1, <1>0
<1>2. Subsume(c, old, new) = [c EXCEPT !.mod = mod, !.map = map]
  BY DEF Subsume
<1>3. w \in Maps /\ (old \in DOMAIN c.map => o \in Nat)
  BY <1>0, WithoutFacts, MapFacts
<1>4. s \in Nat
  <2>1. u \in Nat
    BY <1>0, SetOps
  <2> HIDE DEF u
  <2> QED BY <2>1, <1>0, SetOps
<1> HIDE DEF w, o, s, mod
<1>5. map \in Maps
  <2>1. old \in DOMAIN c.map => With(w, new, o) \in Maps
    BY <1>3, WithFacts
  <2>2. With(c.map, new, s) \in Maps
    BY <1>0, <1>4, WithFacts
  <2> QED BY <2>1, <2>2, <1>0
<1> HIDE DEF map
<1>6. [c EXCEPT !.mod = mod, !.map = map] = [[c EXCEPT !.mod = mod] EXCEPT !.map = map]
  OBVIOUS
<1>7. [[c EXCEPT !.mod = mod] EXCEPT !.map = map] \in Builders
  BY <1>1, <1>5, BuilderWith
<1> QED BY <1>2, <1>6, <1>7

-----------------------------------------------------------------------------
(* The end of a log, and merging                                           *)

\* One move of clean_up_stale_moves
CleanOp(c, x, m) ==
    IF m[1] - Count(x.del, 0, m[1]) # m[2] - Count(x.ins, 0, m[2])
    THEN [x EXCEPT !.moves = Append(@, m)]
    ELSE [x EXCEPT !.del = Remove1(@, m[1]), !.ins = Remove1(@, m[2])]
CleanFold == INSTANCE FoldTheorems WITH op <- CleanOp

LEMMA CleanKeeps ==
    ASSUME NEW c \in Builders
    PROVE  CleanUpStaleMoves(c) \in Builders
<1> DEFINE E == <<>>
           start == [c EXCEPT !.moves = E]
           s == c.moves
           fold == CleanUpStaleMoves(c)
<1>1. E \in Seq(Pairs)
  OBVIOUS
<1> HIDE DEF E
<1>2. start \in Builders /\ s \in Seq(Pairs)
  BY <1>1, BuilderWith, BuilderParts
<1>3. CleanFold!Fold(0, start, s) = fold
  BY DEF CleanOp, CleanUpStaleMoves, CleanFold!Fold, FoldLeft, MapThenFoldSet, Max, CleanFold!Greatest, E
<1> HIDE DEF fold, start, s
<1>4. ASSUME NEW x \in Builders, NEW m \in Pairs PROVE CleanOp(0, x, m) \in Builders
  <2> DEFINE a == m[1]
             b == m[2]
             ms == Append(x.moves, m)
             ds == Remove1(x.del, a)
             is == Remove1(x.ins, b)
  <2>1. a \in Nat /\ b \in Nat
    BY DEF Pairs
  <2>2. CleanOp(0, x, m) = IF a - Count(x.del, 0, a) # b - Count(x.ins, 0, b)
                           THEN [x EXCEPT !.moves = ms] ELSE [x EXCEPT !.del = ds, !.ins = is]
    BY DEF CleanOp
  <2> HIDE DEF a, b
  <2>3. ms \in Seq(Pairs) /\ ds \in Sets /\ is \in Sets
    <3>1. x.moves \in Seq(Pairs) /\ x.del \in Sets /\ x.ins \in Sets
      BY BuilderParts
    <3>2. ds \in Sets /\ is \in Sets
      BY <3>1, <2>1, SetOps
    <3>3. ms \in Seq(Pairs)
      BY <3>1
    <3> QED BY <3>2, <3>3
  <2> HIDE DEF ms, ds, is
  <2>4. [x EXCEPT !.del = ds, !.ins = is] = [[x EXCEPT !.del = ds] EXCEPT !.ins = is]
    OBVIOUS
  <2>5. [[x EXCEPT !.del = ds] EXCEPT !.ins = is] \in Builders /\ [x EXCEPT !.moves = ms] \in Builders
    BY <2>3, BuilderWith
  <2> QED BY <2>2, <2>4, <2>5
<1>5. CleanFold!Fold(0, start, s) \in Builders
  BY <1>2, <1>4, CleanFold!FoldStays
<1> QED BY <1>3, <1>5 DEF fold

LEMMA ParseCompleteKeeps ==
    ASSUME NEW c \in Builders
    PROVE  ParseComplete(c) \in Builders
<1> DEFINE f == c.map
           still == {i \in DOMAIN f : f[i] = i}
           pairs == {<<f[i], i>> : i \in DOMAIN f \ still}
           S == ToSet(c.moves) \cup pairs
           less(a, b) == a[1] < b[1] \/ (a[1] = b[1] /\ a[2] < b[2])
           L == {u \in S \X S : less(u[1], u[2])}
           P == Built(InOrder(still))
           del == RemoveSet(c.del, P)
           ins == RemoveSet(c.ins, P)
           E == <<>>
           moves == [k \in 1..Cardinality(S) |-> CHOOSE x \in S : Cardinality({y \in S : less(y, x)}) = k - 1]
<1>1. /\ c.del \in Sets /\ c.ins \in Sets /\ f \in Maps
      /\ DOMAIN f \in SUBSET Nat /\ IsFiniteSet(DOMAIN f) /\ \A i \in DOMAIN f : f[i] \in Nat
  BY BuilderParts, MapFacts
<1>2. ParseComplete(c) = [c EXCEPT !.del = del, !.ins = ins, !.moves = moves, !.map = E]
  BY DEF ParseComplete, InOrderBy
<1>3. E \in Maps
  BY NoChangesFacts, BuilderParts DEF NoChanges
<1>4. P \in Sets
  <2> HIDE DEF f
  <2>1. still \in SUBSET Nat /\ still \in SUBSET DOMAIN f
    BY <1>1
  <2>2. IsFiniteSet(still)
    BY <1>1, <2>1, FS_Subset
  <2> HIDE DEF still
  <2> QED BY <2>1, <2>2, BuiltOf
<1>5. del \in Sets /\ ins \in Sets
  <2> HIDE DEF P
  <2> QED BY <1>1, <1>4, RemoveSetRemoves
<1>6. IsFiniteSet(S) /\ S \in SUBSET Pairs
  <2>1. IsFiniteSet(pairs) /\ pairs \in SUBSET Pairs
    <3> DEFINE T == DOMAIN f \ still
               g == [i \in T |-> <<f[i], i>>]
    <3>1. IsFiniteSet(T)
      <4> HIDE DEF f
      <4>1. T \in SUBSET DOMAIN f
        OBVIOUS
      <4> HIDE DEF T
      <4> QED BY <4>1, <1>1, FS_Subset
    <3>2. pairs = {g[i] : i \in T}
      <4> HIDE DEF f, still
      <4> QED OBVIOUS
    <3>3. IsFiniteSet({g[i] : i \in T})
      <4>1. g = [x \in T |-> g[x]]
        OBVIOUS
      <4> HIDE DEF g, T
      <4> QED BY <4>1, <3>1, ImageFinite
    <3>4. pairs \in SUBSET Pairs
      <4> HIDE DEF f
      <4>1. \A i \in T : f[i] \in Nat /\ i \in Nat
        BY <1>1
      <4> HIDE DEF still
      <4> QED BY <4>1 DEF Pairs
    <3> QED BY <3>2, <3>3, <3>4
  <2>2. IsFiniteSet(ToSet(c.moves)) /\ ToSet(c.moves) \in SUBSET Pairs
    <3> DEFINE m == c.moves
               D == 1..Len(m)
    <3>0. m \in Seq(Pairs)
      BY BuilderParts
    <3>1. DOMAIN m = D /\ Len(m) \in Nat /\ m = [k \in D |-> m[k]] /\ \A k \in D : m[k] \in Pairs
      BY <3>0
    <3> HIDE DEF m
    <3>2. IsFiniteSet(D)
      BY <3>1, CardinalityOfFirst
    <3> HIDE DEF D
    <3>3. IsFiniteSet({m[k] : k \in D})
      BY <3>1, <3>2, ImageFinite
    <3>4. ToSet(m) = {m[k] : k \in D}
      BY <3>1 DEF ToSet
    <3>5. {m[k] : k \in D} \in SUBSET Pairs
      BY <3>1
    <3> QED BY <3>3, <3>4, <3>5 DEF m
  <2> HIDE DEF pairs
  <2>3. IsFiniteSet(ToSet(c.moves) \cup pairs)
    BY <2>1, <2>2, FS_Union
  <2> QED BY <2>1, <2>2, <2>3
<1> HIDE DEF S
<1>7. OrderOn(S, L)
  <2>1. \A x \in S : x[1] \in Nat /\ x[2] \in Nat /\ x = <<x[1], x[2]>>
    BY <1>6 DEF Pairs
  <2>2. \A x, y \in S : <<x, y>> \in L <=> less(x, y)
    OBVIOUS
  <2> HIDE DEF L
  <2>3. \A x \in S : ~ less(x, x)
    BY <2>1
  <2>4. \A x, y \in S : x # y => less(x, y) \/ less(y, x)
    BY <2>1
  <2>5. \A x, y, z \in S : less(x, y) /\ less(y, z) => less(x, z)
    BY <2>1
  <2> HIDE DEF less
  <2> QED BY <2>2, <2>3, <2>4, <2>5 DEF OrderOn
<1>8. moves \in Seq(Pairs)
  <2> DEFINE n == Cardinality(S)
  <2>1. \A x \in S : {y \in S : <<y, x>> \in L} = {y \in S : less(y, x)}
    <3> HIDE DEF less
    <3> QED OBVIOUS
  <2>2. n \in Nat /\ \A k \in 1..n : \E x \in S : Cardinality({y \in S : <<y, x>> \in L}) = k - 1
    <3> HIDE DEF L
    <3>1. n \in Nat /\ \A k \in 1..n : \E x \in S : Rank(S, L, x) = k - 1
      BY <1>6, <1>7, RanksAreTaken
    <3> QED BY <3>1 DEF Rank
  <2> HIDE DEF less, L
  <2>3. \A k \in 1..n : \E x \in S : Cardinality({y \in S : less(y, x)}) = k - 1
    BY <2>1, <2>2
  <2>4. \A k \in 1..n : (CHOOSE x \in S : Cardinality({y \in S : less(y, x)}) = k - 1) \in Pairs
    BY <2>3, <1>6
  <2> HIDE DEF n
  <2>5. [k \in 1..n |-> CHOOSE x \in S : Cardinality({y \in S : less(y, x)}) = k - 1] \in Seq(Pairs)
    <3> DEFINE e(k) == CHOOSE x \in S : Cardinality({y \in S : less(y, x)}) = k - 1
    <3>1. \A k \in 1..n : e(k) \in Pairs
      BY <2>4
    <3> HIDE DEF e
    <3>2. [k \in 1..n |-> e(k)] \in Seq(Pairs)
      BY <2>2, <3>1
    <3> QED BY <3>2 DEF e
  <2> QED BY <2>5 DEF n
<1> HIDE DEF del, ins, moves, E
<1>9. [c EXCEPT !.del = del, !.ins = ins, !.moves = moves, !.map = E]
      = [[[[c EXCEPT !.del = del] EXCEPT !.ins = ins] EXCEPT !.moves = moves] EXCEPT !.map = E]
  OBVIOUS
<1>10. [[[[c EXCEPT !.del = del] EXCEPT !.ins = ins] EXCEPT !.moves = moves] EXCEPT !.map = E] \in Builders
  BY <1>3, <1>5, <1>8, BuilderWith
<1> QED BY <1>2, <1>9, <1>10

\* The moves and modifications that merging works on
Updates == [kept : Seq(Pairs), mod : Sets, moves : Seq(Pairs)]

LEMMA UpdatesParts ==
    ASSUME NEW x \in Updates
    PROVE  /\ x.kept \in Seq(Pairs) /\ x.mod \in Sets /\ x.moves \in Seq(Pairs)
           /\ x = [kept |-> x.kept, mod |-> x.mod, moves |-> x.moves]
           /\ DOMAIN x.moves = 1..Len(x.moves) /\ Len(x.moves) \in Nat
           /\ \A k \in 1..Len(x.moves) : x.moves[k] \in Pairs /\ x.moves[k][1] \in Nat /\ x.moves[k][2] \in Nat
<1>1. /\ x.kept \in Seq(Pairs) /\ x.mod \in Sets /\ x.moves \in Seq(Pairs)
      /\ x = [kept |-> x.kept, mod |-> x.mod, moves |-> x.moves]
  BY DEF Updates
<1> DEFINE m == x.moves
<1>2. m \in Seq(Pairs)
  BY <1>1
<1> HIDE DEF m
<1>3. /\ DOMAIN m = 1..Len(m) /\ Len(m) \in Nat
      /\ \A k \in 1..Len(m) : m[k] \in Pairs /\ m[k][1] \in Nat /\ m[k][2] \in Nat
  BY <1>2 DEF Pairs
<1> QED BY <1>1, <1>3 DEF m

LEMMA UpdatesOf ==
    ASSUME NEW a \in Seq(Pairs), NEW b \in Sets, NEW d \in Seq(Pairs)
    PROVE  [kept |-> a, mod |-> b, moves |-> d] \in Updates
BY DEF Updates

LEMMA UpdatedMoveKeeps ==
    ASSUME NEW c \in Builders, NEW later \in Builders, NEW x \in Updates, NEW m \in Pairs
    PROVE  UpdatedMove(c, later, x, m) \in Updates
<1> DEFINE mv == x.moves
           n == Len(mv)
           a == m[1]
           b == m[2]
           again == {k \in DOMAIN mv : mv[k][1] = b}
           p == CHOOSE h \in again : \A g \in again : h <= g
           target == mv[p][2]
           kept1 == Append(x.kept, <<a, target>>)
           mod1 == IF Has(c.mod, b) THEN Add(x.mod, target) ELSE x.mod
           moves1 == SubSeq([mv EXCEPT ![p] = mv[n]], 1, n - 1)
           to == Shift(later.ins, Unshift(later.del, b))
           kept2 == Append(x.kept, <<a, to>>)
           y == UpdatedMove(c, later, x, m)
<1>0. a \in Nat /\ b \in Nat
  BY DEF Pairs
<1>1. y = IF again # {} THEN [kept |-> kept1, mod |-> mod1, moves |-> moves1]
          ELSE IF Has(later.del, b) THEN x ELSE [x EXCEPT !.kept = kept2]
  BY DEF UpdatedMove
<1> HIDE DEF y
<1>2. /\ x.kept \in Seq(Pairs) /\ x.mod \in Sets /\ mv \in Seq(Pairs)
      /\ DOMAIN mv = 1..n /\ n \in Nat /\ \A k \in 1..n : mv[k] \in Pairs /\ mv[k][2] \in Nat
  BY UpdatesParts
<1> HIDE DEF mv, a, b
<1>3. CASE again # {}
  <2>1. p \in 1..n
    <3>1. again \in SUBSET Nat
      BY <1>2
    <3>2. again \in SUBSET (1..n)
      BY <1>2
    <3> HIDE DEF again
    <3>3. \E h \in again : \A g \in again : h <= g
      BY <1>3, <3>1, LeastNatural
    <3>4. p \in again
      BY <3>3
    <3> QED BY <3>2, <3>4
  <2> HIDE DEF p
  <2>2. target \in Nat
    BY <1>2, <2>1
  <2>3. moves1 \in Seq(Pairs)
    <3> DEFINE e == mv[n]
               r == [mv EXCEPT ![p] = e]
    <3>1. n \in 1..n /\ e \in Pairs
      BY <1>2, <2>1
    <3> HIDE DEF e
    <3>2. r \in Seq(Pairs) /\ Len(r) = n
      BY <3>1, <1>2, <2>1
    <3> HIDE DEF r
    <3>3. n - 1 \in 0..Len(r)
      BY <3>1, <3>2
    <3>4. SubSeq(r, 1, n - 1) \in Seq(Pairs)
      BY <3>1, <3>2, <3>3
    <3> QED BY <3>4 DEF r, e
  <2> HIDE DEF target
  <2>4. kept1 \in Seq(Pairs)
    <3> DEFINE e == <<a, target>>
    <3>1. e \in Pairs
      BY <1>0, <2>2, PairOf
    <3> HIDE DEF e
    <3>2. Append(x.kept, e) \in Seq(Pairs)
      BY <3>1, <1>2
    <3> QED BY <3>2 DEF e
  <2>5. mod1 \in Sets
    <3>1. Add(x.mod, target) \in Sets
      BY <1>2, <2>2, SetOps
    <3> QED BY <3>1, <1>2
  <2> HIDE DEF kept1, mod1, moves1
  <2>6. [kept |-> kept1, mod |-> mod1, moves |-> moves1] \in Updates
    BY <2>3, <2>4, <2>5, UpdatesOf
  <2> QED BY <2>6, <1>1, <1>3 DEF y
<1>4. CASE again = {}
  <2>1. kept2 \in Seq(Pairs)
    <3> DEFINE u == Unshift(later.del, b)
               e == <<a, to>>
    <3>1. u \in Nat /\ later.ins \in Sets
      BY <1>0, BuilderParts, SetOps
    <3> HIDE DEF u
    <3>2. Shift(later.ins, u) \in Nat
      BY <3>1, SetOps
    <3>3. to \in Nat
      BY <3>2 DEF u
    <3> HIDE DEF to
    <3>4. e \in Pairs
      BY <1>0, <3>3, PairOf
    <3> HIDE DEF e
    <3>5. Append(x.kept, e) \in Seq(Pairs)
      BY <3>4, <1>2
    <3> QED BY <3>5 DEF e
  <2> HIDE DEF kept2
  <2>2. [x EXCEPT !.kept = kept2] \in Updates
    BY <2>1 DEF Updates
  <2> QED BY <2>2, <1>1, <1>4 DEF y
<1> QED BY <1>3, <1>4

\* The loops of merge: c has the builders
UpdateOp(c, x, m) == UpdatedMove(c[1], c[2], x, m)
UpdateFold == INSTANCE FoldTheorems WITH op <- UpdateOp
ModifiedOp(c, s, m) == IF Has(c, m[1]) THEN Add(s, m[2]) ELSE s
ModifiedFold == INSTANCE FoldTheorems WITH op <- ModifiedOp

LEMMA UpdatedMoves ==
    ASSUME NEW c \in Builders, NEW later \in Builders, NEW x \in Updates
    PROVE  FoldLeft(LAMBDA y, m : UpdatedMove(c, later, y, m), x, c.moves) \in Updates
<1> DEFINE d == <<c, later>>
           s == c.moves
           fold == FoldLeft(LAMBDA y, m : UpdatedMove(c, later, y, m), x, s)
<1>1. s \in Seq(Pairs)
  BY BuilderParts
<1>2. ASSUME NEW y \in Updates, NEW m \in Pairs PROVE UpdateOp(d, y, m) \in Updates
  BY UpdatedMoveKeeps DEF UpdateOp
<1>3. UpdateFold!Fold(d, x, s) = fold
  BY DEF UpdateOp, UpdateFold!Fold, FoldLeft, MapThenFoldSet, Max, UpdateFold!Greatest
<1> HIDE DEF fold, s, d
<1>4. UpdateFold!Fold(d, x, s) \in Updates
  BY <1>1, <1>2, UpdateFold!FoldStays
<1> QED BY <1>3, <1>4 DEF fold, s

LEMMA ModifiedMoves ==
    ASSUME NEW c \in Sets, NEW R \in Sets, NEW s \in Seq(Pairs)
    PROVE  FoldLeft(LAMBDA T, m : IF Has(c, m[1]) THEN Add(T, m[2]) ELSE T, R, s) \in Sets
<1> DEFINE fold == FoldLeft(LAMBDA T, m : IF Has(c, m[1]) THEN Add(T, m[2]) ELSE T, R, s)
<1>1. ASSUME NEW T \in Sets, NEW m \in Pairs PROVE ModifiedOp(c, T, m) \in Sets
  <2> DEFINE b == m[2]
  <2>1. b \in Nat
    BY DEF Pairs
  <2>2. ModifiedOp(c, T, m) = IF Has(c, m[1]) THEN Add(T, b) ELSE T
    BY DEF ModifiedOp
  <2> HIDE DEF b
  <2>3. Add(T, b) \in Sets
    BY <2>1, SetOps
  <2> QED BY <2>2, <2>3
<1>2. ModifiedFold!Fold(c, R, s) = fold
  BY DEF ModifiedOp, ModifiedFold!Fold, FoldLeft, MapThenFoldSet, Max, ModifiedFold!Greatest
<1> HIDE DEF fold
<1>3. ModifiedFold!Fold(c, R, s) \in Sets
  BY <1>1, ModifiedFold!FoldStays
<1> QED BY <1>2, <1>3 DEF fold

LEMMA MergeBothKeeps ==
    ASSUME NEW c \in Builders, NEW later \in Builders
    PROVE  MergeBoth(c, later) \in Builders
<1> DEFINE E == <<>>
           start == [kept |-> E, mod |-> later.mod, moves |-> later.moves]
           fold == FoldLeft(LAMBDA y, m : UpdatedMove(c, later, y, m), start, c.moves)
           x == IF later.moves = E /\ later.del = E /\ later.ins = E THEN [start EXCEPT !.kept = c.moves] ELSE fold
           K == {k \in DOMAIN x.moves : ~Has(c.ins, x.moves[k][1])}
           fresh == EntriesAt(x.moves, K)
           mod == FoldLeft(LAMBDA s, m : IF Has(c.mod, m[1]) THEN Add(s, m[2]) ELSE s, x.mod, fresh)
           place(i) == Shift(c.del, Unshift(c.ins, i))
           placed == [k \in DOMAIN fresh |-> <<place(fresh[k][1]), fresh[k][2]>>]
           moves == x.kept \o placed
           del == MergedDeletions(c, later)
           ins == InsertAtSet(EraseAtSet(c.ins, later.del), later.ins)
           b == [c EXCEPT !.moves = moves, !.del = del, !.ins = ins]
           cleaned == CleanUpStaleMoves(b)
           result == AddAll(ShiftForInsertAtSet(EraseAtSet(cleaned.mod, later.del), later.ins), mod)
<1>0. /\ c.del \in Sets /\ c.ins \in Sets /\ c.mod \in Sets /\ c.moves \in Seq(Pairs)
      /\ later.del \in Sets /\ later.ins \in Sets /\ later.mod \in Sets /\ later.moves \in Seq(Pairs)
  BY BuilderParts
<1>1. MergeBoth(c, later) = [cleaned EXCEPT !.mod = result]
  BY DEF MergeBoth
<1>2. x \in Updates
  <2> DEFINE cm == c.moves
             lm == later.moves
             ld == later.mod
  <2>1. E \in Seq(Pairs)
    OBVIOUS
  <2>2. start \in Updates /\ [start EXCEPT !.kept = c.moves] \in Updates
    <3>1. cm \in Seq(Pairs) /\ lm \in Seq(Pairs) /\ ld \in Sets
      BY <1>0
    <3>2. start = [kept |-> E, mod |-> ld, moves |-> lm]
          /\ [start EXCEPT !.kept = c.moves] = [kept |-> cm, mod |-> ld, moves |-> lm]
      OBVIOUS
    <3> HIDE DEF E, cm, lm, ld, start
    <3> QED BY <2>1, <3>1, <3>2, UpdatesOf
  <2> HIDE DEF start
  <2>3. fold \in Updates
    BY <2>2, UpdatedMoves
  <2> HIDE DEF fold, E
  <2> QED BY <2>2, <2>3
<1> HIDE DEF x
<1>3. x.kept \in Seq(Pairs) /\ x.mod \in Sets /\ x.moves \in Seq(Pairs) /\ DOMAIN x.moves = 1..Len(x.moves)
  BY <1>2, UpdatesParts
<1>4. fresh \in Seq(Pairs)
  <2> DEFINE mv == x.moves
  <2>1. K \in SUBSET (1..Len(mv)) /\ mv \in Seq(Pairs)
    BY <1>3
  <2> HIDE DEF K, mv
  <2>2. EntriesAt(mv, K) \in Seq(Pairs)
    BY <2>1, EntriesAtFacts
  <2> QED BY <2>2 DEF mv
<1> HIDE DEF fresh
<1>5. mod \in Sets
  <2> DEFINE cm == c.mod
             xm == x.mod
  <2>1. cm \in Sets /\ xm \in Sets
    BY <1>0, <1>3
  <2>2. mod = FoldLeft(LAMBDA s, m : IF Has(cm, m[1]) THEN Add(s, m[2]) ELSE s, xm, fresh)
    OBVIOUS
  <2> HIDE DEF mod, cm, xm
  <2>3. FoldLeft(LAMBDA s, m : IF Has(cm, m[1]) THEN Add(s, m[2]) ELSE s, xm, fresh) \in Sets
    BY <2>1, <1>4, ModifiedMoves
  <2> QED BY <2>2, <2>3
<1> HIDE DEF mod
<1>6. \A i \in Nat : place(i) \in Nat
  <2> TAKE i \in Nat
  <2> DEFINE u == Unshift(c.ins, i)
  <2>1. u \in Nat
    BY <1>0, SetOps
  <2> HIDE DEF u
  <2>2. Shift(c.del, u) \in Nat
    BY <2>1, <1>0, SetOps
  <2> QED BY <2>2 DEF u
<1> HIDE DEF place
<1>7. moves \in Seq(Pairs)
  <2>1. DOMAIN fresh = 1..Len(fresh) /\ Len(fresh) \in Nat
        /\ \A k \in 1..Len(fresh) : fresh[k][1] \in Nat /\ fresh[k][2] \in Nat
    BY <1>4 DEF Pairs
  <2>2. \A k \in 1..Len(fresh) : <<place(fresh[k][1]), fresh[k][2]>> \in Pairs
    BY <2>1, <1>6 DEF Pairs
  <2>3. placed \in Seq(Pairs)
    BY <2>1, <2>2
  <2> HIDE DEF placed
  <2> QED BY <2>3, <1>3
<1>8. del \in Sets
  BY <1>0, AddShiftedByAdds DEF MergedDeletions
<1>9. ins \in Sets
  <2> DEFINE r == EraseAtSet(c.ins, later.del)
  <2>1. r \in Sets
    BY <1>0, EraseAtSetErases
  <2> HIDE DEF r
  <2>2. InsertAtSet(r, later.ins) \in Sets
    BY <2>1, <1>0, InsertAtSetInserts
  <2> QED BY <2>2 DEF r
<1> HIDE DEF moves, del, ins
<1>10. cleaned \in Builders
  <2>1. b = [[[c EXCEPT !.moves = moves] EXCEPT !.del = del] EXCEPT !.ins = ins]
    OBVIOUS
  <2>2. [[[c EXCEPT !.moves = moves] EXCEPT !.del = del] EXCEPT !.ins = ins] \in Builders
    BY <1>7, <1>8, <1>9, BuilderWith
  <2> HIDE DEF b
  <2>3. b \in Builders
    BY <2>1, <2>2
  <2> QED BY <2>3, CleanKeeps
<1> HIDE DEF cleaned
<1>11. result \in Sets
  <2> DEFINE cm == cleaned.mod
             r == EraseAtSet(cm, later.del)
             t == ShiftForInsertAtSet(r, later.ins)
  <2>1. cm \in Sets
    BY <1>10, BuilderParts
  <2> HIDE DEF cm
  <2>2. r \in Sets
    BY <2>1, <1>0, EraseAtSetErases
  <2> HIDE DEF r
  <2>3. t \in Sets
    BY <2>2, <1>0, ShiftForInsertAtSetShifts
  <2> HIDE DEF t
  <2>4. AddAll(t, mod) \in Sets
    BY <2>3, <1>5, AddAllAdds
  <2> QED BY <2>4 DEF t, r, cm
<1> HIDE DEF result
<1> QED BY <1>1, <1>10, <1>11, BuilderWith

LEMMA MergeKeeps ==
    ASSUME NEW c \in Builders, NEW later \in Builders
    PROVE  Merge(c, later) \in Builders
BY MergeBothKeeps DEF Merge

-----------------------------------------------------------------------------
(* Comparing two results                                                   *)

\* The rows of both results
Infos == [row : Nat, prev : Nat, now : Nat, shifted : Int]

LEMMA CountedBelow ==
    ASSUME NEW n \in Int, NEW K \in SUBSET (0..n)
    PROVE  IsFiniteSet(K) /\ Cardinality(K) \in Nat
<1>1. IsFiniteSet(0..n)
  BY FS_Interval
<1> QED BY <1>1, FS_Subset, FS_CardinalityType

LEMMA RowInfoFacts ==
    ASSUME NEW prev \in Seq(Int), NEW next \in Seq(Nat), NEW j \in Positions(next),
           \E i \in Positions(prev) : At(prev, i) = At(next, j)
    PROVE  /\ RowInfo(prev, next, j) \in Infos
           /\ At(prev, RowInfo(prev, next, j).prev) = At(next, j)
<1> DEFINE row == At(next, j)
           i == CHOOSE k \in Positions(prev) : At(prev, k) = row
           n == Cardinality({k \in 0..(i - 1) : At(prev, k) = NPosIndex})
<1>1. i \in Positions(prev) /\ At(prev, i) = row
  OBVIOUS
<1>2. row \in Nat
  BY DEF At, Positions
<1>3. j \in Nat
  BY DEF Positions
<1> HIDE DEF i
<1>4. i \in Nat /\ i - 1 \in Int
  BY <1>1 DEF Positions
<1>5. n \in Nat
  BY <1>4, CountedBelow
<1>6. RowInfo(prev, next, j) = [row |-> row, prev |-> i, now |-> j, shifted |-> i - n]
  BY DEF RowInfo, i
<1> HIDE DEF row, n
<1>7. [row |-> row, prev |-> i, now |-> j, shifted |-> i - n] \in Infos
  BY <1>2, <1>3, <1>4, <1>5 DEF Infos
<1>8. [row |-> row, prev |-> i, now |-> j, shifted |-> i - n].prev = i
  OBVIOUS
<1> QED BY <1>1, <1>6, <1>7, <1>8 DEF row

\* The rows of both results, in the order of the new one
BothRows(prev, next) ==
    LET inBoth(j) == \E i \in Positions(prev) : At(prev, i) = At(next, j)
        js == InOrder({j \in Positions(next) : inBoth(j)})
    IN [k \in DOMAIN js |-> RowInfo(prev, next, js[k])]

Distinct(s) == \A h, k \in 1..Len(s) : h # k => s[h] # s[k]

LEMMA PositionsFinite ==
    ASSUME NEW S, NEW s \in Seq(S), NEW K \in SUBSET Positions(s)
    PROVE  IsFiniteSet(K) /\ K \in SUBSET Nat
<1> DEFINE n == Len(s) - 1
<1>1. n \in Int /\ K \in SUBSET (0..n) /\ 0..n \in SUBSET Nat
  BY DEF Positions
<1> HIDE DEF n
<1> QED BY <1>1, CountedBelow

LEMMA BothRowsFacts ==
    ASSUME NEW prev \in Seq(Int), NEW next \in Seq(Nat), Distinct(next)
    PROVE  /\ BothRows(prev, next) \in Seq(Infos)
           /\ \A h, k \in 1..Len(BothRows(prev, next)) :
                h # k => BothRows(prev, next)[h].prev # BothRows(prev, next)[k].prev
<1> DEFINE inBoth(j) == \E i \in Positions(prev) : At(prev, i) = At(next, j)
           J == {j \in Positions(next) : inBoth(j)}
           js == InOrder(J)
           n == Len(js)
           both == BothRows(prev, next)
<1>1. IsFiniteSet(J) /\ J \in SUBSET Nat
  <2>1. J \in SUBSET Positions(next)
    OBVIOUS
  <2> HIDE DEF J
  <2> QED BY <2>1, PositionsFinite
<1>2. both = [k \in DOMAIN js |-> RowInfo(prev, next, js[k])]
  BY DEF BothRows
<1> HIDE DEF both
<1>3. js \in Increasing /\ Entries(js) = J
  <2> HIDE DEF J
  <2> QED BY <1>1, InOrderFacts
<1> HIDE DEF js
<1>4. /\ n \in Nat /\ DOMAIN js = 1..n /\ \A k \in 1..n : js[k] \in J /\ js[k] \in Nat
      /\ \A h, k \in 1..n : h < k => js[h] < js[k]
  BY <1>3 DEF Increasing, Entries
<1>5. ASSUME NEW k \in 1..n PROVE both[k] \in Infos /\ At(prev, both[k].prev) = At(next, js[k])
  <2> DEFINE j == js[k]
  <2>1. j \in Positions(next) /\ \E i \in Positions(prev) : At(prev, i) = At(next, j)
    BY <1>4
  <2> HIDE DEF j
  <2>2. RowInfo(prev, next, j) \in Infos /\ At(prev, RowInfo(prev, next, j).prev) = At(next, j)
    BY <2>1, RowInfoFacts
  <2>3. both[k] = RowInfo(prev, next, j)
    BY <1>2, <1>4 DEF j
  <2> QED BY <2>2, <2>3 DEF j
<1>6. both \in Seq(Infos) /\ Len(both) = n
  <2>1. DOMAIN both = 1..n /\ both = [k \in 1..n |-> both[k]]
    BY <1>2, <1>4
  <2>2. both \in [1..n -> Infos]
    BY <2>1, <1>5
  <2> HIDE DEF n
  <2> QED BY <2>1, <2>2, <1>4
<1>7. ASSUME NEW h \in 1..n, NEW k \in 1..n, h # k PROVE both[h].prev # both[k].prev
  <2>1. js[h] # js[k] /\ js[h] \in Positions(next) /\ js[k] \in Positions(next)
    BY <1>4, <1>7
  <2>2. At(next, js[h]) # At(next, js[k])
    <3> DEFINE a == js[h]
               b == js[k]
    <3>1. a + 1 \in 1..Len(next) /\ b + 1 \in 1..Len(next) /\ a + 1 # b + 1
      BY <2>1 DEF Positions
    <3> HIDE DEF a, b
    <3>2. At(next, a) # At(next, b)
      BY <3>1 DEF Distinct, At
    <3> QED BY <3>2 DEF a, b
  <2> QED BY <2>2, <1>5
<1> QED BY <1>6, <1>7 DEF both

-----------------------------------------------------------------------------
(* Rows in the order of the table                                          *)

Places == [expected : Int, c : Builders]

LEMMA CountTyped ==
    ASSUME NEW R \in Sets, NEW from, NEW to
    PROVE  Count(R, from, to) \in Nat
<1> DEFINE K == {i \in Indexes(R) : from <= i /\ i < to}
<1>1. IsFiniteSet(K)
  <2>1. K \in SUBSET Indexes(R) /\ IsFiniteSet(Indexes(R))
    BY IndexesFinite
  <2> HIDE DEF K
  <2> QED BY <2>1, FS_Subset
<1> HIDE DEF K
<1>2. Cardinality(K) \in Nat
  BY <1>1, FS_CardinalityType
<1> QED BY <1>2 DEF K, Count

LEMMA WithMoveKeeps ==
    ASSUME NEW c \in Builders, NEW from \in Nat, NEW to \in Nat
    PROVE  WithMove(c, from, to) \in Builders
<1> DEFINE e == <<from, to>>
           ms == Append(c.moves, e)
           is == Add(c.ins, to)
           ds == Add(c.del, from)
<1>1. c.ins \in Sets /\ c.del \in Sets /\ c.moves \in Seq(Pairs)
  BY BuilderParts
<1>2. WithMove(c, from, to) = [c EXCEPT !.moves = ms, !.ins = is, !.del = ds]
  BY DEF WithMove
<1>3. ms \in Seq(Pairs) /\ is \in Sets /\ ds \in Sets
  <2>1. e \in Pairs
    BY PairOf
  <2> HIDE DEF e
  <2>2. ms \in Seq(Pairs)
    BY <1>1, <2>1
  <2> QED BY <1>1, <2>2, SetOps
<1> HIDE DEF ms, is, ds
<1>4. [c EXCEPT !.moves = ms, !.ins = is, !.del = ds] = [[[c EXCEPT !.moves = ms] EXCEPT !.ins = is] EXCEPT !.del = ds]
  OBVIOUS
<1>5. [[[c EXCEPT !.moves = ms] EXCEPT !.ins = is] EXCEPT !.del = ds] \in Builders
  BY <1>3, BuilderWith
<1> QED BY <1>2, <1>4, <1>5

LEMMA UnsortedStepKeeps ==
    ASSUME NEW candidates, NEW x \in Places, NEW r \in Infos
    PROVE  UnsortedStep(candidates, x, r) \in Places
<1> DEFINE c == x.c
           place == r.now - Count(c.ins, 0, r.now) + Count(c.del, 0, r.prev)
           d == WithMove(c, r.prev, r.now)
           y == UnsortedStep(candidates, x, r)
<1>1. x.expected \in Int /\ c \in Builders /\ x = [expected |-> x.expected, c |-> c]
  BY DEF Places
<1>2. r.prev \in Nat /\ r.now \in Nat /\ r.shifted \in Int
  BY DEF Infos
<1>3. place \in Int
  <2>1. c.ins \in Sets /\ c.del \in Sets
    BY <1>1, BuilderParts
  <2>2. Count(c.ins, 0, r.now) \in Nat /\ Count(c.del, 0, r.prev) \in Nat
    BY <2>1, CountTyped
  <2> QED BY <2>2, <1>2
<1>4. d \in Builders
  BY <1>1, <1>2, WithMoveKeeps
<1>5. y = CASE r.shifted = x.expected -> [x EXCEPT !.expected = x.expected + 1]
            [] r.shifted # x.expected /\ ~Has(candidates, r.row) -> [x EXCEPT !.expected = r.shifted + 1]
            [] r.shifted # x.expected /\ Has(candidates, r.row) /\ r.shifted = place -> [x EXCEPT !.expected = place + 1]
            [] OTHER -> [x EXCEPT !.c = d]
  BY DEF UnsortedStep
<1> HIDE DEF y, d, place
<1>6. \/ y = [x EXCEPT !.expected = x.expected + 1]
      \/ y = [x EXCEPT !.expected = r.shifted + 1]
      \/ y = [x EXCEPT !.expected = place + 1]
      \/ y = [x EXCEPT !.c = d]
  BY <1>5
<1> HIDE DEF c
<1>7. \A e \in Int : [x EXCEPT !.expected = e] \in Places
  BY DEF Places
<1>8. [x EXCEPT !.c = d] \in Places
  BY <1>4 DEF Places
<1>9. x.expected + 1 \in Int /\ r.shifted + 1 \in Int /\ place + 1 \in Int
  BY <1>1, <1>2, <1>3
<1> QED BY <1>6, <1>7, <1>8, <1>9 DEF y

UnsortedOp(c, x, r) == UnsortedStep(c, x, r)
UnsortedFold == INSTANCE FoldTheorems WITH op <- UnsortedOp

UnsortedMoves(candidates, x, s) == FoldLeft(LAMBDA y, r : UnsortedStep(candidates, y, r), x, s)

LEMMA UnsortedMovesKeep ==
    ASSUME NEW candidates, NEW x \in Places, NEW s \in Seq(Infos)
    PROVE  UnsortedMoves(candidates, x, s).c \in Builders
<1> DEFINE fold == FoldLeft(LAMBDA y, r : UnsortedStep(candidates, y, r), x, s)
<1>1. ASSUME NEW y \in Places, NEW r \in Infos PROVE UnsortedOp(candidates, y, r) \in Places
  BY UnsortedStepKeeps DEF UnsortedOp
<1>2. UnsortedFold!Fold(candidates, x, s) = fold
  BY DEF UnsortedOp, UnsortedFold!Fold, FoldLeft, MapThenFoldSet, Max, UnsortedFold!Greatest
<1> HIDE DEF fold
<1>3. UnsortedFold!Fold(candidates, x, s) \in Places
  BY <1>1, UnsortedFold!FoldStays
<1>4. fold \in Places
  BY <1>2, <1>3
<1>5. fold.c \in Builders
  BY <1>4 DEF Places
<1> QED BY <1>5 DEF fold, UnsortedMoves

-----------------------------------------------------------------------------
(* The longest match                                                       *)

\* A match, in the first k rows of a from row b1 on and in b from b2 to e2; none at all
\* if its size is 0.
Bests(b1, k, b2, e2) ==
    {m \in [i : Int, j : Int, size : Nat, modified : Int] :
        m.size > 0 => b1 <= m.i /\ m.i + m.size <= k /\ b2 <= m.j /\ m.j + m.size <= e2}

\* The lengths of the matches that end in some row, n rows after b1, by their end in b
Lengths == UNION {[S -> Nat] : S \in SUBSET Nat}
MatchRows(b1, k, b2, e2) ==
    {x \in [best : Bests(b1, k, b2, e2), prev : Lengths] :
        \A j \in DOMAIN x.prev : /\ j \in b2..(e2 - 1)
                                 /\ x.prev[j] \in Nat \ {0} /\ x.prev[j] <= k - b1 /\ x.prev[j] <= j - b2 + 1}

LEMMA ModifiedInTyped ==
    ASSUME NEW mod \in Sets, NEW from \in Int, NEW to \in Int
    PROVE  ModifiedIn(mod, from, to) \in Int
<1>1. Count(mod, from, to) \in Nat
  BY CountTyped
<1> QED BY <1>1 DEF ModifiedIn

LEMMA BetterMatchKeeps ==
    ASSUME NEW mod \in Sets, NEW b1 \in Nat, NEW k \in Nat, NEW b2 \in Nat, NEW e2 \in Nat,
           NEW best \in Bests(b1, k + 1, b2, e2), NEW j \in b2..(e2 - 1),
           NEW size \in Nat \ {0}, size <= k + 1 - b1, size <= j - b2 + 1
    PROVE  BetterMatch(mod, best, k, j, size) \in Bests(b1, k + 1, b2, e2)
<1> DEFINE known == IF best.modified = NPosIndex THEN ModifiedIn(mod, best.j - size + 1, best.j + 1) ELSE best.modified
           here == ModifiedIn(mod, j - size + 1, j + 1)
           found == [i |-> k - size + 1, j |-> j - size + 1, size |-> size, modified |-> NPosIndex]
           y == BetterMatch(mod, best, k, j, size)
           T == Bests(b1, k + 1, b2, e2)
<1>1. /\ best.i \in Int /\ best.j \in Int /\ best.size \in Nat /\ best.modified \in Int
      /\ best = [i |-> best.i, j |-> best.j, size |-> best.size, modified |-> best.modified]
  BY DEF Bests
<1>2. known \in Int /\ here \in Int
  <2>1. j - size + 1 \in Int /\ j + 1 \in Int /\ best.j - size + 1 \in Int /\ best.j + 1 \in Int
    BY <1>1
  <2>2. ModifiedIn(mod, best.j - size + 1, best.j + 1) \in Int /\ here \in Int
    BY <2>1, ModifiedInTyped
  <2> HIDE DEF here
  <2> QED BY <2>2, <1>1
<1>3. y = CASE size > best.size -> found
            [] size = best.size /\ here < known -> [found EXCEPT !.modified = here]
            [] size = best.size /\ here >= known -> [best EXCEPT !.modified = known]
            [] OTHER -> best
  BY DEF BetterMatch
<1> HIDE DEF y, known, here
<1>4. found \in T /\ [found EXCEPT !.modified = here] \in T
  <2> DEFINE i0 == k - size + 1
             j0 == j - size + 1
  <2>1. /\ i0 \in Int /\ j0 \in Int /\ NPosIndex \in Int
        /\ b1 <= i0 /\ i0 + size <= k + 1 /\ b2 <= j0 /\ j0 + size <= e2
    BY DEF NPosIndex
  <2> HIDE DEF i0, j0
  <2>2. \A n \in Int : [i |-> i0, j |-> j0, size |-> size, modified |-> n] \in T
    BY <2>1 DEF Bests
  <2>3. found = [i |-> i0, j |-> j0, size |-> size, modified |-> NPosIndex]
        /\ [found EXCEPT !.modified = here] = [i |-> i0, j |-> j0, size |-> size, modified |-> here]
    BY DEF i0, j0
  <2> HIDE DEF found, T
  <2> QED BY <2>1, <2>2, <2>3, <1>2
<1>5. [best EXCEPT !.modified = known] \in T /\ best \in T
  <2>1. [best EXCEPT !.modified = known] = [i |-> best.i, j |-> best.j, size |-> best.size, modified |-> known]
    BY <1>1
  <2>2. best.size > 0 => b1 <= best.i /\ best.i + best.size <= k + 1 /\ b2 <= best.j /\ best.j + best.size <= e2
    BY DEF Bests
  <2> QED BY <2>1, <2>2, <1>1, <1>2 DEF Bests
<1> HIDE DEF found, T
<1>6. y = found \/ y = [found EXCEPT !.modified = here] \/ y = [best EXCEPT !.modified = known] \/ y = best
  BY <1>3
<1>7. y \in T
  BY <1>4, <1>5, <1>6
<1> QED BY <1>7 DEF y, T

\* The inner loop of find_longest_match; c has the modifications, the row and the lengths
MatchOp(c, y, j) == BetterMatch(c[1], y, c[2], j, MatchLength(c[3], j))
MatchFold == INSTANCE FoldTheorems WITH op <- MatchOp

LEMMA MatchLengthFacts ==
    ASSUME NEW b1 \in Nat, NEW k \in Nat, b1 <= k, NEW b2 \in Nat, NEW e2 \in Nat,
           NEW x \in MatchRows(b1, k, b2, e2), NEW j \in b2..(e2 - 1)
    PROVE  /\ MatchLength(x.prev, j) \in Nat \ {0}
           /\ MatchLength(x.prev, j) <= k + 1 - b1 /\ MatchLength(x.prev, j) <= j - b2 + 1
<1> DEFINE p == x.prev
           h == j - 1
<1>1. h \in DOMAIN p => h \in b2..(e2 - 1) /\ p[h] \in Nat \ {0} /\ p[h] <= k - b1 /\ p[h] <= h - b2 + 1
  BY DEF MatchRows
<1>2. MatchLength(p, j) = IF h \in DOMAIN p THEN p[h] + 1 ELSE 1
  BY DEF MatchLength
<1>3. h = j - 1 /\ j \in Nat
  OBVIOUS
<1> HIDE DEF p, h
<1>4. MatchLength(p, j) \in Nat \ {0} /\ MatchLength(p, j) <= k + 1 - b1 /\ MatchLength(p, j) <= j - b2 + 1
  <2> DEFINE l == p[h]
             y == MatchLength(p, j)
  <2>1. CASE h \in DOMAIN p
    <3>1. y = l + 1 /\ l \in Nat \ {0} /\ l <= k - b1 /\ l <= h - b2 + 1
      BY <2>1, <1>1, <1>2
    <3> HIDE DEF l, y
    <3>2. y \in Nat \ {0} /\ y <= k + 1 - b1 /\ y <= j - b2 + 1
      BY <3>1, <1>3
    <3> QED BY <3>2 DEF y
  <2>2. CASE h \notin DOMAIN p
    <3>1. y = 1
      BY <2>2, <1>2
    <3> HIDE DEF l, y
    <3>2. y \in Nat \ {0} /\ y <= k + 1 - b1 /\ y <= j - b2 + 1
      BY <3>1, <1>3
    <3> QED BY <3>2 DEF y
  <2> QED BY <2>1, <2>2
<1> QED BY <1>4 DEF p

LEMMA MatchRowKeeps ==
    ASSUME NEW a, NEW b, NEW mod \in Sets, NEW b1 \in Nat, NEW k \in Nat, b1 <= k, NEW b2 \in Nat, NEW e2 \in Nat,
           NEW x \in MatchRows(b1, k, b2, e2)
    PROVE  MatchRow(a, b, mod, b2, e2, x, k) \in MatchRows(b1, k + 1, b2, e2)
<1> DEFINE S == {j \in b2..(e2 - 1) : At(b, j) = At(a, k)}
           s == InOrder(S)
           p == x.prev
           fold == FoldLeft(LAMBDA y, j : BetterMatch(mod, y, k, j, MatchLength(p, j)), x.best, s)
           lengths == [j \in ToSet(s) |-> MatchLength(p, j)]
           d == <<mod, k, p>>
           T == Bests(b1, k + 1, b2, e2)
<1>1. MatchRow(a, b, mod, b2, e2, x, k) = [best |-> fold, prev |-> lengths]
  BY DEF MatchRow
<1>2. IsFiniteSet(S) /\ S \in SUBSET (b2..(e2 - 1)) /\ S \in SUBSET Nat
  <2> DEFINE R == b2..(e2 - 1)
  <2>1. R \in SUBSET Nat /\ S \in SUBSET R
    OBVIOUS
  <2>2. IsFiniteSet(R)
    <3> DEFINE h == e2 - 1
    <3>1. h \in Int
      OBVIOUS
    <3> HIDE DEF h
    <3>2. IsFiniteSet(b2..h)
      BY <3>1, FS_Interval
    <3> QED BY <3>2 DEF h
  <2> HIDE DEF S, R
  <2>3. IsFiniteSet(S) /\ S \in SUBSET Nat
    BY <2>1, <2>2, FS_Subset
  <2> QED BY <2>1, <2>3 DEF R
<1> HIDE DEF S
<1>3. s \in Seq(S) /\ ToSet(s) = S
  <2>1. s \in Increasing /\ Entries(s) = S
    BY <1>2, InOrderFacts
  <2> HIDE DEF s
  <2>2. s \in Seq(Nat) /\ DOMAIN s = 1..Len(s) /\ Len(s) \in Nat /\ S = {s[i] : i \in 1..Len(s)}
    BY <2>1 DEF Increasing, Entries
  <2>3. \A i \in 1..Len(s) : s[i] \in S
    BY <2>2
  <2>4. s \in Seq(S)
    BY <2>2, <2>3
  <2> QED BY <2>2, <2>4 DEF ToSet
<1> HIDE DEF s
<1>4. x.best \in T
  <2>1. x.best \in Bests(b1, k, b2, e2)
    BY DEF MatchRows
  <2> QED BY <2>1 DEF Bests
<1>5. \A j \in S : /\ MatchLength(p, j) \in Nat \ {0}
                   /\ MatchLength(p, j) <= k + 1 - b1 /\ MatchLength(p, j) <= j - b2 + 1
  BY <1>2, MatchLengthFacts
<1>6. ASSUME NEW y \in T, NEW j \in S PROVE MatchOp(d, y, j) \in T
  <2> DEFINE size == MatchLength(p, j)
  <2>1. size \in Nat \ {0} /\ size <= k + 1 - b1 /\ size <= j - b2 + 1 /\ j \in b2..(e2 - 1)
    BY <1>2, <1>5
  <2> HIDE DEF size
  <2>2. BetterMatch(mod, y, k, j, size) \in T
    BY <2>1, BetterMatchKeeps
  <2>3. MatchOp(d, y, j) = BetterMatch(mod, y, k, j, size)
    BY DEF MatchOp, size
  <2> QED BY <2>2, <2>3
<1>7. MatchFold!Fold(d, x.best, s) = fold
  BY DEF MatchOp, MatchFold!Fold, FoldLeft, MapThenFoldSet, Max, MatchFold!Greatest
<1>8. fold \in T
  <2> HIDE DEF fold, d, T
  <2> DEFINE u == x.best
  <2>1. u \in T
    BY <1>4
  <2> HIDE DEF u
  <2>2. MatchFold!Fold(d, u, s) \in T
    BY <2>1, <1>3, <1>6, MatchFold!FoldStays
  <2> QED BY <2>2, <1>7 DEF u
<1> HIDE DEF fold, T
<1>9. lengths \in Lengths /\ DOMAIN lengths = S /\ \A j \in S : lengths[j] = MatchLength(p, j)
  <2>1. DOMAIN lengths = S /\ \A j \in S : lengths[j] = MatchLength(p, j)
    BY <1>3
  <2>2. lengths \in [S -> Nat]
    BY <1>3, <1>5
  <2> HIDE DEF lengths
  <2>3. lengths \in Lengths
    BY <2>2, <1>2 DEF Lengths
  <2> QED BY <2>1, <2>3
<1> HIDE DEF lengths, p
<1> DEFINE r == [best |-> fold, prev |-> lengths]
<1>10. r \in [best : T, prev : Lengths] /\ r.prev = lengths
  BY <1>8, <1>9
<1> HIDE DEF r
<1>11. \A j \in DOMAIN r.prev : /\ j \in b2..(e2 - 1)
                             /\ r.prev[j] \in Nat \ {0} /\ r.prev[j] <= k + 1 - b1 /\ r.prev[j] <= j - b2 + 1
  <2>1. DOMAIN lengths = S /\ \A j \in S : j \in b2..(e2 - 1) /\ lengths[j] = MatchLength(p, j)
    BY <1>2, <1>9
  <2> TAKE j \in DOMAIN r.prev
  <2>2. j \in S /\ r.prev[j] = MatchLength(p, j) /\ j \in b2..(e2 - 1)
    BY <1>10, <2>1
  <2>3. /\ MatchLength(p, j) \in Nat \ {0}
        /\ MatchLength(p, j) <= k + 1 - b1 /\ MatchLength(p, j) <= j - b2 + 1
    BY <2>2, <1>5
  <2> QED BY <2>2, <2>3
<1>12. r \in MatchRows(b1, k + 1, b2, e2)
  BY <1>10, <1>11 DEF MatchRows, T
<1> QED BY <1>1, <1>12 DEF r

\* The outer loop; c has the two results, the modifications and the part of b
MatchRowOp(c, x, i) == MatchRow(c[1], c[2], c[3], c[4], c[5], x, i)
RowFold == INSTANCE FoldTheorems WITH op <- MatchRowOp

LEMMA LongestMatchFacts ==
    ASSUME NEW a, NEW b, NEW mod \in Sets, NEW b1 \in Nat, NEW e1 \in Nat, NEW b2 \in Nat, NEW e2 \in Nat
    PROVE  FindLongestMatch(a, b, mod, b1, e1, b2, e2) \in Bests(b1, e1, b2, e2)
<1> DEFINE E == <<>>
           best0 == [i |-> b1, j |-> b2, size |-> 0, modified |-> 0]
           start == [best |-> best0, prev |-> E]
           s == [k \in 1..(e1 - b1) |-> b1 + k - 1]
           n == IF b1 <= e1 THEN e1 - b1 ELSE 0
           d == <<a, b, mod, b2, e2>>
           fold == FoldLeft(LAMBDA x, i : MatchRow(a, b, mod, b2, e2, x, i), start, s)
           Inv == [k \in 0..n |-> MatchRows(b1, b1 + k, b2, e2)]
<1>1. FindLongestMatch(a, b, mod, b1, e1, b2, e2) = fold.best
  BY DEF FindLongestMatch
<1>2. RowFold!Fold(d, start, s) = fold
  BY DEF MatchRowOp, RowFold!Fold, FoldLeft, MapThenFoldSet, Max, RowFold!Greatest
<1> HIDE DEF fold
<1>3. n \in Nat /\ DOMAIN s = 1..n /\ \A k \in 1..n : s[k] = b1 + k - 1 /\ s[k] = b1 + (k - 1)
  <2>1. 1..(e1 - b1) = 1..n
    OBVIOUS
  <2> QED BY <2>1
<1>4. start \in MatchRows(b1, b1, b2, e2)
  <2>1. best0 \in Bests(b1, b1, b2, e2)
    BY DEF Bests
  <2>2. E \in Lengths /\ DOMAIN E = {}
    <3>1. DOMAIN E = {} /\ E \in [{} -> Nat]
      OBVIOUS
    <3> HIDE DEF E
    <3> QED BY <3>1 DEF Lengths
  <2> HIDE DEF best0, E
  <2> QED BY <2>1, <2>2 DEF MatchRows
<1>5. Inv[0] = MatchRows(b1, b1, b2, e2) /\ Inv[n] = MatchRows(b1, b1 + n, b2, e2)
      /\ \A k \in 1..n : Inv[k - 1] = MatchRows(b1, b1 + (k - 1), b2, e2) /\ Inv[k] = MatchRows(b1, b1 + k, b2, e2)
  <2>1. 0 \in 0..n /\ n \in 0..n /\ b1 + 0 = b1 /\ \A k \in 1..n : k - 1 \in 0..n /\ k \in 0..n
    BY <1>3
  <2> HIDE DEF n
  <2> QED BY <2>1
<1> HIDE DEF Inv
<1>6. \A k \in 1..n : \A x \in Inv[k - 1] : MatchRowOp(d, x, s[k]) \in Inv[k]
  <2> TAKE k \in 1..n
  <2> TAKE x \in Inv[k - 1]
  <2> DEFINE h == b1 + (k - 1)
  <2>1. h \in Nat /\ b1 <= h /\ s[k] = h /\ b1 + k = h + 1
    BY <1>3
  <2>2. x \in MatchRows(b1, h, b2, e2)
    BY <1>5
  <2> HIDE DEF h
  <2>3. MatchRow(a, b, mod, b2, e2, x, h) \in MatchRows(b1, h + 1, b2, e2)
    BY <2>1, <2>2, MatchRowKeeps
  <2>4. MatchRowOp(d, x, s[k]) = MatchRow(a, b, mod, b2, e2, x, h)
    BY <2>1 DEF MatchRowOp
  <2> QED BY <2>1, <2>3, <2>4, <1>5
<1>7. start \in Inv[0]
  BY <1>4, <1>5
<1> HIDE DEF d, start, s
<1>8. fold \in MatchRows(b1, b1 + n, b2, e2)
  <2> HIDE DEF n
  <2>1. RowFold!Fold(d, start, s) \in Inv[n]
    BY <1>3, <1>6, <1>7, RowFold!FoldInvariant
  <2> QED BY <2>1, <1>2, <1>5
<1> DEFINE m == fold.best
<1>9. m \in Bests(b1, b1 + n, b2, e2)
  BY <1>8 DEF MatchRows
<1> HIDE DEF m
<1>10. m \in Bests(b1, e1, b2, e2)
  BY <1>9 DEF Bests
<1> QED BY <1>1, <1>10 DEF m

-----------------------------------------------------------------------------
(* All the matches                                                         *)

\* Matches in two sequences of n rows and more
Matches(n) == {m \in [i : Nat, j : Nat, size : Nat, modified : Int] : m.i + m.size <= n /\ m.j + m.size <= n}

\* The body of the recursion of find_longest_matches; c has the two results and the
\* modifications.
SearchOp(c, f, r) ==
    LET m == FindLongestMatch(c[1], c[2], c[3], r[1], r[2], r[3], r[4])
    IN IF m.size = 0 THEN <<>>
       ELSE (IF m.i > r[1] /\ m.j > r[3] THEN f[<<r[1], m.i, r[3], m.j>>] ELSE <<>>)
            \o <<m>>
            \o (IF m.i + m.size < r[4] /\ m.j + m.size < r[4]
                THEN f[<<m.i + m.size, r[2], m.j + m.size, r[4]>>] ELSE <<>>)
SearchFold == INSTANCE FoldTheorems WITH op <- SearchOp

Quads == Nat \X Nat \X Nat \X Nat
Width(r) == IF r[2] > r[1] THEN r[2] - r[1] ELSE 0

LEMMA QuadParts ==
    ASSUME NEW r \in Quads
    PROVE  r[1] \in Nat /\ r[2] \in Nat /\ r[3] \in Nat /\ r[4] \in Nat /\ r = <<r[1], r[2], r[3], r[4]>>
BY DEF Quads

LEMMA QuadOf ==
    ASSUME NEW a \in Nat, NEW b \in Nat, NEW c \in Nat, NEW d \in Nat
    PROVE  /\ <<a, b, c, d>> \in Quads
           /\ <<a, b, c, d>>[1] = a /\ <<a, b, c, d>>[2] = b /\ <<a, b, c, d>>[3] = c /\ <<a, b, c, d>>[4] = d
BY DEF Quads

LEMMA WidthNatural ==
    ASSUME NEW r \in Quads
    PROVE  Width(r) \in Nat
BY QuadParts DEF Width

\* The two parts left and right of a match are smaller.
LEMMA PartsAreSmaller ==
    ASSUME NEW a, NEW b, NEW mod \in Sets, NEW r \in Quads,
           NEW m, m = FindLongestMatch(a, b, mod, r[1], r[2], r[3], r[4]), m.size # 0
    PROVE  /\ m \in [i : Nat, j : Nat, size : Nat, modified : Int]
           /\ m.i + m.size <= r[2] /\ m.j + m.size <= r[4]
           /\ <<r[1], m.i, r[3], m.j>> \in Quads
           /\ <<m.i + m.size, r[2], m.j + m.size, r[4]>> \in Quads
           /\ Width(<<r[1], m.i, r[3], m.j>>) < Width(r)
           /\ Width(<<m.i + m.size, r[2], m.j + m.size, r[4]>>) < Width(r)
<1> DEFINE b1 == r[1]
           e1 == r[2]
           b2 == r[3]
           e2 == r[4]
           i == m.i
           j == m.j
           n == m.size
           left == <<b1, i, b2, j>>
           right == <<i + n, e1, j + n, e2>>
<1>1. b1 \in Nat /\ e1 \in Nat /\ b2 \in Nat /\ e2 \in Nat
  BY QuadParts
<1> HIDE DEF b1, e1, b2, e2
<1>2. m \in Bests(b1, e1, b2, e2)
  BY <1>1, LongestMatchFacts DEF b1, e1, b2, e2
<1>3. /\ i \in Int /\ j \in Int /\ n \in Nat /\ m.modified \in Int
      /\ m = [i |-> i, j |-> j, size |-> n, modified |-> m.modified]
      /\ n > 0 => b1 <= i /\ i + n <= e1 /\ b2 <= j /\ j + n <= e2
  BY <1>2 DEF Bests
<1>4. n \in Nat \ {0}
  BY <1>3
<1> HIDE DEF i, j, n
<1>5. i \in Nat /\ j \in Nat /\ b1 <= i /\ i + n <= e1 /\ b2 <= j /\ j + n <= e2 /\ i + n \in Nat /\ j + n \in Nat
  BY <1>1, <1>3, <1>4
<1>6. m \in [i : Nat, j : Nat, size : Nat, modified : Int]
  BY <1>3, <1>5
<1>7. left \in Quads /\ left[1] = b1 /\ left[2] = i
  BY <1>1, <1>5, QuadOf
<1>8. right \in Quads /\ right[1] = i + n /\ right[2] = e1
  BY <1>1, <1>5, QuadOf
<1> HIDE DEF left, right
<1>9. Width(left) < Width(r)
  BY <1>1, <1>4, <1>5, <1>7 DEF Width, b1, e1
<1>10. Width(right) < Width(r)
  BY <1>1, <1>4, <1>5, <1>8 DEF Width, b1, e1
<1> QED BY <1>5, <1>6, <1>7, <1>8, <1>9, <1>10 DEF left, right, i, j, n, b1, e1, b2, e2

LEMMA SearchIsLocal ==
    ASSUME NEW a, NEW b, NEW mod \in Sets, NEW r \in Quads, NEW f, NEW g,
           \A q \in Quads : Width(q) < Width(r) => f[q] = g[q]
    PROVE  SearchOp(<<a, b, mod>>, f, r) = SearchOp(<<a, b, mod>>, g, r)
<1> DEFINE m == FindLongestMatch(a, b, mod, r[1], r[2], r[3], r[4])
           left == <<r[1], m.i, r[3], m.j>>
           right == <<m.i + m.size, r[2], m.j + m.size, r[4]>>
           Both(w) == (IF m.i > r[1] /\ m.j > r[3] THEN w[left] ELSE <<>>)
                      \o <<m>>
                      \o (IF m.i + m.size < r[4] /\ m.j + m.size < r[4] THEN w[right] ELSE <<>>)
<1>1. \A w : SearchOp(<<a, b, mod>>, w, r) = IF m.size = 0 THEN <<>> ELSE Both(w)
  BY DEF SearchOp
<1>2. CASE m.size = 0
  <2> HIDE DEF m, Both
  <2> QED BY <1>1, <1>2
<1>3. CASE m.size # 0
  <2>1. left \in Quads /\ right \in Quads /\ Width(left) < Width(r) /\ Width(right) < Width(r)
    <3> HIDE DEF m
    <3> QED BY <1>3, PartsAreSmaller DEF m
  <2> HIDE DEF left, right
  <2>2. f[left] = g[left] /\ f[right] = g[right]
    BY <2>1
  <2> HIDE DEF m
  <2>3. Both(f) = Both(g)
    BY <2>2
  <2> HIDE DEF Both
  <2> QED BY <1>1, <1>3, <2>3
<1> QED BY <1>2, <1>3

LEMMA SearchExists ==
    ASSUME NEW a, NEW b, NEW mod \in Sets
    PROVE  \E h : h = [r \in Quads |-> SearchOp(<<a, b, mod>>, h, r)]
<1> DEFINE c == <<a, b, mod>>
           size == [r \in Quads |-> Width(r)]
<1>1. size \in [Quads -> Nat] /\ \A r \in Quads : size[r] = Width(r)
  BY WidthNatural
<1>2. ASSUME NEW r \in Quads, NEW f, NEW g, \A q \in Quads : size[q] < size[r] => f[q] = g[q]
      PROVE  SearchOp(c, f, r) = SearchOp(c, g, r)
  <2>1. \A q \in Quads : Width(q) < Width(r) => f[q] = g[q]
    <3> HIDE DEF size
    <3> QED BY <1>1, <1>2
  <2> QED BY <2>1, SearchIsLocal
<1> HIDE DEF size, c
<1>3. SearchFold!AsksBelow(c, Quads, size)
  BY <1>2 DEF SearchFold!AsksBelow
<1>4. \E h : SearchFold!Recursion(h, c, Quads)
  BY <1>1, <1>3, SearchFold!RecursionDefines
<1>5. \E h : h = [r \in Quads |-> SearchOp(c, h, r)]
  BY <1>4 DEF SearchFold!Recursion
<1> QED BY <1>5 DEF c

LEMMA SearchStays ==
    ASSUME NEW a, NEW b, NEW mod \in Sets, NEW n \in Nat, NEW h, h = [r \in Quads |-> SearchOp(<<a, b, mod>>, h, r)],
           NEW q \in Quads, q[2] <= n, q[4] <= n
    PROVE  h[q] \in Seq(Matches(n))
<1> DEFINE Bad == {k \in Nat : \E r \in Quads : Width(r) = k /\ r[2] <= n /\ r[4] <= n /\ h[r] \notin Seq(Matches(n))}
<1>1. ASSUME Bad # {} PROVE FALSE
  <2>1. PICK k \in Bad : \A i \in Bad : k <= i
    BY <1>1, LeastNatural
  <2>2. PICK r \in Quads : Width(r) = k /\ r[2] <= n /\ r[4] <= n /\ h[r] \notin Seq(Matches(n))
    BY <2>1
  <2>8. \A i \in Nat : (\E s \in Quads : Width(s) = i /\ s[2] <= n /\ s[4] <= n /\ h[s] \notin Seq(Matches(n))) => k <= i
    BY <2>1
  <2>9. k \in Nat
    BY <2>1
  <2>3. ASSUME NEW u \in Quads, Width(u) < Width(r), u[2] <= n, u[4] <= n PROVE h[u] \in Seq(Matches(n))
    <3>1. Width(u) \in Nat /\ Width(r) \in Nat
      BY WidthNatural
    <3> DEFINE i == Width(u)
               T == Seq(Matches(n))
    <3> HIDE DEF Bad, T
    <3>2. i \in Nat /\ ~(k <= i)
      BY <2>2, <2>3, <2>9, <3>1
    <3>3. ~(u[2] <= n /\ u[4] <= n /\ h[u] \notin T)
      BY <3>2, <2>8 DEF T
    <3>4. h[u] \in T
      BY <3>3, <2>3
    <3> QED BY <3>4 DEF T
  <2> HIDE DEF Bad
  <2>4. h[r] = SearchOp(<<a, b, mod>>, h, r)
    BY Zenon
  <2> DEFINE m == FindLongestMatch(a, b, mod, r[1], r[2], r[3], r[4])
             left == <<r[1], m.i, r[3], m.j>>
             right == <<m.i + m.size, r[2], m.j + m.size, r[4]>>
             x == IF m.i > r[1] /\ m.j > r[3] THEN h[left] ELSE <<>>
             y == IF m.i + m.size < r[4] /\ m.j + m.size < r[4] THEN h[right] ELSE <<>>
  <2>5. h[r] = IF m.size = 0 THEN <<>> ELSE x \o <<m>> \o y
    BY <2>4 DEF SearchOp
  <2>6. CASE m.size = 0
    <3> HIDE DEF m, x, y
    <3> DEFINE E == <<>>
    <3>1. h[r] = E /\ E \in Seq(Matches(n))
      BY <2>5, <2>6
    <3> HIDE DEF E
    <3> QED BY <3>1, <2>2
  <2>7. CASE m.size # 0
    <3> DEFINE T == Matches(n)
    <3> HIDE DEF m
    <3>1. /\ m \in [i : Nat, j : Nat, size : Nat, modified : Int]
          /\ m.i + m.size <= r[2] /\ m.j + m.size <= r[4]
          /\ left \in Quads /\ right \in Quads /\ Width(left) < Width(r) /\ Width(right) < Width(r)
      BY <2>7, PartsAreSmaller DEF m
    <3>2. /\ m.i \in Nat /\ m.j \in Nat /\ m.size \in Nat
          /\ r[1] \in Nat /\ r[2] \in Nat /\ r[3] \in Nat /\ r[4] \in Nat
      BY <3>1, QuadParts
    <3>3. m.i <= n /\ m.j <= n /\ m.i + m.size <= n /\ m.j + m.size <= n /\ m.i + m.size \in Nat /\ m.j + m.size \in Nat
      BY <3>1, <3>2, <2>2
    <3>4. left[2] = m.i /\ left[4] = m.j /\ right[2] = r[2] /\ right[4] = r[4]
      BY <3>2, <3>3, QuadOf
    <3> HIDE DEF left, right
    <3>5. h[left] \in Seq(T) /\ h[right] \in Seq(T)
      BY <3>1, <3>3, <3>4, <2>3, <2>2
    <3>6. m \in T
      BY <3>1, <3>3 DEF Matches
    <3> HIDE DEF T
    <3>7. x \in Seq(T) /\ y \in Seq(T)
      BY <3>5
    <3> HIDE DEF x, y
    <3>8. <<m>> \in Seq(T)
      BY <3>6
    <3>9. x \o <<m>> \o y \in Seq(T)
      BY <3>7, <3>8
    <3> QED BY <3>9, <2>5, <2>7, <2>2 DEF T
  <2> QED BY <2>6, <2>7
<1>2. ASSUME h[q] \notin Seq(Matches(n)) PROVE FALSE
  <2>1. Width(q) \in Nat
    BY WidthNatural
  <2>2. Width(q) \in Bad
    BY <2>1, <1>2
  <2> QED BY <2>2, <1>1
<1> QED BY <1>2

LEMMA LongestMatchesFacts ==
    ASSUME NEW a, NEW b, NEW mod \in Sets, NEW b1 \in Nat, NEW e1 \in Nat, NEW b2 \in Nat, NEW e2 \in Nat,
           NEW n \in Nat, e1 <= n, e2 <= n
    PROVE  FindLongestMatches(a, b, mod, b1, e1, b2, e2) \in Seq(Matches(n))
<1> DEFINE c == <<a, b, mod>>
           Body(f, r) ==
               LET m == FindLongestMatch(a, b, mod, r[1], r[2], r[3], r[4])
               IN IF m.size = 0 THEN <<>>
                  ELSE (IF m.i > r[1] /\ m.j > r[3] THEN f[<<r[1], m.i, r[3], m.j>>] ELSE <<>>)
                       \o <<m>>
                       \o (IF m.i + m.size < r[4] /\ m.j + m.size < r[4]
                           THEN f[<<m.i + m.size, r[2], m.j + m.size, r[4]>>] ELSE <<>>)
           h == CHOOSE f : f = [r \in Quads |-> Body(f, r)]
           q == <<b1, e1, b2, e2>>
<1>1. FindLongestMatches(a, b, mod, b1, e1, b2, e2) = h[q]
  BY DEF FindLongestMatches, Quads
<1>2. \A f, r : Body(f, r) = SearchOp(c, f, r)
  BY DEF SearchOp
<1> HIDE DEF Body
<1>5. h = [r \in Quads |-> SearchOp(c, h, r)]
  <2>1. PICK f : f = [r \in Quads |-> SearchOp(c, f, r)]
    BY SearchExists
  <2>2. f = [r \in Quads |-> Body(f, r)]
    <3> HIDE DEF c
    <3> QED BY <2>1, <1>2
  <2>3. h = [r \in Quads |-> Body(h, r)]
    BY <2>2
  <2> HIDE DEF h, c
  <2> QED BY <2>3, <1>2
<1>3. q \in Quads /\ q[2] = e1 /\ q[4] = e2
  BY QuadOf
<1> HIDE DEF h, q
<1>4. h[q] \in Seq(Matches(n))
  BY <1>5, <1>3, SearchStays DEF c
<1> QED BY <1>1, <1>4

-----------------------------------------------------------------------------
(* Sorted results                                                          *)

LEMMA FunctionIsSequence ==
    ASSUME NEW S, NEW n \in Nat, NEW s \in [1..n -> S]
    PROVE  s \in Seq(S) /\ Len(s) = n
<1>1. s \in Seq(S)
  OBVIOUS
<1>2. DOMAIN s = 1..n /\ DOMAIN s = 1..Len(s) /\ Len(s) \in Nat
  BY <1>1
<1> QED BY <1>1, <1>2

\* A finite set in an order, as InOrderBy has it
LEMMA RankedFacts ==
    ASSUME NEW S, IsFiniteSet(S), NEW L, OrderOn(S, L),
           NEW s, s = [k \in 1..Cardinality(S) |-> s[k]],
           \A k \in 1..Cardinality(S) : (\E x \in S : Rank(S, L, x) = k - 1) => s[k] \in S /\ Rank(S, L, s[k]) = k - 1
    PROVE  s \in Seq(S) /\ Len(s) = Cardinality(S) /\ Distinct(s)
<1> DEFINE n == Cardinality(S)
<1>1. n \in Nat /\ \A k \in 1..n : \E x \in S : Rank(S, L, x) = k - 1
  BY RanksAreTaken
<1>2. \A k \in 1..n : s[k] \in S /\ Rank(S, L, s[k]) = k - 1
  BY <1>1
<1>3. s = [k \in 1..n |-> s[k]]
  OBVIOUS
<1> HIDE DEF n
<1>4. s \in Seq(S) /\ Len(s) = n
  <2>1. s \in [1..n -> S] /\ DOMAIN s = 1..n
    BY <1>2, <1>3
  <2>2. n \in Nat
    BY <1>1
  <2> QED BY <2>1, <2>2, FunctionIsSequence
<1>5. \A h, k \in 1..n : h # k => s[h] # s[k]
  <2> SUFFICES ASSUME NEW h \in 1..n, NEW k \in 1..n, h # k, s[h] = s[k] PROVE FALSE
    OBVIOUS
  <2>1. h - 1 = k - 1
    BY <1>2
  <2> QED BY <2>1, <1>1
<1> QED BY <1>4, <1>5 DEF Distinct, n

\* The members of a sequence are not more than its length.
LEMMA MembersOf ==
    ASSUME NEW S, NEW s \in Seq(S)
    PROVE  IsFiniteSet(ToSet(s)) /\ Cardinality(ToSet(s)) <= Len(s) /\ ToSet(s) \in SUBSET S /\ Cardinality(ToSet(s)) \in Nat
<1> DEFINE D == 1..Len(s)
<1>1. DOMAIN s = D /\ Len(s) \in Nat /\ s = [k \in D |-> s[k]] /\ \A k \in D : s[k] \in S
  OBVIOUS
<1>2. IsFiniteSet(D) /\ Cardinality(D) = Len(s)
  BY <1>1, CardinalityOfFirst
<1> HIDE DEF D
<1>3. IsFiniteSet({s[k] : k \in D}) /\ Cardinality({s[k] : k \in D}) <= Cardinality(D)
  BY <1>1, <1>2, ImageFinite
<1>4. ToSet(s) = {s[k] : k \in D}
  BY <1>1 DEF ToSet
<1>5. {s[k] : k \in D} \in SUBSET S
  BY <1>1
<1>6. Cardinality(ToSet(s)) \in Nat
  BY <1>3, <1>4, FS_CardinalityType
<1> QED BY <1>2, <1>3, <1>4, <1>5, <1>6

\* The rows of both results, in the order of the old one
InOldOrder(both) == InOrderBy(ToSet(both), LAMBDA r, s : r.prev < s.prev)

LEMMA InOldOrderFacts ==
    ASSUME NEW both \in Seq(Infos),
           \A h, k \in 1..Len(both) : h # k => both[h].prev # both[k].prev
    PROVE  InOldOrder(both) \in Seq(Infos) /\ Len(InOldOrder(both)) <= Len(both)
<1> DEFINE S == ToSet(both)
           L == {u \in S \X S : u[1].prev < u[2].prev}
           n == Cardinality(S)
           s == InOldOrder(both)
<1>1. IsFiniteSet(S) /\ n <= Len(both) /\ S \in SUBSET Infos /\ n \in Nat
  BY MembersOf
<1>2. \A r \in S : r.prev \in Nat
  BY <1>1 DEF Infos
<1>3. \A r, t \in S : r # t => r.prev # t.prev
  <2>1. S = {both[k] : k \in 1..Len(both)}
    BY DEF ToSet
  <2> HIDE DEF S
  <2> QED BY <2>1
<1>4. s = [k \in 1..n |-> CHOOSE x \in S : Cardinality({y \in S : y.prev < x.prev}) = k - 1]
  BY DEF InOldOrder, InOrderBy
<1> HIDE DEF S, s
<1>5. OrderOn(S, L)
  <2>1. \A x, y \in S : <<x, y>> \in L <=> x.prev < y.prev
    OBVIOUS
  <2> HIDE DEF L
  <2> QED BY <1>2, <1>3, <2>1 DEF OrderOn
<1>6. \A x \in S : Rank(S, L, x) = Cardinality({y \in S : y.prev < x.prev})
  <2> TAKE x \in S
  <2>1. {y \in S : <<y, x>> \in L} = {y \in S : y.prev < x.prev}
    OBVIOUS
  <2> QED BY <2>1 DEF Rank
<1>7. s = [k \in 1..n |-> s[k]]
  <2> DEFINE e(k) == CHOOSE x \in S : Cardinality({y \in S : y.prev < x.prev}) = k - 1
  <2>1. s = [k \in 1..n |-> e(k)]
    BY <1>4
  <2> HIDE DEF e
  <2> QED BY <2>1
<1>8. ASSUME NEW k \in 1..n, \E x \in S : Rank(S, L, x) = k - 1 PROVE s[k] \in S /\ Rank(S, L, s[k]) = k - 1
  <2> DEFINE e == CHOOSE x \in S : Cardinality({y \in S : y.prev < x.prev}) = k - 1
  <2>1. s[k] = e
    BY <1>4
  <2>2. \E x \in S : Cardinality({y \in S : y.prev < x.prev}) = k - 1
    BY <1>6, <1>8
  <2>3. e \in S /\ Cardinality({y \in S : y.prev < e.prev}) = k - 1
    BY <2>2
  <2> HIDE DEF e
  <2> QED BY <2>1, <2>3, <1>6
<1> HIDE DEF L
<1>9. s \in Seq(S) /\ Len(s) = n
  BY <1>1, <1>5, <1>7, <1>8, RankedFacts
<1>10. s \in Seq(Infos) /\ Len(s) <= Len(both)
  BY <1>1, <1>9
<1> QED BY <1>10 DEF s

\* Positions one after the other
Stretch(i, j) == [k \in 1..(j - i) |-> i + k - 1]
LEMMA StretchFacts ==
    ASSUME NEW n \in Nat, NEW i \in Nat, NEW j \in Nat, j <= n
    PROVE  Stretch(i, j) \in Seq(0..(n - 1))
<1> DEFINE s == Stretch(i, j)
           l == IF i <= j THEN j - i ELSE 0
<1>1. l \in Nat /\ 1..(j - i) = 1..l
  OBVIOUS
<1>2. s = [k \in 1..l |-> i + k - 1]
  BY <1>1 DEF Stretch
<1>3. \A k \in 1..l : i + k - 1 \in 0..(n - 1)
  OBVIOUS
<1> HIDE DEF l
<1>4. s \in Seq(0..(n - 1))
  BY <1>1, <1>2, <1>3
<1> QED BY <1>4

Deleting(old, s, k) == Add(s, old[k + 1].prev)
Inserting(new, s, k) == Add(s, new[k + 1].now)
DeletingFold == INSTANCE FoldTheorems WITH op <- Deleting
InsertingFold == INSTANCE FoldTheorems WITH op <- Inserting

LEMMA DeletedStretch ==
    ASSUME NEW old \in Seq(Infos), NEW n \in Nat, n <= Len(old), NEW R \in Sets, NEW s \in Seq(0..(n - 1))
    PROVE  FoldLeft(LAMBDA t, k : Add(t, old[k + 1].prev), R, s) \in Sets
<1> DEFINE fold == FoldLeft(LAMBDA t, k : Add(t, old[k + 1].prev), R, s)
           S == 0..(n - 1)
<1>1. ASSUME NEW t \in Sets, NEW k \in S PROVE Deleting(old, t, k) \in Sets
  <2> DEFINE i == old[k + 1].prev
  <2>1. k + 1 \in 1..Len(old)
    OBVIOUS
  <2>4. old[k + 1] \in Infos
    BY <2>1
  <2>2. i \in Nat
    BY <2>4 DEF Infos
  <2> HIDE DEF i
  <2>3. Add(t, i) \in Sets
    BY <2>2, SetOps
  <2> QED BY <2>3 DEF Deleting, i
<1>2. DeletingFold!Fold(old, R, s) = fold
  BY DEF Deleting, DeletingFold!Fold, FoldLeft, MapThenFoldSet, Max, DeletingFold!Greatest
<1> HIDE DEF fold, S
<1>3. DeletingFold!Fold(old, R, s) \in Sets
  BY <1>1, DeletingFold!FoldStays DEF S
<1> QED BY <1>2, <1>3 DEF fold

LEMMA InsertedStretch ==
    ASSUME NEW new \in Seq(Infos), NEW n \in Nat, n <= Len(new), NEW R \in Sets, NEW s \in Seq(0..(n - 1))
    PROVE  FoldLeft(LAMBDA t, k : Add(t, new[k + 1].now), R, s) \in Sets
<1> DEFINE fold == FoldLeft(LAMBDA t, k : Add(t, new[k + 1].now), R, s)
           S == 0..(n - 1)
<1>1. ASSUME NEW t \in Sets, NEW k \in S PROVE Inserting(new, t, k) \in Sets
  <2> DEFINE i == new[k + 1].now
  <2>1. k + 1 \in 1..Len(new)
    OBVIOUS
  <2>4. new[k + 1] \in Infos
    BY <2>1
  <2>2. i \in Nat
    BY <2>4 DEF Infos
  <2> HIDE DEF i
  <2>3. Add(t, i) \in Sets
    BY <2>2, SetOps
  <2> QED BY <2>3 DEF Inserting, i
<1>2. InsertingFold!Fold(new, R, s) = fold
  BY DEF Inserting, InsertingFold!Fold, FoldLeft, MapThenFoldSet, Max, InsertingFold!Greatest
<1> HIDE DEF fold, S
<1>3. InsertingFold!Fold(new, R, s) \in Sets
  BY <1>1, InsertingFold!FoldStays DEF S
<1> QED BY <1>2, <1>3 DEF fold

\* How far the matches have been taken over into the changes
Aligned == [i : Nat, j : Nat, c : Builders]

LEMMA AlignStepKeeps ==
    ASSUME NEW old \in Seq(Infos), NEW new \in Seq(Infos), NEW n \in Nat, n <= Len(old), n <= Len(new),
           NEW x \in Aligned, NEW m \in Matches(n)
    PROVE  AlignStep(old, new, x, m) \in Aligned
<1> DEFINE c == x.c
           p == Stretch(x.i, m.i)
           q == Stretch(x.j, m.j)
           ds == FoldLeft(LAMBDA t, k : Add(t, old[k + 1].prev), c.del, p)
           is == FoldLeft(LAMBDA t, k : Add(t, new[k + 1].now), c.ins, q)
           d == [c EXCEPT !.del = ds, !.ins = is]
           i == m.i + m.size
           j == m.j + m.size
<1>1. AlignStep(old, new, x, m) = [i |-> i, j |-> j, c |-> d]
  BY DEF AlignStep, Stretch
<1>2. x.i \in Nat /\ x.j \in Nat /\ c \in Builders
  BY DEF Aligned
<1>3. m.i \in Nat /\ m.j \in Nat /\ m.size \in Nat /\ m.i <= n /\ m.j <= n /\ i \in Nat /\ j \in Nat
  BY DEF Matches
<1>4. p \in Seq(0..(n - 1)) /\ q \in Seq(0..(n - 1))
  BY <1>2, <1>3, StretchFacts
<1>5. c.del \in Sets /\ c.ins \in Sets
  BY <1>2, BuilderParts
<1> HIDE DEF p, q, c
<1>6. ds \in Sets /\ is \in Sets
  <2> DEFINE a == c.del
             b == c.ins
  <2>1. a \in Sets /\ b \in Sets
    BY <1>5
  <2> HIDE DEF a, b
  <2>2. FoldLeft(LAMBDA t, k : Add(t, old[k + 1].prev), a, p) \in Sets
    BY <2>1, <1>4, DeletedStretch
  <2>3. FoldLeft(LAMBDA t, k : Add(t, new[k + 1].now), b, q) \in Sets
    BY <2>1, <1>4, InsertedStretch
  <2> QED BY <2>2, <2>3 DEF a, b
<1> HIDE DEF ds, is
<1>7. d = [[c EXCEPT !.del = ds] EXCEPT !.ins = is]
  OBVIOUS
<1>8. d \in Builders
  BY <1>2, <1>6, <1>7, BuilderWith
<1> HIDE DEF d, i, j
<1>9. [i |-> i, j |-> j, c |-> d] \in Aligned
  BY <1>3, <1>8 DEF Aligned
<1> QED BY <1>1, <1>9 DEF d, i, j, ds, is, c, p, q

AlignOp(c, x, m) == AlignStep(c[1], c[2], x, m)
AlignFold == INSTANCE FoldTheorems WITH op <- AlignOp

LEMMA MovesSortedKeep ==
    ASSUME NEW c \in Builders, NEW both \in Seq(Infos),
           \A h, k \in 1..Len(both) : h # k => both[h].prev # both[k].prev
    PROVE  CalculateMovesSorted(c, both) \in Builders
<1> DEFINE old == InOldOrder(both)
           a == [k \in DOMAIN old |-> old[k].row]
           b == [k \in DOMAIN both |-> both[k].row]
           differ == {k \in Positions(a) : At(a, k) # At(b, k)}
           first == CHOOSE k \in differ : \A h \in differ : k <= h
           n == Len(a)
           end == [i |-> n, j |-> n, size |-> 0, modified |-> 0]
           found == FindLongestMatches(a, b, c.mod, first, n, first, n)
           matches == Append(found, end)
           start == [i |-> first, j |-> first, c |-> c]
           fold == FoldLeft(LAMBDA x, m : AlignStep(old, both, x, m), start, matches)
           d == <<old, both>>
           T == Matches(n)
<1>1. CalculateMovesSorted(c, both) = IF differ = {} THEN c ELSE fold.c
  BY DEF CalculateMovesSorted, InOldOrder
<1>2. old \in Seq(Infos) /\ Len(old) <= Len(both)
  BY InOldOrderFacts
<1> HIDE DEF old
<1>3. n = Len(old) /\ n \in Nat /\ n <= Len(both)
  BY <1>2
<1>4. CASE differ = {}
  <2> HIDE DEF differ, fold
  <2> QED BY <1>1, <1>4
<1>5. CASE differ # {}
  <2>1. differ \in SUBSET Nat
    BY <1>3 DEF Positions
  <2>2. first \in Nat
    <3> HIDE DEF differ
    <3>1. \E k \in differ : \A h \in differ : k <= h
      BY <2>1, <1>5, LeastNatural
    <3> QED BY <3>1, <2>1
  <2>3. c.mod \in Sets
    BY BuilderParts
  <2> HIDE DEF a, b, first
  <2>4. found \in Seq(T)
    <3> DEFINE mod == c.mod
    <3>1. mod \in Sets
      BY <2>3
    <3> HIDE DEF mod, n
    <3>2. FindLongestMatches(a, b, mod, first, n, first, n) \in Seq(Matches(n))
      BY <3>1, <2>2, <1>3, LongestMatchesFacts
    <3> QED BY <3>2 DEF mod
  <2>5. end \in T
    <3> HIDE DEF n
    <3> QED BY <1>3 DEF Matches
  <2>6. AlignFold!Fold(d, start, matches) = fold
    BY DEF AlignOp, AlignFold!Fold, FoldLeft, MapThenFoldSet, Max, AlignFold!Greatest
  <2> HIDE DEF fold, found, end
  <2>7. matches \in Seq(T)
    <3> HIDE DEF T
    <3> QED BY <2>4, <2>5
  <2>8. start \in Aligned
    BY <2>2 DEF Aligned
  <2>9. ASSUME NEW x \in Aligned, NEW m \in T PROVE AlignOp(d, x, m) \in Aligned
    <3>1. m \in Matches(n)
      OBVIOUS
    <3> HIDE DEF n
    <3>2. AlignStep(old, both, x, m) \in Aligned
      BY <3>1, <1>2, <1>3, AlignStepKeeps
    <3> QED BY <3>2 DEF AlignOp
  <2> HIDE DEF d, start, matches, T
  <2>10. AlignFold!Fold(d, start, matches) \in Aligned
    BY <2>7, <2>8, <2>9, AlignFold!FoldStays
  <2>11. fold.c \in Builders
    BY <2>6, <2>10 DEF Aligned
  <2> HIDE DEF differ
  <2> QED BY <1>1, <1>5, <2>11
<1> QED BY <1>4, <1>5

-----------------------------------------------------------------------------
(* The changes between two results                                         *)

LEMMA BuiltFrom ==
    ASSUME NEW S, NEW s \in Seq(S), NEW K \in SUBSET Positions(s)
    PROVE  Built(InOrder(K)) \in Sets
<1>1. IsFiniteSet(K) /\ K \in SUBSET Nat
  BY PositionsFinite
<1> QED BY <1>1, BuiltOf

LEMMA CalculateKeeps ==
    ASSUME NEW prev \in Seq(Int), NEW next \in Seq(Nat), Distinct(next), NEW changed, NEW unsorted, NEW candidates
    PROVE  Calculate(prev, next, changed, unsorted, candidates) \in Builders
<1> DEFINE inBoth(j) == \E i \in Positions(prev) : At(prev, i) = At(next, j)
           both == BothRows(prev, next)
           Gone == {i \in Positions(prev) : At(prev, i) = NPosIndex}
           removed == {i \in Positions(prev) : At(prev, i) # NPosIndex /\ ~\E j \in Positions(next) : At(prev, i) = At(next, j)}
           Added == {j \in Positions(next) : ~inBoth(j)}
           Modified == {j \in Positions(next) : inBoth(j) /\ Has(changed, At(next, j))}
           gone == Built(InOrder(Gone))
           lost == Built(InOrder(removed))
           ins == Built(InOrder(Added))
           mod == Built(InOrder(Modified))
           c == [NoChanges EXCEPT !.ins = ins, !.mod = mod]
           u == [c EXCEPT !.del = lost]
           s == [c EXCEPT !.del = gone]
           start == [expected |-> 0, c |-> u]
           fold == UnsortedMoves(candidates, start, both).c
           sorted == CalculateMovesSorted(s, both)
           moved == IF unsorted THEN fold ELSE sorted
           last == IF unsorted THEN gone ELSE lost
           del == AddAll(moved.del, last)
<1>1. Calculate(prev, next, changed, unsorted, candidates) = [moved EXCEPT !.del = del]
  BY DEF Calculate, BothRows, UnsortedMoves
<1>2. gone \in Sets /\ lost \in Sets /\ ins \in Sets /\ mod \in Sets
  <2>1. Gone \in SUBSET Positions(prev) /\ removed \in SUBSET Positions(prev)
        /\ Added \in SUBSET Positions(next) /\ Modified \in SUBSET Positions(next)
    OBVIOUS
  <2> HIDE DEF Gone, removed, Added, Modified
  <2>2. gone \in Sets /\ lost \in Sets
    BY <2>1, BuiltFrom
  <2>3. ins \in Sets /\ mod \in Sets
    BY <2>1, BuiltFrom
  <2> QED BY <2>2, <2>3
<1> HIDE DEF gone, lost, ins, mod
<1>3. c \in Builders
  <2> DEFINE b == NoChanges
  <2>1. b \in Builders
    BY NoChangesFacts
  <2> HIDE DEF b
  <2>2. [b EXCEPT !.ins = ins, !.mod = mod] = [[b EXCEPT !.ins = ins] EXCEPT !.mod = mod]
    OBVIOUS
  <2>3. [[b EXCEPT !.ins = ins] EXCEPT !.mod = mod] \in Builders
    BY <2>1, <1>2, BuilderWith
  <2> QED BY <2>2, <2>3 DEF b
<1> HIDE DEF c
<1>4. u \in Builders /\ s \in Builders
  BY <1>2, <1>3, BuilderWith
<1> HIDE DEF u, s
<1>5. /\ both \in Seq(Infos)
      /\ \A h, k \in 1..Len(both) : h # k => both[h].prev # both[k].prev
  BY BothRowsFacts
<1> HIDE DEF both
<1>6. fold \in Builders
  <2>1. start \in Places
    BY <1>4 DEF Places
  <2> HIDE DEF start
  <2>2. UnsortedMoves(candidates, start, both).c \in Builders
    BY <2>1, <1>5, UnsortedMovesKeep
  <2> QED BY <2>2
<1>7. sorted \in Builders
  BY <1>4, <1>5, MovesSortedKeep
<1> HIDE DEF fold, sorted
<1>8. moved \in Builders /\ last \in Sets
  BY <1>2, <1>6, <1>7
<1> HIDE DEF moved, last
<1>9. moved.del \in Sets
  BY <1>8, BuilderParts
<1>10. del \in Sets
  <2> DEFINE d == moved.del
  <2>1. d \in Sets
    BY <1>9
  <2> HIDE DEF d
  <2>2. AddAll(d, last) \in Sets
    BY <2>1, <1>8, AddAllAdds
  <2> QED BY <2>2 DEF d
<1> HIDE DEF del
<1>11. [moved EXCEPT !.del = del] \in Builders
  BY <1>8, <1>10, BuilderWith
<1> QED BY <1>1, <1>11 DEF del, moved, last, fold, sorted, start, both, u, s, c, gone, lost, ins, mod

LEMMA RowNowTyped ==
    ASSUME NEW table \in Builders, NEW row \in Nat
    PROVE  RowNow(table, row) \in Int
<1> DEFINE moved == {k \in DOMAIN table.moves : table.moves[k][1] = row}
           p == CHOOSE k \in moved : TRUE
           there == table.moves[p][2]
           shifted == Shift(table.ins, Unshift(table.del, row))
<1>1. RowNow(table, row) = IF ~Has(table.del, row) THEN shifted ELSE IF moved = {} THEN NPosIndex ELSE there
  BY DEF RowNow
<1>2. /\ table.del \in Sets /\ table.ins \in Sets /\ DOMAIN table.moves = 1..Len(table.moves)
      /\ \A k \in 1..Len(table.moves) : table.moves[k][2] \in Nat
  BY BuilderParts
<1>3. shifted \in Int
  <2> DEFINE d == table.del
             i == table.ins
             x == Unshift(d, row)
  <2>1. d \in Sets /\ i \in Sets
    BY <1>2
  <2> HIDE DEF d, i
  <2>2. x \in Nat
    BY <2>1, SetOps
  <2> HIDE DEF x
  <2>3. Shift(i, x) \in Nat
    BY <2>1, <2>2, SetOps
  <2> QED BY <2>3 DEF d, i, x
<1>4. moved # {} => there \in Int
  <2> SUFFICES ASSUME moved # {} PROVE there \in Int
    OBVIOUS
  <2>1. p \in moved
    OBVIOUS
  <2> HIDE DEF p
  <2> QED BY <2>1, <1>2
<1>5. NPosIndex \in Int
  BY DEF NPosIndex
<1> HIDE DEF moved, there, shifted
<1> QED BY <1>1, <1>3, <1>4, <1>5

LEMMA CalculateChangesKeep ==
    ASSUME NEW table \in Builders, NEW prev \in Seq(Nat), NEW next \in Seq(Nat), Distinct(next), NEW inTableOrder
    PROVE  CalculateChanges(table, prev, next, inTableOrder) \in Builders
<1> DEFINE n == Len(prev)
           now == [k \in DOMAIN prev |-> RowNow(table, prev[k])]
           changed == table.mod
           candidates == table.ins
<1>1. CalculateChanges(table, prev, next, inTableOrder) = Calculate(now, next, changed, inTableOrder, candidates)
  BY DEF CalculateChanges
<1>2. n \in Nat /\ DOMAIN prev = 1..n /\ \A k \in 1..n : prev[k] \in Nat
  OBVIOUS
<1> HIDE DEF n
<1>3. \A k \in 1..n : RowNow(table, prev[k]) \in Int
  BY <1>2, RowNowTyped
<1>4. now \in [1..n -> Int]
  BY <1>2, <1>3
<1> HIDE DEF now, changed, candidates
<1>5. now \in Seq(Int)
  BY <1>2, <1>4, FunctionIsSequence
<1>6. Calculate(now, next, changed, inTableOrder, candidates) \in Builders
  BY <1>5, CalculateKeeps
<1> QED BY <1>1, <1>6

-----------------------------------------------------------------------------
(* The query                                                               *)

LEMMA QueryFacts ==
    ASSUME NEW S, NEW r \in Seq(S), NEW k, \A i \in S : k[i] \in Int
    PROVE  Query(r, k) \in Seq(Nat) /\ Distinct(Query(r, k))
<1> DEFINE v(i) == k[At(r, i)]
           less(i, j) == IF kind = "sorted" /\ v(i) # v(j) THEN v(i) < v(j) ELSE i < j
           T == {i \in Positions(r) : v(i) # 0}
           L == {u \in T \X T : less(u[1], u[2])}
           n == Cardinality(T)
           s == Query(r, k)
<1>1. IsFiniteSet(T) /\ T \in SUBSET Nat
  <2>1. T \in SUBSET Positions(r)
    OBVIOUS
  <2> HIDE DEF T
  <2> QED BY <2>1, PositionsFinite
<1>2. \A i \in T : v(i) \in Int
  BY DEF Positions, At
<1>4. s = [p \in 1..n |-> CHOOSE x \in T : Cardinality({y \in T : less(y, x)}) = p - 1]
  BY DEF Query, InOrderBy
<1> HIDE DEF T, s, v
<1>5. OrderOn(T, L)
  <2>1. \A x, y \in T : <<x, y>> \in L <=> less(x, y)
    OBVIOUS
  <2> HIDE DEF L
  <2>2. \A x \in T : ~ less(x, x)
    BY <1>1, <1>2
  <2>3. \A x, y \in T : x # y => less(x, y) \/ less(y, x)
    BY <1>1, <1>2
  <2>4. \A x, y, z \in T : less(x, y) /\ less(y, z) => less(x, z)
    BY <1>1, <1>2
  <2> HIDE DEF less
  <2> QED BY <2>1, <2>2, <2>3, <2>4 DEF OrderOn
<1> HIDE DEF less
<1>6. \A x \in T : Rank(T, L, x) = Cardinality({y \in T : less(y, x)})
  <2> TAKE x \in T
  <2>1. {y \in T : <<y, x>> \in L} = {y \in T : less(y, x)}
    OBVIOUS
  <2> QED BY <2>1 DEF Rank
<1>7. s = [p \in 1..n |-> s[p]]
  <2> DEFINE e(p) == CHOOSE x \in T : Cardinality({y \in T : less(y, x)}) = p - 1
  <2>1. s = [p \in 1..n |-> e(p)]
    BY <1>4
  <2> HIDE DEF e
  <2> QED BY <2>1
<1>8. ASSUME NEW p \in 1..n, \E x \in T : Rank(T, L, x) = p - 1 PROVE s[p] \in T /\ Rank(T, L, s[p]) = p - 1
  <2> DEFINE e == CHOOSE x \in T : Cardinality({y \in T : less(y, x)}) = p - 1
  <2>1. s[p] = e
    BY <1>4
  <2>2. \E x \in T : Cardinality({y \in T : less(y, x)}) = p - 1
    BY <1>6, <1>8
  <2>3. e \in T /\ Cardinality({y \in T : less(y, e)}) = p - 1
    BY <2>2
  <2> HIDE DEF e
  <2> QED BY <2>1, <2>3, <1>6
<1> HIDE DEF L
<1>9. s \in Seq(T) /\ Distinct(s)
  BY <1>1, <1>5, <1>7, <1>8, RankedFacts
<1>10. s \in Seq(Nat)
  <2> DEFINE l == Len(s)
  <2>4. l \in Nat /\ DOMAIN s = 1..l /\ \A p \in 1..l : s[p] \in T
    BY <1>9
  <2>1. \A p \in 1..l : s[p] \in Nat
    BY <1>1, <2>4
  <2>2. s = [p \in 1..l |-> s[p]]
    BY <1>9
  <2> HIDE DEF l
  <2>3. s \in [1..l -> Nat]
    BY <2>1, <2>2, <2>4
  <2> QED BY <2>4, <2>3, FunctionIsSequence
<1> QED BY <1>9, <1>10 DEF s

-----------------------------------------------------------------------------
(* From operations to changes                                              *)

Given(n) == 1..(MaxSize + n)

\* The inductive invariant: what is recorded and what is accumulated are builders, the
\* rows shown are rows, and no operation gives out more than one identity, the least.
TrackingInv ==
    /\ kind \in Kinds /\ operations \in 0..MaxOperations
    /\ current \in Seq(Given(operations)) /\ base \in Seq(Given(operations)) /\ touched \in SUBSET Given(operations)
    /\ key \in [Ids -> Values] /\ shown \in Seq(Nat)
    /\ log \in Builders /\ acc \in Builders

LEMMA TrackingBounds == MaxSize \in Nat /\ MaxOperations \in Nat /\ Huge \in Nat /\ Huge > MaxSize
BY ChangeTrackingAssumption

LEMMA GivenFacts ==
    ASSUME NEW n \in 0..MaxOperations
    PROVE  Given(n) \in SUBSET Ids /\ Given(n) \in SUBSET Nat /\ Given(n) \in SUBSET Given(n + 1)
BY TrackingBounds DEF Given, Ids

LEMMA SequenceGrows ==
    ASSUME NEW S, NEW T, S \in SUBSET T, NEW s \in Seq(S)
    PROVE  s \in Seq(T)
<1> DEFINE n == Len(s)
<1>1. n \in Nat /\ s = [k \in 1..n |-> s[k]] /\ \A k \in 1..n : s[k] \in S
  OBVIOUS
<1>2. \A k \in 1..n : s[k] \in T
  BY <1>1
<1> HIDE DEF n
<1>3. s \in [1..n -> T]
  BY <1>1, <1>2
<1> QED BY <1>1, <1>3, FunctionIsSequence

LEMMA SequenceChanged ==
    ASSUME NEW S, NEW s \in Seq(S), NEW p \in 1..Len(s), NEW e \in S
    PROVE  [s EXCEPT ![p] = e] \in Seq(S) /\ Len([s EXCEPT ![p] = e]) = Len(s)
OBVIOUS

\* There is an identity left while an operation is left, and it is the next one at most.
LEMMA FreshFacts ==
    ASSUME TrackingInv, operations < MaxOperations
    PROVE  Fresh \in Ids /\ Fresh \in Given(operations + 1)
<1> DEFINE n == MaxSize + operations + 1
           F == Ids \ Used
<1>1. operations \in Nat /\ MaxSize \in Nat /\ MaxOperations \in Nat /\ Ids \in SUBSET Nat /\ n \in Ids
  BY TrackingBounds DEF TrackingInv, Ids
<1>2. Used \in SUBSET Given(operations)
  <2> DEFINE G == Given(operations)
  <2>1. current \in Seq(G) /\ base \in Seq(G) /\ touched \in SUBSET G
    BY DEF TrackingInv
  <2> HIDE DEF G
  <2>2. ToSet(current) \in SUBSET G /\ ToSet(base) \in SUBSET G
    BY <2>1, MembersOf
  <2> QED BY <2>1, <2>2 DEF Used, G
<1>3. n \notin Given(operations)
  BY <1>1 DEF Given
<1>4. n \in F /\ F \in SUBSET Nat
  BY <1>1, <1>2, <1>3
<1> HIDE DEF F
<1>5. \E i \in F : \A j \in F : i <= j
  BY <1>4, LeastNatural
<1>6. Fresh = CHOOSE i \in F : \A j \in F : i <= j
  BY DEF Fresh, F
<1>7. Fresh \in F /\ Fresh <= n
  <2> DEFINE e == CHOOSE i \in F : \A j \in F : i <= j
  <2>1. e \in F /\ \A j \in F : e <= j
    BY <1>5
  <2> HIDE DEF e
  <2> QED BY <2>1, <1>4, <1>6 DEF e
<1>8. Fresh \in Ids
  BY <1>7 DEF F
<1>9. Fresh \in 1..(MaxSize + (operations + 1))
  BY <1>1, <1>7, <1>8 DEF Ids
<1> QED BY <1>8, <1>9 DEF Given

\* What an operation on the entries has to give
LEMMA LoggedKeeps ==
    ASSUME TrackingInv, NEW r, NEW c, Logged(r, c), c \in Builders,
           operations < MaxOperations => r \in Seq(Given(operations + 1)),
           operations < MaxOperations => touched' \in SUBSET Given(operations + 1),
           operations < MaxOperations => key' \in [Ids -> Values]
    PROVE  TrackingInv'
<1> DEFINE G == Given(operations)
           H == Given(operations + 1)
<1>1. operations < MaxOperations /\ operations' = operations + 1 /\ current' = r /\ log' = c
      /\ UNCHANGED <<kind, base, shown, baseShown, acc>>
  BY DEF Logged, CountOperation
<1>2. operations \in 0..MaxOperations /\ base \in Seq(G) /\ kind \in Kinds /\ shown \in Seq(Nat) /\ acc \in Builders
  BY DEF TrackingInv
<1>3. G \in SUBSET H /\ operations' \in 0..MaxOperations
  BY <1>1, <1>2, GivenFacts, TrackingBounds
<1>4. r \in Seq(H) /\ touched' \in SUBSET H /\ key' \in [Ids -> Values]
  BY <1>1
<1> HIDE DEF G, H
<1>5. base \in Seq(H)
  BY <1>2, <1>3, SequenceGrows
<1>6. base' \in Seq(H) /\ current' \in Seq(H) /\ Given(operations') = H
  BY <1>1, <1>4, <1>5 DEF H
<1>7. kind' \in Kinds /\ shown' \in Seq(Nat) /\ acc' \in Builders /\ log' \in Builders
  BY <1>1, <1>2
<1> QED BY <1>3, <1>4, <1>6, <1>7 DEF TrackingInv

LEMMA PositionFacts ==
    ASSUME NEW S, NEW s \in Seq(S), NEW i \in Positions(s)
    PROVE  i \in Nat /\ i + 1 \in 1..Len(s) /\ Len(s) - 1 \in Nat /\ At(s, i) \in S
BY DEF Positions, At

LEMMA NowFacts ==
    ASSUME TrackingInv
    PROVE  /\ operations \in 0..MaxOperations /\ current \in Seq(Given(operations)) /\ Len(current) \in Nat
           /\ touched \in SUBSET Given(operations) /\ key \in [Ids -> Values] /\ log \in Builders
           /\ Given(operations) \in SUBSET Given(operations + 1) /\ current \in Seq(Given(operations + 1))
           /\ touched \in SUBSET Given(operations + 1) /\ Given(operations) \in SUBSET Ids
<1> DEFINE G == Given(operations)
           H == Given(operations + 1)
<1>1. /\ operations \in 0..MaxOperations /\ current \in Seq(G)
      /\ touched \in SUBSET G /\ key \in [Ids -> Values] /\ log \in Builders
  BY DEF TrackingInv
<1>2. G \in SUBSET H /\ G \in SUBSET Ids
  BY <1>1, GivenFacts
<1> HIDE DEF G, H
<1>3. current \in Seq(H) /\ Len(current) \in Nat
  BY <1>1, <1>2, SequenceGrows
<1> QED BY <1>1, <1>2, <1>3 DEF G, H

-----------------------------------------------------------------------------
(* Operations on a list                                                    *)

LEMMA ListSetKeeps ==
    ASSUME TrackingInv, NEW i, ListSet(i)
    PROVE  TrackingInv'
<1> DEFINE H == Given(operations + 1)
           c == Modify(log, i)
<1>1. i \in Positions(current) /\ Logged(current, c) /\ touched' = touched \cup {At(current, i)} /\ key' = key
  BY DEF ListSet
<1>2. current \in Seq(H) /\ touched \in SUBSET H /\ key \in [Ids -> Values] /\ log \in Builders
  BY NowFacts
<1> HIDE DEF H
<1>3. i \in Nat /\ At(current, i) \in H
  BY <1>1, <1>2, PositionFacts
<1>4. c \in Builders
  BY <1>2, <1>3, ModifyKeeps
<1> HIDE DEF c
<1>5. touched' \in SUBSET H /\ key' \in [Ids -> Values]
  BY <1>1, <1>2, <1>3
<1> QED BY <1>1, <1>2, <1>4, <1>5, LoggedKeeps DEF H

LEMMA ListInsertKeeps ==
    ASSUME TrackingInv, NEW i, ListInsert(i)
    PROVE  TrackingInv'
<1> DEFINE H == Given(operations + 1)
           c == Insert(log, i, 1, TRUE)
           r == InsertAt(current, i + 1, Fresh)
<1>1. i \in 0..Len(current) /\ Logged(r, c) /\ touched' = touched /\ key' = key
  BY DEF ListInsert
<1>2. current \in Seq(H) /\ touched \in SUBSET H /\ key \in [Ids -> Values] /\ log \in Builders /\ Len(current) \in Nat
  BY NowFacts
<1>3. i \in Nat /\ i + 1 \in 1..(Len(current) + 1)
  BY <1>1, <1>2
<1>4. c \in Builders
  BY <1>2, <1>3, InsertKeeps
<1>5. operations < MaxOperations => r \in Seq(H)
  <2> SUFFICES ASSUME operations < MaxOperations PROVE r \in Seq(H)
    OBVIOUS
  <2> DEFINE e == Fresh
             p == i + 1
  <2>1. e \in H /\ p \in 1..(Len(current) + 1)
    BY <1>3, FreshFacts
  <2> HIDE DEF e, p, H
  <2>2. InsertAt(current, p, e) \in Seq(H)
    BY <2>1, <1>2, InsertAtFacts
  <2> QED BY <2>2 DEF e, p
<1> HIDE DEF H, c, r
<1>6. touched' \in SUBSET H /\ key' \in [Ids -> Values]
  BY <1>1, <1>2
<1> QED BY <1>1, <1>4, <1>5, <1>6, LoggedKeeps DEF H

LEMMA ListEraseKeeps ==
    ASSUME TrackingInv, NEW i, ListErase(i)
    PROVE  TrackingInv'
<1> DEFINE H == Given(operations + 1)
           c == Erase(log, i)
           r == RemoveAt(current, i + 1)
<1>1. i \in Positions(current) /\ Logged(r, c) /\ touched' = touched /\ key' = key
  BY DEF ListErase
<1>2. current \in Seq(H) /\ touched \in SUBSET H /\ key \in [Ids -> Values] /\ log \in Builders
  BY NowFacts
<1> HIDE DEF H
<1>3. i \in Nat /\ i + 1 \in 1..Len(current)
  BY <1>1, <1>2, PositionFacts
<1>4. c \in Builders
  BY <1>2, <1>3, EraseKeeps
<1>5. r \in Seq(H)
  BY <1>2, <1>3, RemoveAtFacts
<1> HIDE DEF c, r
<1>6. touched' \in SUBSET H /\ key' \in [Ids -> Values]
  BY <1>1, <1>2
<1> QED BY <1>1, <1>4, <1>5, <1>6, LoggedKeeps DEF H

LEMMA ListMoveKeeps ==
    ASSUME TrackingInv, NEW i, NEW j, ListMove(i, j)
    PROVE  TrackingInv'
<1> DEFINE H == Given(operations + 1)
           c == Move(log, i, j)
           t == RemoveAt(current, i + 1)
           e == At(current, i)
           r == InsertAt(t, j + 1, e)
<1>1. i \in Positions(current) /\ j \in Positions(current) /\ Logged(r, c) /\ touched' = touched /\ key' = key
  BY DEF ListMove
<1>2. current \in Seq(H) /\ touched \in SUBSET H /\ key \in [Ids -> Values] /\ log \in Builders /\ Len(current) \in Nat
  BY NowFacts
<1> HIDE DEF H
<1>3. i \in Nat /\ i + 1 \in 1..Len(current) /\ j \in Nat /\ j + 1 \in 1..Len(current) /\ e \in H
  BY <1>1, <1>2, PositionFacts
<1>4. c \in Builders
  BY <1>2, <1>3, MoveKeeps
<1>5. t \in Seq(H) /\ Len(t) = Len(current) - 1
  BY <1>2, <1>3, RemoveAtFacts
<1> HIDE DEF t, e
<1>6. r \in Seq(H)
  <2> DEFINE p == j + 1
  <2>1. p \in 1..(Len(t) + 1)
    BY <1>2, <1>3, <1>5
  <2> HIDE DEF p
  <2>2. InsertAt(t, p, e) \in Seq(H)
    BY <2>1, <1>3, <1>5, InsertAtFacts
  <2> QED BY <2>2 DEF p
<1> HIDE DEF c, r
<1>7. touched' \in SUBSET H /\ key' \in [Ids -> Values]
  BY <1>1, <1>2
<1> QED BY <1>1, <1>4, <1>6, <1>7, LoggedKeeps DEF H

LEMMA ListSwapKeeps ==
    ASSUME TrackingInv, NEW i, NEW j, ListSwap(i, j)
    PROVE  TrackingInv'
<1> DEFINE H == Given(operations + 1)
           b == Modify(log, i)
           c == Modify(b, j)
<1>1. /\ i \in Positions(current) /\ j \in Positions(current) /\ Logged(current, c) /\ key' = key
      /\ touched' = touched \cup {At(current, i), At(current, j)}
  BY DEF ListSwap
<1>2. current \in Seq(H) /\ touched \in SUBSET H /\ key \in [Ids -> Values] /\ log \in Builders
  BY NowFacts
<1> HIDE DEF H
<1>3. i \in Nat /\ At(current, i) \in H /\ j \in Nat /\ At(current, j) \in H
  BY <1>1, <1>2, PositionFacts
<1>4. b \in Builders
  BY <1>2, <1>3, ModifyKeeps
<1> HIDE DEF b
<1>5. c \in Builders
  BY <1>3, <1>4, ModifyKeeps
<1> HIDE DEF c
<1>6. touched' \in SUBSET H /\ key' \in [Ids -> Values]
  BY <1>1, <1>2, <1>3
<1> QED BY <1>1, <1>2, <1>5, <1>6, LoggedKeeps DEF H

LEMMA ListClearKeeps ==
    ASSUME TrackingInv, ListClear
    PROVE  TrackingInv'
<1> DEFINE H == Given(operations + 1)
           n == Len(current)
           c == Clear(log, n)
           E == <<>>
<1>1. Logged(E, c) /\ touched' = touched /\ key' = key
  BY DEF ListClear
<1>2. touched \in SUBSET H /\ key \in [Ids -> Values] /\ log \in Builders /\ n \in Nat
  BY NowFacts
<1> HIDE DEF n
<1>3. c \in Builders
  BY <1>2, TrackingBounds, ClearKeeps
<1>4. E \in Seq(H)
  OBVIOUS
<1> HIDE DEF c, H, E
<1>5. touched' \in SUBSET H /\ key' \in [Ids -> Values]
  BY <1>1, <1>2
<1> QED BY <1>1, <1>3, <1>4, <1>5, LoggedKeeps DEF H

-----------------------------------------------------------------------------
(* Operations on a table                                                   *)

LEMMA TableSetKeeps ==
    ASSUME TrackingInv, NEW i, NEW v \in Values, TableSet(i, v)
    PROVE  TrackingInv'
<1> DEFINE H == Given(operations + 1)
           c == Modify(log, i)
           e == At(current, i)
<1>1. /\ i \in Positions(current) /\ Logged(current, c) /\ touched' = touched \cup {e}
      /\ key' = [key EXCEPT ![e] = v]
  BY DEF TableSet
<1>2. current \in Seq(H) /\ touched \in SUBSET H /\ key \in [Ids -> Values] /\ log \in Builders
  BY NowFacts
<1> HIDE DEF H
<1>3. i \in Nat /\ e \in H
  BY <1>1, <1>2, PositionFacts
<1>4. c \in Builders
  BY <1>2, <1>3, ModifyKeeps
<1> HIDE DEF c, e
<1>5. touched' \in SUBSET H /\ key' \in [Ids -> Values]
  BY <1>1, <1>2, <1>3
<1> QED BY <1>1, <1>2, <1>4, <1>5, LoggedKeeps DEF H

LEMMA TableAddKeeps ==
    ASSUME TrackingInv, NEW v \in Values, TableAdd(v)
    PROVE  TrackingInv'
<1> DEFINE H == Given(operations + 1)
           n == Len(current)
           c == Insert(log, n, 1, TRUE)
           r == Append(current, Fresh)
<1>1. Logged(r, c) /\ touched' = touched /\ key' = [key EXCEPT ![Fresh] = v]
  BY DEF TableAdd
<1>2. current \in Seq(H) /\ touched \in SUBSET H /\ key \in [Ids -> Values] /\ log \in Builders /\ n \in Nat
  BY NowFacts
<1> HIDE DEF n
<1>4. c \in Builders
  BY <1>2, InsertKeeps
<1>5. operations < MaxOperations => r \in Seq(H)
  <2> SUFFICES ASSUME operations < MaxOperations PROVE r \in Seq(H)
    OBVIOUS
  <2> DEFINE e == Fresh
  <2>1. e \in H
    BY FreshFacts
  <2> HIDE DEF e, H
  <2>2. Append(current, e) \in Seq(H)
    BY <2>1, <1>2
  <2> QED BY <2>2 DEF e
<1> HIDE DEF H, c, r
<1>6. touched' \in SUBSET H /\ key' \in [Ids -> Values]
  BY <1>1, <1>2
<1> QED BY <1>1, <1>4, <1>5, <1>6, LoggedKeeps DEF H

\* A sequence whose last entry takes the place of another
LEMMA OverFacts ==
    ASSUME NEW S, NEW s \in Seq(S), NEW i \in Positions(s)
    PROVE  Over(s, i) \in Seq(S)
<1> DEFINE n == Len(s) - 1
           f == Front(s)
           l == Last(s)
<1>1. n \in Nat /\ i \in Nat /\ i <= n /\ n + 1 \in 1..Len(s) /\ Len(s) = n + 1
  BY DEF Positions
<1>2. f \in Seq(S) /\ Len(f) = n
  <2>1. f = SubSeq(s, 1, n)
    BY DEF Front
  <2>2. f = [k \in 1..n |-> s[k]]
    BY <1>1, <2>1
  <2>3. \A k \in 1..n : s[k] \in S
    BY <1>1
  <2> HIDE DEF f, n
  <2>4. f \in [1..n -> S]
    BY <2>2, <2>3
  <2> QED BY <2>4, <1>1, FunctionIsSequence
<1>3. l \in S
  BY <1>1 DEF Last
<1>4. Over(s, i) = IF i = n THEN f ELSE [f EXCEPT ![i + 1] = l]
  BY DEF Over
<1> HIDE DEF n, f, l
<1>5. i # n => [f EXCEPT ![i + 1] = l] \in Seq(S)
  <2> SUFFICES ASSUME i # n PROVE [f EXCEPT ![i + 1] = l] \in Seq(S)
    OBVIOUS
  <2> DEFINE p == i + 1
  <2>1. p \in 1..Len(f)
    BY <1>1, <1>2
  <2> HIDE DEF p
  <2>2. [f EXCEPT ![p] = l] \in Seq(S)
    BY <2>1, <1>2, <1>3, SequenceChanged
  <2> QED BY <2>2 DEF p
<1> QED BY <1>2, <1>4, <1>5

LEMMA TableEraseKeeps ==
    ASSUME TrackingInv, NEW i, TableErase(i)
    PROVE  TrackingInv'
<1> DEFINE H == Given(operations + 1)
           n == Len(current) - 1
           c == MoveOver(log, i, n)
           r == Over(current, i)
<1>1. i \in Positions(current) /\ Logged(r, c) /\ touched' = touched /\ key' = key
  BY DEF TableErase
<1>2. current \in Seq(H) /\ touched \in SUBSET H /\ key \in [Ids -> Values] /\ log \in Builders
  BY NowFacts
<1> HIDE DEF H
<1>3. i \in Nat /\ n \in Nat
  BY <1>1, <1>2, PositionFacts
<1> HIDE DEF n
<1>4. c \in Builders
  BY <1>2, <1>3, MoveOverKeeps
<1>5. r \in Seq(H)
  BY <1>1, <1>2, OverFacts
<1> HIDE DEF c, r
<1>6. touched' \in SUBSET H /\ key' \in [Ids -> Values]
  BY <1>1, <1>2
<1> QED BY <1>1, <1>4, <1>5, <1>6, LoggedKeeps DEF H

LEMMA TableSwapKeeps ==
    ASSUME TrackingInv, NEW i, NEW j, TableSwap(i, j)
    PROVE  TrackingInv'
<1> DEFINE H == Given(operations + 1)
           c == Swap(log, i, j)
           a == At(current, i)
           b == At(current, j)
           r == [current EXCEPT ![i + 1] = b, ![j + 1] = a]
<1>1. i \in Positions(current) /\ j \in Positions(current) /\ Logged(r, c) /\ touched' = touched /\ key' = key
  BY DEF TableSwap
<1>2. current \in Seq(H) /\ touched \in SUBSET H /\ key \in [Ids -> Values] /\ log \in Builders
  BY NowFacts
<1> HIDE DEF H
<1>3. i \in Nat /\ i + 1 \in 1..Len(current) /\ j \in Nat /\ j + 1 \in 1..Len(current) /\ a \in H /\ b \in H
  BY <1>1, <1>2, PositionFacts
<1>4. c \in Builders
  BY <1>2, <1>3, SwapKeeps
<1> HIDE DEF a, b
<1>5. r \in Seq(H)
  <2> DEFINE s == [current EXCEPT ![i + 1] = b]
             p == i + 1
             q == j + 1
  <2>1. s \in Seq(H) /\ Len(s) = Len(current)
    <3> HIDE DEF p
    <3> QED BY <1>2, <1>3, SequenceChanged DEF p
  <2>2. r = [s EXCEPT ![q] = a]
    OBVIOUS
  <2>4. q \in 1..Len(s)
    BY <1>3, <2>1
  <2> HIDE DEF s, r, q
  <2>3. [s EXCEPT ![q] = a] \in Seq(H)
    BY <2>1, <2>4, <1>3, SequenceChanged
  <2> QED BY <2>2, <2>3
<1> HIDE DEF c, r
<1>6. touched' \in SUBSET H /\ key' \in [Ids -> Values]
  BY <1>1, <1>2
<1> QED BY <1>1, <1>4, <1>5, <1>6, LoggedKeeps DEF H

LEMMA TableMergeKeeps ==
    ASSUME TrackingInv, NEW i, NEW new, TableMerge(i, new)
    PROVE  TrackingInv'
<1> DEFINE H == Given(operations + 1)
           n == Len(current) - 1
           d == Subsume(log, i, new)
           c == MoveOver(d, i, n)
           a == At(current, i)
           b == At(current, new)
           s == [current EXCEPT ![new + 1] = a]
           r == Over(s, i)
<1>1. /\ i \in Positions(current) /\ new \in Positions(current) /\ Logged(r, c)
      /\ key' = [key EXCEPT ![a] = key[b]]
      /\ touched' = IF b \in touched THEN touched \cup {a} ELSE touched
  BY DEF TableMerge
<1>2. current \in Seq(H) /\ touched \in SUBSET H /\ key \in [Ids -> Values] /\ log \in Builders
  BY NowFacts
<1>3. i \in Nat /\ new \in Nat /\ new + 1 \in 1..Len(current) /\ a \in H /\ b \in Ids /\ n \in Nat
  <2> DEFINE G == Given(operations)
  <2>1. current \in Seq(G) /\ G \in SUBSET Ids /\ G \in SUBSET H
    BY NowFacts
  <2> HIDE DEF G, H
  <2>2. i \in Nat /\ new \in Nat /\ new + 1 \in 1..Len(current) /\ a \in G /\ b \in G /\ n \in Nat
    BY <1>1, <2>1, PositionFacts
  <2> QED BY <2>1, <2>2
<1> HIDE DEF H, n, a, b
<1>4. d \in Builders
  BY <1>2, <1>3, SubsumeKeeps
<1> HIDE DEF d
<1>5. c \in Builders
  BY <1>3, <1>4, MoveOverKeeps
<1>6. s \in Seq(H) /\ Len(s) = Len(current)
  BY <1>2, <1>3
<1> HIDE DEF s
<1>7. r \in Seq(H)
  <2>1. i \in Positions(s)
    BY <1>1, <1>6 DEF Positions
  <2> QED BY <2>1, <1>6, OverFacts
<1> HIDE DEF c, r
<1>8. touched' \in SUBSET H /\ key' \in [Ids -> Values]
  BY <1>1, <1>2, <1>3
<1> QED BY <1>1, <1>5, <1>7, <1>8, LoggedKeeps DEF H

LEMMA TableClearKeeps ==
    ASSUME TrackingInv, TableClear
    PROVE  TrackingInv'
<1> DEFINE H == Given(operations + 1)
           c == Clear(log, Huge)
           E == <<>>
<1>1. Logged(E, c) /\ touched' = touched /\ key' = key
  BY DEF TableClear
<1>2. touched \in SUBSET H /\ key \in [Ids -> Values] /\ log \in Builders
  BY NowFacts
<1>3. c \in Builders
  BY <1>2, TrackingBounds, ClearKeeps
<1>4. E \in Seq(H)
  OBVIOUS
<1> HIDE DEF c, H, E
<1>5. touched' \in SUBSET H /\ key' \in [Ids -> Values]
  BY <1>1, <1>2
<1> QED BY <1>1, <1>3, <1>4, <1>5, LoggedKeeps DEF H

-----------------------------------------------------------------------------
(* The specification                                                       *)

LEMMA ShownFacts ==
    ASSUME NEW S \in SUBSET Ids, NEW r \in Seq(S), NEW k \in [Ids -> Values]
    PROVE  Query(r, k) \in Seq(Nat) /\ Distinct(Query(r, k))
<1>1. \A i \in S : k[i] \in Int
  BY DEF Values
<1> QED BY <1>1, QueryFacts

LEMMA EndTransactionKeeps ==
    ASSUME TrackingInv, EndTransaction
    PROVE  TrackingInv'
<1> DEFINE done == IF kind = "list" THEN CleanUpStaleMoves(log) ELSE ParseComplete(log)
           next == IF Results THEN Query(current, key) ELSE <<>>
           changes == IF Results THEN CalculateChanges(done, shown, next, kind = "ordered") ELSE done
           E == <<>>
<1>1. /\ acc' = Merge(acc, changes) /\ shown' = next /\ log' = NoChanges
      /\ UNCHANGED <<kind, current, base, key, baseShown, touched, operations>>
  BY DEF EndTransaction
<1>2. /\ log \in Builders /\ acc \in Builders /\ shown \in Seq(Nat) /\ key \in [Ids -> Values]
      /\ current \in Seq(Given(operations)) /\ Given(operations) \in SUBSET Ids
  BY NowFacts DEF TrackingInv
<1>3. done \in Builders
  BY <1>2, CleanKeeps, ParseCompleteKeeps
<1>4. next \in Seq(Nat) /\ Distinct(next)
  <2> DEFINE q == Query(current, key)
  <2>1. q \in Seq(Nat) /\ Distinct(q)
    <3> DEFINE G == Given(operations)
    <3> HIDE DEF G
    <3> QED BY <1>2, ShownFacts DEF G
  <2>2. E \in Seq(Nat) /\ Distinct(E)
    BY DEF Distinct
  <2> HIDE DEF q, E
  <2>3. next = IF Results THEN q ELSE E
    BY DEF q, E
  <2> HIDE DEF next
  <2> QED BY <2>1, <2>2, <2>3
<1> HIDE DEF done, next
<1>5. changes \in Builders
  <2> DEFINE o == (kind = "ordered")
             t == CalculateChanges(done, shown, next, o)
  <2>1. t \in Builders
    <3> HIDE DEF o
    <3> QED BY <1>2, <1>3, <1>4, CalculateChangesKeep
  <2>2. changes = IF Results THEN t ELSE done
    OBVIOUS
  <2> HIDE DEF t, changes
  <2> QED BY <2>1, <2>2, <1>3
<1> HIDE DEF changes
<1>6. acc' \in Builders
  BY <1>1, <1>2, <1>5, MergeKeeps
<1>7. log' \in Builders
  BY <1>1, NoChangesFacts
<1> QED BY <1>1, <1>4, <1>6, <1>7 DEF TrackingInv

LEMMA TrackingInitKeeps ==
    ASSUME TrackingInit
    PROVE  TrackingInv
<1> DEFINE G == Given(0)
           q == Query(current, key)
           E == <<>>
<1>1. /\ kind \in Kinds /\ operations = 0 /\ base = current /\ touched = {}
      /\ log = NoChanges /\ acc = NoChanges /\ shown = IF Results THEN q ELSE E
      /\ key \in [Ids -> IF Results THEN Values ELSE {1}]
  BY DEF TrackingInit
<1>2. current \in Seq(G)
  <2>1. PICK n \in StartSizes : current = [i \in 1..n |-> i]
    BY DEF TrackingInit
  <2>2. n \in Nat /\ n <= MaxSize /\ MaxSize \in Nat
    BY ChangeTrackingAssumption, TrackingBounds
  <2>3. \A i \in 1..n : i \in G
    BY <2>2 DEF Given
  <2> HIDE DEF G
  <2>4. current \in [1..n -> G]
    BY <2>1, <2>3
  <2> QED BY <2>2, <2>4, FunctionIsSequence
<1>3. key \in [Ids -> Values]
  <2>1. (IF Results THEN Values ELSE {1}) \in SUBSET Values
    BY DEF Values
  <2> DEFINE V == IF Results THEN Values ELSE {1}
  <2>2. V \in SUBSET Values /\ key \in [Ids -> V]
    BY <1>1, <2>1
  <2> HIDE DEF V
  <2> QED BY <2>2
<1>4. shown \in Seq(Nat)
  <2>1. G \in SUBSET Ids
    BY TrackingBounds, GivenFacts
  <2> HIDE DEF G
  <2>2. q \in Seq(Nat)
    BY <2>1, <1>2, <1>3, ShownFacts
  <2>3. E \in Seq(Nat)
    OBVIOUS
  <2> HIDE DEF q, E
  <2> QED BY <2>2, <2>3, <1>1
<1>5. operations \in 0..MaxOperations
  BY <1>1, TrackingBounds
<1>6. base \in Seq(G) /\ Given(operations) = G /\ touched \in SUBSET G
  BY <1>1, <1>2
<1>7. log \in Builders /\ acc \in Builders
  BY <1>1, NoChangesFacts
<1> QED BY <1>1, <1>2, <1>3, <1>4, <1>5, <1>6, <1>7 DEF TrackingInv

\* Whatever the operations are, their number, and the transactions they are divided into,
\* what is recorded and accumulated are sets of ranges and moves between indexes.
THEOREM TrackingKeepsBuilders == TrackingSpec => []TrackingInv
<1>1. TrackingInit => TrackingInv
  BY TrackingInitKeeps
<1>2. TrackingInv /\ [TrackingNext]_trackingVars => TrackingInv'
  <2> SUFFICES ASSUME TrackingInv, [TrackingNext]_trackingVars PROVE TrackingInv'
    OBVIOUS
  <2>1. CASE EndTransaction
    BY <2>1, EndTransactionKeeps
  <2>2. ASSUME NEW i \in 0..MaxSize, ListSet(i) \/ ListInsert(i) \/ ListErase(i) \/ TableErase(i) PROVE TrackingInv'
    BY <2>2, ListSetKeeps, ListInsertKeeps, ListEraseKeeps, TableEraseKeeps
  <2>3. ASSUME NEW i \in 0..MaxSize, NEW j \in 0..MaxSize,
               ListMove(i, j) \/ ListSwap(i, j) \/ TableSwap(i, j) \/ TableMerge(i, j)
        PROVE  TrackingInv'
    BY <2>3, ListMoveKeeps, ListSwapKeeps, TableSwapKeeps, TableMergeKeeps
  <2>4. ASSUME NEW v \in Values, TableAdd(v) \/ \E i \in 0..MaxSize : TableSet(i, v) PROVE TrackingInv'
    BY <2>4, TableAddKeeps, TableSetKeeps
  <2>5. CASE ListClear \/ TableClear
    BY <2>5, ListClearKeeps, TableClearKeeps
  <2>6. CASE UNCHANGED trackingVars
    BY <2>6 DEF trackingVars, TrackingInv
  <2> QED BY <2>1, <2>2, <2>3, <2>4, <2>5, <2>6 DEF TrackingNext
<1> QED BY <1>1, <1>2, PTL DEF TrackingSpec

\* The accumulated changes are ordered ranges that are apart, and every operation of the
\* code on them does what it promises to the indexes they stand for.
THEOREM SetsStaySound == TrackingSpec => []SetsAreSound
<1>1. TrackingInv => SetsAreSound
  <2> SUFFICES ASSUME TrackingInv PROVE SetsAreSound
    OBVIOUS
  <2> DEFINE d == acc.del
             i == acc.ins
             m == acc.mod
  <2>1. d \in Sets /\ i \in Sets /\ m \in Sets
    BY BuilderParts DEF TrackingInv
  <2>2. \A n \in 0..MaxSize : n \in Nat
    OBVIOUS
  <2> HIDE DEF d, i, m
  <2>3. WellFormed(d) /\ WellFormed(i) /\ WellFormed(m)
    BY <2>1 DEF Sets
  <2>4. SetOperationsAgree(d, i)
    BY <2>1, SetOperationsAgreeAlways
  <2>5. \A n \in 0..MaxSize : OperationsAgree(i, n) /\ OperationsAgree(d, n)
    BY <2>1, <2>2, OperationsAgreeAlways
  <2> QED BY <2>3, <2>4, <2>5 DEF SetsAreSound, d, i, m
<1> QED BY <1>1, TrackingKeepsBuilders, PTL

=============================================================================
