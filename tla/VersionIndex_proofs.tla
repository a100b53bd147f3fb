------------------------- MODULE VersionIndex_proofs -------------------------
(***************************************************************************)
(* The version index is sound for any schema, rows, queries and history,   *)
(* and implements CursorVersions.                                          *)
(***************************************************************************)
EXTENDS VersionIndex, WellFoundedInduction, TLAPS

-----------------------------------------------------------------------------
(* A set of naturals has a least element. *)
LEMMA LeastNatural ==
  ASSUME NEW T, T \subseteq Nat, T # {}
  PROVE  \E x \in T : \A y \in T : x <= y
<1>1. PICK x \in T : \A y \in T : ~ (<<y, x>> \in OpToRel(<, Nat))
  <2>1. \E x \in T : \A y \in T : ~ (<<y, x>> \in OpToRel(<, Nat))
    <3> HIDE DEF OpToRel
    <3> QED BY WFMin, NatLessThanWellFounded
  <2> QED BY <2>1
<1>2. \A y \in T : ~ (y < x)
  BY <1>1 DEF OpToRel
<1> QED
  BY <1>2

(* A bounded set of naturals that has an element has a largest one. *)
LEMMA LargestNatural ==
  ASSUME NEW T, NEW b \in Nat, T \subseteq 0 .. b, T # {}
  PROVE  LargestOf(T) \in T /\ \A y \in T : y <= LargestOf(T)
<1> DEFINE U == {u \in Nat : \A y \in T : y <= u}
<1>1. b \in U
  OBVIOUS
<1>2. PICK u \in U : \A w \in U : u <= w
  BY <1>1, LeastNatural
<1>3. u \in T
  <2> SUFFICES ASSUME u \notin T PROVE FALSE
    OBVIOUS
  <2>1. \A y \in T : y < u
    OBVIOUS
  <2>2. u > 0
    <3>1. PICK y \in T : TRUE
      OBVIOUS
    <3>2. y \in Nat /\ y < u
      BY <2>1
    <3> QED
      BY <3>2
  <2>3. u - 1 \in Nat /\ \A y \in T : y <= u - 1
    BY <2>1, <2>2
  <2> QED
    BY <1>2, <2>3
<1>4. \E x \in T : \A y \in T : y <= x
  BY <1>2, <1>3
<1> QED
  BY <1>4 DEF LargestOf

(* An element of a sequence over S is in S. *)
LEMMA ElementOfSeq == ASSUME NEW S, NEW s \in Seq(S), NEW i \in DOMAIN s PROVE s[i] \in S
OBVIOUS

(* version_of uses one of the anchorable conjuncts, and then reads one     *)
(* table.                                                                  *)
LEMMA AnchorIsAnchorable ==
  ASSUME NEW q \in Queries, Anchors(q) # {}
  PROVE  \E i \in DOMAIN q.eq :
           /\ Anchor(q) = q.eq[i]
           /\ q.tables = {TableOf(q)}
           /\ TableOf(q) \in Tables
           /\ IsAnchorable(TableOf(q), Anchor(q).col)
<1>1. QueryType(q)
  BY QueriesAssumption
<1>2. Anchors(q) \subseteq Nat
  BY <1>1 DEF Anchors, QueryType
<1>3. PICK i \in Anchors(q) : \A j \in Anchors(q) : i <= j
  BY <1>2, LeastNatural
<1>4. \E k \in Anchors(q) : Anchor(q) = q.eq[k]
  BY <1>3 DEF Anchor
<1>5. PICK k \in Anchors(q) : Anchor(q) = q.eq[k]
  BY <1>4
<1>6. PICK t \in q.tables : q.tables = {t} /\ IsAnchorable(t, q.eq[k].col)
  BY DEF Anchors
<1>7. TableOf(q) = t
  BY <1>6 DEF TableOf
<1> QED
  BY <1>1, <1>5, <1>6, <1>7 DEF Anchors, QueryType

-----------------------------------------------------------------------------
(* What version_of reads for an anchored query, and the changes it is told *)
(* of.                                                                     *)
StampOf(q) == <<TableOf(q), Anchor(q).col, Anchor(q).text>>

Hits(q, c) ==
    /\ c.table \in q.tables
    /\ Anchors(q) = {} \/ c.op = "truncate" \/ StampOf(q) \in Stamped(c)

(* A row that an anchored query keeps carries the anchored value: a        *)
(* change that sends that column of the row stamps the query's entry.      *)
LEMMA MatchIsStamped ==
  ASSUME NEW q \in Queries, Faithful(q), Anchors(q) # {},
         NEW c, c.table \in q.tables, c.op # "truncate",
         NEW r \in q.keep,
         \A col \in Columns : IsAnchorable(c.table, col) => <<col, r[col]>> \in c.key \cup c.row
  PROVE  Hits(q, c)
<1>1. PICK i \in DOMAIN q.eq : /\ Anchor(q) = q.eq[i]
                               /\ q.tables = {TableOf(q)}
                               /\ IsAnchorable(TableOf(q), Anchor(q).col)
  BY AnchorIsAnchorable
<1>2. /\ q.eq[i].col \in Columns /\ q.eq[i].val \in Values
      /\ q.eq[i].text = Text[q.eq[i].val] /\ q.eq[i].val # Null /\ ~q.wide
  <2>1. q.eq \in Seq([col : Columns, val : Values, text : Texts])
    BY QueriesAssumption DEF QueryType
  <2>2. q.eq[i] \in [col : Columns, val : Values, text : Texts]
    BY <2>1, ElementOfSeq
  <2> QED
    BY <1>1, <2>2, TextAssumption DEF Faithful
<1>3. c.table = TableOf(q) /\ r[Anchor(q).col] = q.eq[i].val
  BY <1>1, <1>2, FiltersAssumption
<1> DEFINE p == <<Anchor(q).col, q.eq[i].val>>
<1>4. p \in c.key \cup c.row
  BY <1>1, <1>2, <1>3
<1>5. p[1] = Anchor(q).col /\ p[2] # Null /\ Text[p[2]] = Anchor(q).text
  BY <1>1, <1>2
<1>6. CASE c.table \in Full
  <2>1. StampOf(q) \in ChangeColumns(c)
    BY <1>3, <1>4, <1>5 DEF ChangeColumns, StampOf
  <2> QED
    BY <1>6, <2>1 DEF Stamped, Hits
<1>7. CASE c.table \notin Full
  <2>1. c.table \in DOMAIN PK /\ PK[c.table] = Anchor(q).col
    BY <1>1, <1>3, <1>7 DEF IsAnchorable
  <2>2. StampOf(q) \in PkValues(c)
    BY <1>3, <1>4, <1>5, <2>1 DEF PkValues, StampOf
  <2> QED
    BY <1>7, <2>1, <2>2 DEF Stamped, Hits
<1> QED
  BY <1>6, <1>7

(* What a change of a query's result says of its tables. *)
LEMMA ResultDiffers ==
  ASSUME NEW q \in Queries, Faithful(q), NEW d, NEW e,
         Result(q, d) # Result(q, e)
  PROVE  \E t \in q.tables : /\ d[t] # e[t]
                             /\ q.tables = {t} /\ ~q.wide => d[t] \cap q.keep # e[t] \cap q.keep
BY DEF Result, Faithful

(* The change sends every anchorable column of the rows that come or go.   *)
Sends(c, t, from, to) ==
    \A r \in (from \ to) \cup (to \ from) :
        \A col \in Columns : IsAnchorable(t, col) => <<col, r[col]>> \in c.key \cup c.row

(* One row change: if it changed a faithful query's result, the change it  *)
(* puts on the feed hits that query.                                       *)
LEMMA WriteHits ==
  ASSUME NEW q \in Queries, Faithful(q), NEW d \in Db, NEW t \in Tables, NEW rows, NEW c,
         c.table = t,
         Sends(c, t, d[t], rows),
         c.op # "truncate",
         Result(q, d) # Result(q, [d EXCEPT ![t] = rows])
  PROVE  Hits(q, c)
<1> DEFINE e == [d EXCEPT ![t] = rows]
<1>1. PICK u \in q.tables : /\ d[u] # e[u]
                            /\ q.tables = {u} /\ ~q.wide => d[u] \cap q.keep # e[u] \cap q.keep
  BY ResultDiffers
<1>2. u = t /\ e[t] = rows
  BY <1>1, QueriesAssumption DEF Db, QueryType
<1>3. CASE Anchors(q) = {}
  BY <1>1, <1>2, <1>3 DEF Hits
<1>4. CASE Anchors(q) # {}
  <2>1. q.tables = {t} /\ ~q.wide
    BY <1>2, <1>4, AnchorIsAnchorable DEF Faithful
  <2>2. PICK r \in (d[t] \ rows) \cup (rows \ d[t]) : r \in q.keep
    BY <1>1, <1>2, <2>1
  <2> QED
    BY <1>4, <2>1, <2>2, MatchIsStamped DEF Sends
<1> QED
  BY <1>3, <1>4

-----------------------------------------------------------------------------
(* What the replica puts on the feed for rows of a table. *)
LEMMA PairsType == ASSUME NEW r \in Row PROVE Pairs(r) \subseteq Pair
BY RowAssumption DEF Pairs, Pair

(* The old key is made of columns of the old row. *)
LEMMA OldKeyType == ASSUME NEW t \in Tables, NEW r \in Row, NEW new PROVE OldKey(t, r, new) \subseteq Pair
<1>1. CASE t \in Full
  BY <1>1, PairsType DEF OldKey
<1>2. CASE t \notin Full /\ t \in DOMAIN PK
  <2>1. <<PK[t], r[PK[t]]>> \in Pair
    BY <1>2, PKAssumption, RowAssumption DEF Pair
  <2> QED
    BY <1>2, <2>1 DEF OldKey
<1>3. CASE t \notin Full /\ t \notin DOMAIN PK
  BY <1>3 DEF OldKey
<1> QED
  BY <1>1, <1>2, <1>3

(* An upstream write is a change of one table's rows together with what    *)
(* the feed says of it; both are well formed, and unless it truncates, the *)
(* feed sends every anchorable column of every row that comes or goes.     *)
LEMMA WriteOfStep ==
  ASSUME TypeOK, Upstream, ~Commit
  PROVE  \E t \in Tables, rows \in SUBSET Row, c \in Change :
           /\ Write(t, rows, c)
           /\ c.table = t
           /\ c.op # "truncate" => Sends(c, t, work[t], rows)
<1>0. \A t \in Tables : work[t] \subseteq Row
  BY DEF TypeOK, Db
<1>1. CASE \E t \in Tables, r \in Row : Insert(t, r)
  <2>1. PICK t \in Tables, r \in Row : Insert(t, r)
    BY <1>1
  <2> DEFINE rows == work[t] \cup {r}
             c == InsertChange(t, r)
  <2>2. c \in Change /\ c.table = t /\ c.row = Pairs(r)
    BY PairsType DEF InsertChange, Change
  <2>3. Write(t, rows, c) /\ rows \in SUBSET Row
    BY <1>0, <2>1 DEF Insert
  <2>4. \A s \in (work[t] \ rows) \cup (rows \ work[t]) : \A col \in Columns : <<col, s[col]>> \in c.row
    BY <2>2 DEF Pairs
  <2> HIDE DEF rows, c
  <2> QED
    BY <2>2, <2>3, <2>4 DEF Sends
<1>2. CASE \E t \in Tables : \E old \in work[t], new \in Row : Update(t, old, new)
  <2>1. PICK t \in Tables, old \in Row, new \in Row : old \in work[t] /\ Update(t, old, new)
    BY <1>0, <1>2
  <2> DEFINE rows == (work[t] \ {old}) \cup {new}
             c == UpdateChange(t, old, new)
  <2>2. c \in Change /\ c.table = t /\ c.row = Pairs(new) /\ c.key = OldKey(t, old, Pairs(new))
    BY <1>0, PairsType, OldKeyType DEF UpdateChange, Change
  <2>3. Write(t, rows, c) /\ rows \in SUBSET Row
    BY <1>0, <2>1 DEF Update
  <2>4. ASSUME NEW s \in (work[t] \ rows) \cup (rows \ work[t]), NEW col \in Columns, IsAnchorable(t, col)
        PROVE  <<col, s[col]>> \in c.key \cup c.row
    <3>1. s = old \/ s = new
      OBVIOUS
    <3>2. CASE s = new
      BY <2>2, <3>2 DEF Pairs
    <3>3. CASE s = old /\ t \in Full
      BY <2>2, <3>3 DEF OldKey, Pairs
    <3>4. CASE s = old /\ t \notin Full
      <4>1. t \in DOMAIN PK /\ PK[t] = col
        BY <2>4, <3>4 DEF IsAnchorable
      <4> QED
        BY <2>2, <3>4, <4>1 DEF OldKey
    <3> QED
      BY <3>1, <3>2, <3>3, <3>4
  <2> HIDE DEF rows, c
  <2> QED
    BY <2>2, <2>3, <2>4 DEF Sends
<1>3. CASE \E t \in Tables : \E old \in work[t] : Delete(t, old)
  <2>1. PICK t \in Tables, old \in Row : old \in work[t] /\ Delete(t, old)
    BY <1>0, <1>3
  <2> DEFINE rows == work[t] \ {old}
             c == DeleteChange(t, old)
  <2>2. c \in Change /\ c.table = t /\ c.key = OldKey(t, old, {})
    BY <1>0, OldKeyType DEF DeleteChange, Change
  <2>3. Write(t, rows, c) /\ rows \in SUBSET Row
    BY <1>0, <2>1 DEF Delete
  <2>4. ASSUME NEW s \in (work[t] \ rows) \cup (rows \ work[t]), NEW col \in Columns, IsAnchorable(t, col)
        PROVE  <<col, s[col]>> \in c.key \cup c.row
    BY <2>2, <2>4 DEF OldKey, Pairs, IsAnchorable
  <2> HIDE DEF rows, c
  <2> QED
    BY <2>2, <2>3, <2>4 DEF Sends
<1>4. CASE \E t \in Tables : Truncate(t)
  <2>1. PICK t \in Tables : Truncate(t)
    BY <1>4
  <2>2. TruncateChange(t) \in Change /\ TruncateChange(t).table = t /\ TruncateChange(t).op = "truncate"
    BY DEF TruncateChange, Change
  <2> QED
    BY <2>1, <2>2 DEF Truncate
<1> QED
  BY <1>1, <1>2, <1>3, <1>4 DEF Upstream

(* The index never runs ahead of the feed, whatever it stamps. *)
LEMMA InitType == Init => TypeOK
<1> SUFFICES ASSUME Init PROVE TypeOK OBVIOUS
<1>1. hist \in Seq(Db) /\ work \in Db /\ Len(hist) = 1
  BY DbAssumption DEF Init
<1>2. txns \in Seq(SUBSET Change) /\ Len(txns) = 0
  BY DEF Init
<1> QED
  BY <1>1, <1>2 DEF Init, TypeOK

(* Every step keeps the types. *)
LEMMA NextType == TypeOK /\ [Next]_vars => TypeOK'
<1> SUFFICES ASSUME TypeOK, [Next]_vars PROVE TypeOK'
  OBVIOUS
<1>1. CASE Upstream /\ ~Commit
  <2>1. PICK t \in Tables, rows \in SUBSET Row, c \in Change : Write(t, rows, c)
    BY <1>1, WriteOfStep
  <2>2. work' \in Db
    BY <2>1 DEF Write, TypeOK, Db
  <2> QED
    BY <2>1, <2>2 DEF Write, TypeOK, index
<1>2. CASE Commit
  <2>1. hist' \in Seq(Db) /\ Len(hist') = Len(hist) + 1
    BY <1>2 DEF Commit, TypeOK
  <2>2. txns' \in Seq(SUBSET Change) /\ Len(txns') = Len(txns) + 1
    BY <1>2 DEF Commit, TypeOK
  <2>3. Len(txns) \in Nat
    BY DEF TypeOK
  <2> QED
    BY <1>2, <2>1, <2>2, <2>3 DEF Commit, TypeOK, index
<1>3. CASE Advance
  <2>1. advanced' = advanced + 1 /\ advanced' \in 0 .. Len(txns) /\ advanced \in Nat
    BY <1>3 DEF Advance, TypeOK
  <2>2. tables' \in [Tables -> 0 .. advanced']
    BY <1>3, <2>1 DEF Advance, TypeOK, Raise
  <2>3. structural' \in [Tables -> 0 .. advanced']
    BY <1>3, <2>1 DEF Advance, TypeOK, Raise
  <2>4. values' \in [Stamps -> 0 .. advanced']
    BY <1>3, <2>1 DEF Advance, TypeOK
  <2> QED
    BY <1>3, <2>1, <2>2, <2>3, <2>4 DEF Advance, TypeOK, feed
<1>4. CASE UNCHANGED vars
  BY <1>4 DEF vars, feed, index, TypeOK
<1> QED
  BY <1>1, <1>2, <1>3, <1>4 DEF Next

(* Every reachable state of the feed and the index is well typed; in       *)
(* particular no entry of the index holds an LSN not yet delivered.        *)
THEOREM TypeCorrect == Spec => []TypeOK
BY InitType, NextType, PTL DEF Spec

-----------------------------------------------------------------------------
(* The strengthening.  Every change of a faithful query's result is        *)
(* announced by a change that hits the query, in the transactions and in   *)
(* the open one; the index has stamped every change delivered to it; and   *)
(* every stamp it holds comes from a change that was delivered.            *)
Accounted ==
    \A q \in FaithfulQueries, n \in 1 .. Len(txns) :
        Result(q, hist[n]) # Result(q, hist[n + 1]) => \E c \in txns[n] : Hits(q, c)

OpenAccounted ==
    \A q \in FaithfulQueries :
        Result(q, hist[Len(hist)]) # Result(q, work) => \E c \in open : Hits(q, c)

IndexComplete ==
    \A n \in 1 .. advanced : \A c \in txns[n] :
        /\ tables[c.table] >= n
        /\ c.op = "truncate" => structural[c.table] >= n
        /\ \A s \in Stamped(c) \cap Stamps : values[s] >= n

IndexJustified ==
    /\ \A t \in Tables : tables[t] > 0 => \E c \in txns[tables[t]] : c.table = t
    /\ \A t \in Tables : structural[t] > 0 =>
          \E c \in txns[structural[t]] : c.table = t /\ c.op = "truncate"
    /\ \A s \in Stamps : values[s] > 0 => \E c \in txns[values[s]] : s \in Stamped(c)

IInv == TypeOK /\ Accounted /\ OpenAccounted /\ IndexComplete /\ IndexJustified

(* Nothing is committed, open or stamped at first. *)
LEMMA InitInv == Init => IInv
<1> SUFFICES ASSUME Init PROVE IInv OBVIOUS
<1>1. TypeOK
  BY InitType
<1>2. Len(txns) = 0 /\ advanced = 0 /\ hist[Len(hist)] = work
  BY DEF Init
<1>3. Accounted /\ OpenAccounted /\ IndexComplete
  BY <1>2 DEF Accounted, OpenAccounted, IndexComplete
<1>4. IndexJustified
  BY DEF Init, IndexJustified
<1> QED
  BY <1>1, <1>3, <1>4 DEF IInv

(* A write inside a transaction: a result it changes is hit by its change, *)
(* one changed before stays announced.                                     *)
LEMMA WriteInv == ASSUME IInv, Upstream, ~Commit PROVE IInv'
<1>0. TypeOK /\ TypeOK'
  BY NextType DEF IInv, Next
<1>1. PICK t \in Tables, rows \in SUBSET Row, c \in Change :
           /\ Write(t, rows, c)
           /\ c.table = t
           /\ c.op # "truncate" => Sends(c, t, work[t], rows)
  BY <1>0, WriteOfStep
<1>2. /\ work' = [work EXCEPT ![t] = rows] /\ open' = open \cup {c}
      /\ UNCHANGED <<hist, txns, advanced, tables, values, structural>>
  BY <1>1 DEF Write, index
<1>3. Accounted' /\ IndexComplete' /\ IndexJustified'
  BY <1>2 DEF IInv, Accounted, IndexComplete, IndexJustified
<1>4. OpenAccounted'
  <2> SUFFICES ASSUME NEW q \in FaithfulQueries,
                      Result(q, hist[Len(hist)]) # Result(q, work')
               PROVE  \E x \in open' : Hits(q, x)
    BY <1>2 DEF OpenAccounted
  <2>1. q \in Queries /\ Faithful(q)
    BY DEF FaithfulQueries
  <2>2. CASE Result(q, hist[Len(hist)]) # Result(q, work)
    BY <1>2, <2>2 DEF IInv, OpenAccounted
  <2>3. CASE Result(q, work) # Result(q, work')
    <3>1. CASE c.op # "truncate"
      <4>1. work \in Db
        BY <1>0 DEF TypeOK
      <4>2. Result(q, work) # Result(q, [work EXCEPT ![t] = rows])
        BY <1>2, <2>3
      <4>3. /\ c.table = t
            /\ Sends(c, t, work[t], rows)
        BY <1>1, <3>1
      <4>4. Hits(q, c)
        BY <2>1, <3>1, <4>1, <4>2, <4>3, WriteHits
      <4> QED
        BY <1>2, <4>4
    <3>2. CASE c.op = "truncate"
      <4>1. PICK u \in q.tables : work[u] # work'[u]
        BY <2>1, <2>3, ResultDiffers
      <4>2. u = t
        BY <1>0, <1>2, <2>1, <4>1, QueriesAssumption DEF TypeOK, Db, QueryType
      <4>3. Hits(q, c)
        BY <1>1, <3>2, <4>2 DEF Hits
      <4> QED
        BY <1>2, <4>3
    <3> QED
      BY <3>1, <3>2
  <2> QED
    BY <2>2, <2>3
<1> QED
  BY <1>0, <1>3, <1>4 DEF IInv

(* A commit publishes the open transaction with what it accounts for. *)
LEMMA CommitInv == ASSUME IInv, Commit PROVE IInv'
<1>0. TypeOK /\ TypeOK'
  BY NextType DEF IInv, Next, Upstream
<1>1. /\ Len(txns) \in Nat /\ Len(hist) = Len(txns) + 1 /\ advanced \in 0 .. Len(txns)
      /\ Len(txns') = Len(txns) + 1 /\ Len(hist') = Len(hist) + 1
      /\ \A n \in 1 .. Len(txns) : txns'[n] = txns[n]
      /\ \A n \in 1 .. Len(hist) : hist'[n] = hist[n]
      /\ txns'[Len(txns) + 1] = open /\ hist'[Len(hist) + 1] = work
  BY <1>0 DEF Commit, TypeOK
<1>2. UNCHANGED <<advanced, tables, values, structural>> /\ work' = work
  BY DEF Commit, index
<1>3. Accounted'
  <2> SUFFICES ASSUME NEW q \in FaithfulQueries, NEW n \in 1 .. Len(txns) + 1,
                      Result(q, hist'[n]) # Result(q, hist'[n + 1])
               PROVE  \E c \in txns'[n] : Hits(q, c)
    BY <1>1 DEF Accounted
  <2>1. CASE n \in 1 .. Len(txns)
    <3>1. hist'[n] = hist[n] /\ hist'[n + 1] = hist[n + 1] /\ txns'[n] = txns[n]
      BY <1>1, <2>1
    <3> QED
      BY <2>1, <3>1 DEF IInv, Accounted
  <2>2. CASE n = Len(txns) + 1
    <3>1. hist'[n] = hist[Len(hist)] /\ hist'[n + 1] = work /\ txns'[n] = open
      BY <1>1, <2>2
    <3> QED
      BY <3>1 DEF IInv, OpenAccounted
  <2> QED
    BY <1>1, <2>1, <2>2
<1>4. OpenAccounted'
  BY <1>1, <1>2 DEF OpenAccounted
<1>5. IndexComplete'
  BY <1>1, <1>2 DEF IInv, IndexComplete
<1>6. IndexJustified'
  <2>1. /\ \A t \in Tables : tables[t] \in 0 .. Len(txns) /\ structural[t] \in 0 .. Len(txns)
        /\ \A s \in Stamps : values[s] \in 0 .. Len(txns)
    BY <1>0, <1>1 DEF TypeOK
  <2> QED
    BY <1>1, <1>2, <2>1 DEF IInv, IndexJustified
<1> QED
  BY <1>0, <1>3, <1>4, <1>5, <1>6 DEF IInv

(* advance stamps all of one transaction's changes with its LSN. *)
LEMMA AdvanceInv == ASSUME IInv, Advance PROVE IInv'
<1>0. TypeOK /\ TypeOK'
  BY NextType DEF IInv, Next
<1> DEFINE lsn == advanced + 1
           txn == txns[lsn]
<1>1. /\ UNCHANGED <<hist, txns, work, open>>
      /\ advanced' = lsn /\ advanced \in Nat /\ lsn \in 1 .. Len(txns)
  BY <1>0 DEF Advance, TypeOK, feed
<1>2. txn \subseteq Change
  BY <1>0, <1>1, ElementOfSeq DEF TypeOK
<1>3. \A t \in Tables :
         /\ tables[t] \in 0 .. advanced /\ structural[t] \in 0 .. advanced
         /\ tables'[t] = IF \E c \in txn : c.table = t THEN lsn ELSE tables[t]
         /\ structural'[t] = IF \E c \in txn : c.table = t /\ c.op = "truncate"
                             THEN lsn ELSE structural[t]
  BY <1>0, <1>1 DEF Advance, TypeOK, Raise
<1>4. \A s \in Stamps : /\ values[s] \in 0 .. advanced
                        /\ values'[s] = IF \E c \in txn : s \in Stamped(c) THEN lsn ELSE values[s]
  BY <1>0, <1>1 DEF Advance, TypeOK
<1>5. Accounted' /\ OpenAccounted'
  BY <1>1 DEF IInv, Accounted, OpenAccounted
<1>6. IndexComplete'
  <2> SUFFICES ASSUME NEW n \in 1 .. lsn, NEW c \in txns[n]
               PROVE  /\ tables'[c.table] >= n
                      /\ c.op = "truncate" => structural'[c.table] >= n
                      /\ \A s \in Stamped(c) \cap Stamps : values'[s] >= n
    BY <1>1 DEF IndexComplete
  <2>1. c.table \in Tables
    <3>1. txns[n] \subseteq Change
      BY <1>0, <1>1, ElementOfSeq DEF TypeOK
    <3> QED
      BY <3>1 DEF Change
  <2>2. CASE n = lsn
    BY <1>1, <1>3, <1>4, <2>1, <2>2
  <2>3. CASE n \in 1 .. advanced
    <3>1. /\ tables[c.table] >= n
          /\ c.op = "truncate" => structural[c.table] >= n
          /\ \A s \in Stamped(c) \cap Stamps : values[s] >= n
      BY <2>3 DEF IInv, IndexComplete
    <3>2. \A t \in Tables : tables'[t] >= tables[t] /\ structural'[t] >= structural[t]
      BY <1>1, <1>3
    <3>3. \A s \in Stamps : values'[s] >= values[s]
      BY <1>1, <1>4
    <3>4. tables'[c.table] >= n /\ (c.op = "truncate" => structural'[c.table] >= n)
      BY <1>1, <1>3, <2>1, <2>3, <3>1, <3>2
    <3>5. \A s \in Stamped(c) \cap Stamps : values'[s] >= n
      BY <1>1, <1>4, <2>3, <3>1, <3>3
    <3> QED
      BY <3>4, <3>5
  <2> QED
    BY <1>1, <2>2, <2>3
<1>7. IndexJustified'
  <2>1. \A t \in Tables : tables'[t] > 0 => \E c \in txns[tables'[t]] : c.table = t
    BY <1>3 DEF IInv, IndexJustified
  <2>2. \A t \in Tables : structural'[t] > 0 =>
           \E c \in txns[structural'[t]] : c.table = t /\ c.op = "truncate"
    BY <1>3 DEF IInv, IndexJustified
  <2>3. \A s \in Stamps : values'[s] > 0 => \E c \in txns[values'[s]] : s \in Stamped(c)
    BY <1>4 DEF IInv, IndexJustified
  <2> QED
    BY <1>1, <2>1, <2>2, <2>3 DEF IndexJustified
<1> QED
  BY <1>0, <1>5, <1>6, <1>7 DEF IInv

(* Every step keeps the strengthening. *)
LEMMA NextInv == IInv /\ [Next]_vars => IInv'
<1> SUFFICES ASSUME IInv, [Next]_vars PROVE IInv'
  OBVIOUS
<1>1. CASE UNCHANGED vars
  BY <1>1, NextType DEF vars, feed, index, IInv, Accounted, OpenAccounted, IndexComplete, IndexJustified
<1> QED
  BY <1>1, WriteInv, CommitInv, AdvanceInv DEF Next

-----------------------------------------------------------------------------
(* What version_of reads out of the index. *)
LEMMA VersionReads ==
  ASSUME TypeOK, NEW q \in Queries
  PROVE  /\ VersionOf(q) \in 0 .. advanced
         /\ Anchors(q) # {} =>
              /\ TableOf(q) \in Tables /\ StampOf(q) \in Stamps /\ q.tables = {TableOf(q)}
              /\ VersionOf(q) \in {structural[TableOf(q)], values[StampOf(q)]}
              /\ structural[TableOf(q)] <= VersionOf(q) /\ values[StampOf(q)] <= VersionOf(q)
         /\ Anchors(q) = {} =>
              /\ \A t \in q.tables : tables[t] <= VersionOf(q) /\ structural[t] <= VersionOf(q)
              /\ VersionOf(q) = 0 \/ \E t \in q.tables : VersionOf(q) \in {tables[t], structural[t]}
<1>0. q.tables \subseteq Tables /\ advanced \in Nat
  BY QueriesAssumption DEF QueryType, TypeOK
<1>1. CASE Anchors(q) # {}
  <2>1. PICK i \in DOMAIN q.eq : /\ Anchor(q) = q.eq[i] /\ q.tables = {TableOf(q)}
                                 /\ TableOf(q) \in Tables
    BY <1>1, AnchorIsAnchorable
  <2>2. Anchor(q) \in [col : Columns, val : Values, text : Texts]
    <3>1. q.eq \in Seq([col : Columns, val : Values, text : Texts])
      BY QueriesAssumption DEF QueryType
    <3>2. q.eq[i] \in [col : Columns, val : Values, text : Texts]
      BY <3>1, ElementOfSeq
    <3> QED
      BY <2>1, <3>2
  <2>3. StampOf(q) \in Stamps
    BY <2>1, <2>2 DEF StampOf, Stamps
  <2>4. structural[TableOf(q)] \in 0 .. advanced /\ values[StampOf(q)] \in 0 .. advanced
    BY <2>1, <2>3 DEF TypeOK
  <2>5. VersionOf(q) = Raise(structural[TableOf(q)], values[StampOf(q)])
    BY <1>1 DEF VersionOf, StampOf
  <2> QED
    BY <1>0, <1>1, <2>1, <2>3, <2>4, <2>5 DEF Raise
<1>2. CASE Anchors(q) = {}
  <2> DEFINE S == {0} \cup {tables[t] : t \in q.tables} \cup {structural[t] : t \in q.tables}
  <2>1. S \subseteq 0 .. advanced /\ S # {}
    BY <1>0 DEF TypeOK
  <2>2. VersionOf(q) = LargestOf(S)
    BY <1>2 DEF VersionOf
  <2>3. LargestOf(S) \in S /\ \A y \in S : y <= LargestOf(S)
    BY <1>0, <2>1, LargestNatural
  <2> QED
    BY <1>2, <2>1, <2>2, <2>3
<1> QED
  BY <1>1, <1>2

(* A delivered change that hits q has moved q's version. *)
LEMMA HitMovesVersion ==
  ASSUME IInv, NEW q \in Queries, NEW n \in 1 .. advanced, NEW c \in txns[n], Hits(q, c)
  PROVE  VersionOf(q) >= n
<1>1. TypeOK /\ advanced \in Nat /\ advanced <= Len(txns)
  BY DEF IInv, TypeOK
<1>2. /\ tables[c.table] >= n
      /\ c.op = "truncate" => structural[c.table] >= n
      /\ \A s \in Stamped(c) \cap Stamps : values[s] >= n
  BY DEF IInv, IndexComplete
<1>3. c.table \in q.tables /\ q.tables \subseteq Tables
  BY QueriesAssumption DEF Hits, QueryType
<1>4. tables[c.table] \in Nat /\ structural[c.table] \in Nat /\ VersionOf(q) \in Nat
  BY <1>1, <1>3, VersionReads DEF TypeOK
<1>5. CASE Anchors(q) = {}
  <2>1. tables[c.table] <= VersionOf(q)
    BY <1>1, <1>3, <1>5, VersionReads
  <2> QED
    BY <1>2, <1>4, <2>1
<1>6. CASE Anchors(q) # {}
  <2>1. /\ q.tables = {TableOf(q)} /\ StampOf(q) \in Stamps /\ values[StampOf(q)] \in Nat
        /\ structural[TableOf(q)] <= VersionOf(q) /\ values[StampOf(q)] <= VersionOf(q)
    BY <1>1, <1>6, VersionReads DEF TypeOK
  <2>2. c.table = TableOf(q)
    BY <1>3, <2>1
  <2>3. CASE c.op = "truncate"
    BY <1>2, <1>4, <2>1, <2>2, <2>3
  <2>4. CASE StampOf(q) \in Stamped(c)
    BY <1>2, <1>4, <2>1, <2>4
  <2> QED
    BY <1>6, <2>3, <2>4 DEF Hits
<1> QED
  BY <1>5, <1>6

(* The strengthening implies soundness: a result that changed after the    *)
(* version would have moved the version.                                   *)
LEMMA InvPinsResult == IInv => VersionPinsResult
<1> SUFFICES ASSUME IInv, NEW q \in Queries, Faithful(q),
                    NEW n \in (VersionOf(q) + 1) .. advanced
             PROVE  Result(q, hist[n]) = Result(q, hist[n + 1])
  BY DEF VersionPinsResult, PinsResult
<1>1. TypeOK /\ advanced \in Nat /\ advanced <= Len(txns) /\ Len(txns) \in Nat
  BY DEF IInv, TypeOK
<1>2. VersionOf(q) \in Nat
  BY <1>1, VersionReads
<1>3. n \in 1 .. advanced /\ n \in 1 .. Len(txns) /\ VersionOf(q) < n
  BY <1>1, <1>2
<1>4. ASSUME NEW c \in txns[n], Hits(q, c) PROVE FALSE
  BY <1>2, <1>3, <1>4, HitMovesVersion
<1> QED
  BY <1>3, <1>4 DEF IInv, Accounted, FaithfulQueries

(* The version of a faithful query pins its result, for every schema,      *)
(* replica identity, query and history of transactions: no commit          *)
(* delivered after the version changed what the query returns.             *)
THEOREM VersionsPinResults == Spec => []VersionPinsResult
BY InitInv, NextInv, InvPinsResult, PTL DEF Spec

(* A stamped entry of an anchored query is a relevant change. *)
LEMMA StampedIsRelevant ==
  ASSUME NEW q \in Queries, Anchors(q) # {}, NEW c, StampOf(q) \in Stamped(c)
  PROVE  /\ c.table \in q.tables
         /\ \E p \in c.key \cup c.row :
              p[1] = Anchor(q).col /\ p[2] # Null /\ Text[p[2]] = Anchor(q).text
<1>1. q.tables = {TableOf(q)}
  BY AnchorIsAnchorable
<1>2. StampOf(q) \in ChangeColumns(c) \cup PkValues(c)
  BY DEF Stamped
<1>3. PICK p \in c.key \cup c.row : p[2] # Null /\ StampOf(q) = <<c.table, p[1], Text[p[2]]>>
  BY <1>2 DEF ChangeColumns, PkValues
<1> QED
  BY <1>1, <1>3 DEF StampOf

(* The strengthening implies precision. *)
LEMMA InvIsRelevant == IInv => VersionIsRelevant
<1> SUFFICES ASSUME IInv, NEW q \in Queries, VersionOf(q) # 0
             PROVE  Relevant(q, VersionOf(q))
  BY DEF VersionIsRelevant
<1>1. TypeOK /\ q.tables \subseteq Tables
  BY QueriesAssumption DEF IInv, QueryType
<1>2. VersionOf(q) \in Nat /\ VersionOf(q) > 0
  BY <1>1, VersionReads DEF TypeOK
<1>3. CASE Anchors(q) = {}
  <2>1. PICK t \in q.tables : VersionOf(q) \in {tables[t], structural[t]}
    BY <1>1, <1>3, VersionReads
  <2>2. \E c \in txns[VersionOf(q)] : c.table = t
    BY <1>1, <1>2, <2>1 DEF IInv, IndexJustified
  <2> QED
    BY <1>3, <2>2 DEF Relevant
<1>4. CASE Anchors(q) # {}
  <2>1. /\ TableOf(q) \in Tables /\ StampOf(q) \in Stamps /\ q.tables = {TableOf(q)}
        /\ VersionOf(q) \in {structural[TableOf(q)], values[StampOf(q)]}
    BY <1>1, <1>4, VersionReads
  <2>2. CASE VersionOf(q) = structural[TableOf(q)]
    <3>1. \E c \in txns[VersionOf(q)] : c.table = TableOf(q) /\ c.op = "truncate"
      BY <1>2, <2>1, <2>2 DEF IInv, IndexJustified
    <3> QED
      BY <2>1, <3>1 DEF Relevant
  <2>3. CASE VersionOf(q) = values[StampOf(q)]
    <3>1. PICK c \in txns[VersionOf(q)] : StampOf(q) \in Stamped(c)
      BY <1>2, <2>1, <2>3 DEF IInv, IndexJustified
    <3> QED
      BY <1>4, <3>1, StampedIsRelevant DEF Relevant
  <2> QED
    BY <2>1, <2>2, <2>3
<1> QED
  BY <1>3, <1>4

(* A cursor moves only for a relevant commit, for every schema and         *)
(* history: its version is 0 or a commit that touched what it reads.       *)
THEOREM VersionsAreRelevant == Spec => []VersionIsRelevant
BY InitInv, NextInv, InvIsRelevant, PTL DEF Spec

-----------------------------------------------------------------------------
(* Refinement of CursorVersions. *)

(* The initial index maps to the initial contract. *)
LEMMA RefinesInit == Init => Contract!CursorInit
<1> SUFFICES ASSUME Init PROVE Contract!CursorInit OBVIOUS
<1>1. TypeOK /\ Len(txns) = 0 /\ advanced = 0
  BY InitType DEF Init
<1>2. [n \in 1 .. Len(txns) |-> Changed(n)] = <<>>
  BY <1>1
<1>3. \A q \in FaithfulQueries : VersionOf(q) = 0
  BY <1>1, VersionReads DEF FaithfulQueries
<1> QED
  BY <1>1, <1>2, <1>3 DEF Contract!CursorInit

(* A function on 1 .. n is a sequence of length n, and the function on     *)
(* 1 .. n + 1 that extends it is what Append makes of it.                  *)
LEMMA ExtendedSequence ==
  ASSUME NEW S, NEW n \in Nat, NEW f \in [1 .. n -> S], NEW g \in [1 .. n + 1 -> S],
         \A i \in 1 .. n : g[i] = f[i]
  PROVE  f \in Seq(S) /\ Len(f) = n /\ g = Append(f, g[n + 1])
<1>1. f \in Seq(S) /\ Len(f) = n
  OBVIOUS
<1>2. g \in Seq(S) /\ Len(g) = n + 1
  OBVIOUS
<1>3. DOMAIN Append(f, g[n + 1]) = 1 .. n + 1 /\ DOMAIN g = 1 .. n + 1
  BY <1>1, <1>2
<1>4. \A i \in 1 .. n + 1 : Append(f, g[n + 1])[i] = g[i]
  BY <1>1, <1>2
<1> QED
  BY <1>1, <1>2, <1>3, <1>4

(* A commit maps to a commit that changes the results it changed. *)
LEMMA RefinesCommit ==
  ASSUME IInv, Commit
  PROVE  \E R \in SUBSET FaithfulQueries : Contract!Commit(R)
<1> DEFINE Log == [n \in 1 .. Len(txns) |-> Changed(n)]
           R == Log'[Len(txns) + 1]
<1>1. /\ Len(txns) \in Nat /\ Len(hist) = Len(txns) + 1
      /\ Len(txns') = Len(txns) + 1
      /\ \A n \in 1 .. Len(hist) : hist'[n] = hist[n]
  BY DEF Commit, IInv, TypeOK
<1>2. \A n \in 1 .. Len(txns) : (Changed(n))' = Changed(n)
  BY <1>1 DEF Changed
<1>3. \A n : Changed(n) \in SUBSET FaithfulQueries /\ (Changed(n))' \in SUBSET FaithfulQueries
  BY DEF Changed, FaithfulQueries
<1>4. /\ Log \in [1 .. Len(txns) -> SUBSET FaithfulQueries]
      /\ Log' \in [1 .. Len(txns) + 1 -> SUBSET FaithfulQueries]
      /\ \A i \in 1 .. Len(txns) : Log'[i] = Log[i]
      /\ R \in SUBSET FaithfulQueries
  <2>1. Log' = [n \in 1 .. Len(txns) + 1 |-> (Changed(n))']
    BY <1>1
  <2>2. Log \in [1 .. Len(txns) -> SUBSET FaithfulQueries]
    BY <1>3
  <2>3. Log' \in [1 .. Len(txns) + 1 -> SUBSET FaithfulQueries]
    BY <1>3, <2>1
  <2>4. \A i \in 1 .. Len(txns) : Log'[i] = Log[i]
    BY <1>1, <1>2, <2>1
  <2>5. R \in SUBSET FaithfulQueries
    BY <1>1, <2>3
  <2> QED
    BY <2>2, <2>3, <2>4, <2>5
<1> HIDE DEF Log, R
<1>5. Len(Log) = Len(txns) /\ Log' = Append(Log, R)
  BY <1>1, <1>4, ExtendedSequence DEF R
<1>6. UNCHANGED <<advanced, tables, values, structural>> /\ Len(txns) < MaxCommits
  BY DEF Commit, index
<1>7. \A q : (VersionOf(q))' = VersionOf(q)
  BY <1>6 DEF VersionOf
<1>8. Contract!Commit(R)
  BY <1>5, <1>6, <1>7 DEF Contract!Commit, Log
<1> QED
  BY <1>4, <1>8

(* VersionReads as a state predicate, to be used in the next state too. *)
Bounds(q) ==
  /\ VersionOf(q) \in 0 .. advanced
  /\ Anchors(q) # {} =>
       /\ TableOf(q) \in Tables /\ StampOf(q) \in Stamps
       /\ VersionOf(q) \in {structural[TableOf(q)], values[StampOf(q)]}
       /\ structural[TableOf(q)] <= VersionOf(q) /\ values[StampOf(q)] <= VersionOf(q)
  /\ Anchors(q) = {} =>
       /\ \A t \in q.tables : tables[t] <= VersionOf(q) /\ structural[t] <= VersionOf(q)
       /\ VersionOf(q) = 0 \/ \E t \in q.tables : VersionOf(q) \in {tables[t], structural[t]}

AllBounds == \A q \in Queries : Bounds(q)

(* VersionReads holds of every query in every type-correct state. *)
LEMMA VersionBounds == TypeOK => AllBounds
BY VersionReads DEF AllBounds, Bounds

(* Advancing over a commit leaves a version alone or makes it the commit's *)
(* LSN: it never goes back and never skips ahead.                          *)
LEMMA AdvanceMoves ==
  ASSUME IInv, Advance
  PROVE  \A q \in Queries : (VersionOf(q))' \in {VersionOf(q), advanced + 1}
<1>1. TypeOK /\ TypeOK'
  BY NextType DEF IInv, Next
<1>2. /\ advanced \in Nat
      /\ \A t \in Tables : tables[t] \in Nat /\ tables[t] <= advanced
      /\ \A t \in Tables : structural[t] \in Nat /\ structural[t] <= advanced
      /\ \A s \in Stamps : values[s] \in Nat /\ values[s] <= advanced
  BY <1>1 DEF TypeOK
<1>3. /\ \A t \in Tables : tables'[t] \in {tables[t], advanced + 1}
      /\ \A t \in Tables : structural'[t] \in {structural[t], advanced + 1}
      /\ \A s \in Stamps : values'[s] \in {values[s], advanced + 1}
  BY <1>2 DEF Advance, Raise
<1>4. AllBounds /\ AllBounds'
  BY <1>1, VersionBounds, PTL
<1> SUFFICES ASSUME NEW q \in Queries, (VersionOf(q))' # advanced + 1
             PROVE  (VersionOf(q))' = VersionOf(q)
  OBVIOUS
<1>5. q.tables \subseteq Tables
  BY QueriesAssumption DEF QueryType
<1>6. Bounds(q) /\ Bounds(q)'
  BY <1>4 DEF AllBounds
<1>7. VersionOf(q) \in Nat /\ (VersionOf(q))' \in Nat /\ (VersionOf(q))' <= advanced
  BY <1>2, <1>6 DEF Bounds, Advance
<1>8. CASE Anchors(q) # {}
  BY <1>2, <1>3, <1>6, <1>7, <1>8 DEF Bounds
<1>9. CASE Anchors(q) = {}
  BY <1>2, <1>3, <1>5, <1>6, <1>7, <1>9 DEF Bounds
<1> QED
  BY <1>8, <1>9

(* Advancing the index advances the contract over the same commit. *)
LEMMA RefinesAdvance ==
  ASSUME IInv, Advance
  PROVE  Contract!Advance
<1> DEFINE Log == [n \in 1 .. Len(txns) |-> Changed(n)]
           bumped == {q \in FaithfulQueries : (VersionOf(q))' = advanced + 1}
<1>1. /\ Len(txns) \in Nat /\ advanced \in Nat /\ advanced < Len(txns)
      /\ advanced' = advanced + 1 /\ UNCHANGED <<hist, txns>>
  BY DEF Advance, IInv, TypeOK, feed
<1>2. Log \in [1 .. Len(txns) -> SUBSET FaithfulQueries]
  BY DEF Changed, FaithfulQueries
<1>3. Len(Log) = Len(txns) /\ Log[advanced + 1] = Changed(advanced + 1)
  BY <1>1, <1>2
<1>4. Log' = Log
  BY <1>1 DEF Changed
<1>5. VersionPinsResult' /\ AllBounds'
  <2>1. IInv'
    BY NextInv DEF Next
  <2>2. TypeOK'
    BY <2>1 DEF IInv
  <2> QED
    BY <2>1, <2>2, InvPinsResult, VersionBounds, PTL
<1>6. ASSUME NEW q \in Changed(advanced + 1)
      PROVE  q \in bumped
  <2>1. /\ q \in Queries /\ Faithful(q)
        /\ Result(q, hist[advanced + 1]) # Result(q, hist[advanced + 2])
    BY <1>1, <1>6 DEF Changed, FaithfulQueries
  <2>2. (VersionOf(q))' \in 0 .. advanced + 1
    BY <1>1, <1>5, <2>1 DEF AllBounds, Bounds
  <2>3. \A n \in ((VersionOf(q))' + 1) .. advanced + 1 : Result(q, hist[n]) = Result(q, hist[n + 1])
    BY <1>1, <1>5, <2>1 DEF VersionPinsResult, PinsResult
  <2>4. (VersionOf(q))' = advanced + 1
    BY <1>1, <2>1, <2>2, <2>3
  <2> QED
    BY <2>1, <2>4 DEF FaithfulQueries
<1>7. [q \in FaithfulQueries |-> (VersionOf(q))'] =
        [q \in FaithfulQueries |-> IF q \in bumped THEN advanced + 1 ELSE VersionOf(q)]
  BY AdvanceMoves DEF FaithfulQueries
<1> HIDE DEF bumped
<1>8. bumped \in SUBSET FaithfulQueries
  BY DEF bumped
<1> QED
  BY <1>1, <1>3, <1>4, <1>6, <1>7, <1>8 DEF Contract!Advance

(* A step that leaves the commits and the index alone stutters. *)
LEMMA RefinesStutter ==
  ASSUME UNCHANGED <<hist, txns, index>>
  PROVE  UNCHANGED Contract!cvars
BY DEF index, Contract!cvars, Changed, VersionOf

(* Every step maps to a step of the contract or to a stutter. *)
LEMMA RefinesNext ==
  ASSUME IInv, [Next]_vars
  PROVE  [Contract!CursorNext]_(Contract!cvars)
<1>1. CASE UNCHANGED vars
  BY <1>1, RefinesStutter DEF vars, feed, index
<1>2. CASE Commit
  BY <1>2, RefinesCommit DEF Contract!CursorNext
<1>3. CASE Advance
  BY <1>3, RefinesAdvance DEF Contract!CursorNext
<1>4. CASE Upstream /\ ~Commit
  <2>1. UNCHANGED <<hist, txns, index>>
    BY <1>4 DEF Upstream, Insert, Update, Delete, Truncate, Write
  <2> QED
    BY <2>1, RefinesStutter
<1> QED
  BY <1>1, <1>2, <1>3, <1>4 DEF Next

(* The index implements the contract the snapshot cache is built on, for   *)
(* every schema, every set of queries and every history of transactions.   *)
THEOREM IndexImplementsContract == Spec => ImplementsContract
<1>1. Init => Contract!CursorInit
  BY RefinesInit
<1>2. IInv /\ [Next]_vars => [Contract!CursorNext]_(Contract!cvars)
  BY RefinesNext
<1> QED
  BY <1>1, <1>2, InitInv, NextInv, PTL DEF Spec, ImplementsContract, Contract!CursorSpec

=============================================================================
