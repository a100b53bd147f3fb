---------------------------- MODULE VersionIndex ----------------------------
(***************************************************************************)
(* capability/version.rs with the change feed that drives it               *)
(* (capability/cdc.rs).  Upstream transactions write rows; the replica     *)
(* applies a transaction to the local database and publishes it with the   *)
(* columns its tables' replica identity allows; the CDC thread hands it to *)
(* `advance`, which stamps tables, row values and truncations with the     *)
(* transaction's LSN; `version_of` answers a query from those stamps.      *)
(*                                                                         *)
(* Positions: hist[n + 1] is the database after commit n, hist[1] the      *)
(* initial copy, txns[n] the changes of commit n.  LSNs are 1, 2, 3, ...:  *)
(* the index only compares them.                                           *)
(***************************************************************************)
EXTENDS Naturals, Sequences

CONSTANTS
    Tables, Columns,
    Values,       \* column values other than NULL
    Null,
    Texts,        \* their text forms
    Text,         \* Text[v]: the text pgoutput sends for v
    PK,           \* PK[t]: the column of t's single-column primary key
    Full,         \* the tables with REPLICA IDENTITY FULL
    Row,          \* the rows that are written, see RowAssumption
    Queries,      \* classified queries, see QueryType
    InitialDbs,   \* the initial copies considered
    MaxCommits,   \* bound: upstream transactions
    MaxChanges    \* bound: row changes in all transactions together

ASSUME PKAssumption ==
    /\ DOMAIN PK \subseteq Tables
    /\ \A t \in DOMAIN PK : PK[t] \in Columns

ASSUME TextAssumption == Text \in [Values -> Texts] /\ Null \notin Values

ASSUME RowAssumption == Row \subseteq [Columns -> Values \cup {Null}]

Db == [Tables -> SUBSET Row]

(* CacheableQuery: the tables it reads and the `column = value` conjuncts  *)
(* of its WHERE clause (val: what SQL compares with; text: what            *)
(* literal_value or placeholder_value produced); and what the database     *)
(* knows of it besides: the tables it really reads, the rows the WHERE     *)
(* clause keeps, and whether it reads beyond that clause (a join, a        *)
(* subquery, WITH).                                                        *)
QueryType(q) ==
    /\ q.tables \subseteq Tables
    /\ q.eq \in Seq([col : Columns, val : Values, text : Texts])
    /\ q.wide \in BOOLEAN
    /\ q.reads \subseteq Tables /\ q.keep \subseteq Row

ASSUME QueriesAssumption == \A q \in Queries : QueryType(q)

(* The conjuncts hold of every row the WHERE clause keeps (Classifier). *)
ASSUME FiltersAssumption ==
    \A q \in Queries : \A r \in q.keep :
        q.wide \/ \A i \in DOMAIN q.eq : r[q.eq[i].col] = q.eq[i].val

ASSUME DbAssumption == InitialDbs \subseteq Db

VARIABLES
    hist,        \* the database after each commit
    txns,        \* the committed transactions' changes
    work,        \* the database as the open transaction sees it
    open,        \* the changes of the open transaction
    changes,     \* how many changes were made so far (only a bound)
    advanced,    \* the transactions the index has been advanced over
    tables,      \* State.tables, 0 where the map has no entry
    values,      \* State.values, likewise
    structural   \* State.structural, likewise

feed == <<hist, txns, work, open, changes>>
index == <<advanced, tables, values, structural>>
vars == <<feed, index>>

-----------------------------------------------------------------------------
(* The replica: what a row change looks like on the change feed. *)

(* RowChange: the columns of the old row that are sent (`key`) and those   *)
(* of the new one (`row`).                                                 *)
Pair == Columns \X (Values \cup {Null})
Change == [op : {"insert", "update", "delete", "truncate"}, table : Tables,
           key : SUBSET Pair, row : SUBSET Pair]

Pairs(r) == {<<c, r[c]>> : c \in Columns}

(* The old row's columns: all of them under REPLICA IDENTITY FULL; under   *)
(* the default identity the primary key, and on UPDATE only if it changed. *)
OldKey(t, old, new) ==
    IF t \in Full THEN Pairs(old)
    ELSE IF t \in DOMAIN PK /\ (new = {} \/ <<PK[t], old[PK[t]]>> \notin new)
         THEN {<<PK[t], old[PK[t]]>>}
         ELSE {}

InsertChange(t, r) == [op |-> "insert", table |-> t, key |-> {}, row |-> Pairs(r)]
UpdateChange(t, old, new) ==
    [op |-> "update", table |-> t, key |-> OldKey(t, old, Pairs(new)), row |-> Pairs(new)]
DeleteChange(t, old) ==
    [op |-> "delete", table |-> t, key |-> OldKey(t, old, {}), row |-> {}]
TruncateChange(t) == [op |-> "truncate", table |-> t, key |-> {}, row |-> {}]

(* A primary key is unique and not NULL. *)
KeyOK(t, rows, r) ==
    t \in DOMAIN PK => /\ r[PK[t]] # Null
                       /\ \A s \in rows : s[PK[t]] # r[PK[t]]

Write(t, rows, c) ==
    /\ changes < MaxChanges
    /\ Len(txns) < MaxCommits
    /\ work' = [work EXCEPT ![t] = rows]
    /\ open' = open \cup {c}
    /\ changes' = changes + 1
    /\ UNCHANGED <<hist, txns, index>>

Insert(t, r) ==
    /\ r \notin work[t] /\ KeyOK(t, work[t], r)
    /\ Write(t, work[t] \cup {r}, InsertChange(t, r))

Update(t, old, new) ==
    /\ old \in work[t] /\ new # old
    /\ KeyOK(t, work[t] \ {old}, new)
    /\ Write(t, (work[t] \ {old}) \cup {new}, UpdateChange(t, old, new))

Delete(t, old) ==
    /\ old \in work[t]
    /\ Write(t, work[t] \ {old}, DeleteChange(t, old))

Truncate(t) ==
    Write(t, {}, TruncateChange(t))

(* The transaction commits: applied to the local database, then published. *)
Commit ==
    /\ open # {}
    /\ Len(txns) < MaxCommits
    /\ hist' = Append(hist, work)
    /\ txns' = Append(txns, open)
    /\ open' = {}
    /\ UNCHANGED <<work, changes, index>>

-----------------------------------------------------------------------------
(* VersionIndex::advance *)

Stamps == Tables \X Columns \X Texts

(* The definitions named ...Fault are deliberate faults; the model does    *)
(* not use them.  Each stands for a slip in the definition that follows it *)
(* and is put in its place to see that a property notices.                 *)

(* Fault: the old row's columns are forgotten. *)
ChangeColumnsFault(c) ==
    {<<c.table, p[1], Text[p[2]]>> : p \in {x \in c.row : x[2] # Null}}

(* change_columns: the columns of `key` and `row` that are not NULL. *)
ChangeColumns(c) ==
    {<<c.table, p[1], Text[p[2]]>> : p \in {x \in c.key \cup c.row : x[2] # Null}}

(* Fault: any column's value is filed under the primary key. *)
PkValuesFault(c) ==
    {<<c.table, PK[c.table], Text[p[2]]>> : p \in {x \in c.key \cup c.row : x[2] # Null}}

(* pk_values: the primary key's value in `key` and in `row`. *)
PkValues(c) ==
    {<<c.table, p[1], Text[p[2]]>> :
        p \in {x \in c.key \cup c.row : x[1] = PK[c.table] /\ x[2] # Null}}

(* The entries of State.values that one change stamps. *)
Stamped(c) ==
    IF c.op = "truncate" THEN {}
    ELSE IF c.table \in Full THEN ChangeColumns(c)
    ELSE IF c.table \in DOMAIN PK THEN PkValues(c)
    ELSE {}

(* Fault: the entry moves past the LSN of the transaction. *)
RaiseFault(entry, lsn) == IF lsn >= entry THEN lsn + 1 ELSE entry

Raise(entry, lsn) == IF lsn > entry THEN lsn ELSE entry

(* The CDC thread takes the next transaction.  All of its changes carry    *)
(* one LSN and the whole loop runs under the write lock.                   *)
Advance ==
    /\ advanced < Len(txns)
    /\ advanced' = advanced + 1
    /\ LET lsn == advanced + 1
           txn == txns[lsn]
       IN  /\ tables' = [t \in Tables |->
                 IF \E c \in txn : c.table = t THEN Raise(tables[t], lsn) ELSE tables[t]]
           /\ structural' = [t \in Tables |->
                 IF \E c \in txn : c.table = t /\ c.op = "truncate"
                 THEN Raise(structural[t], lsn) ELSE structural[t]]
           /\ values' = [s \in Stamps |->
                 IF \E c \in txn : s \in Stamped(c) THEN lsn ELSE values[s]]
    /\ UNCHANGED feed

-----------------------------------------------------------------------------
(* VersionIndex::version_of *)

IsAnchorable(t, col) == t \in Full \/ (t \in DOMAIN PK /\ PK[t] = col)

(* Fault: a filter of a join is taken for a filter of its only table. *)
AnchorsFault(q) ==
    {i \in DOMAIN q.eq : \E t \in q.tables : IsAnchorable(t, q.eq[i].col)}

(* The filters a version of q can be anchored to: the first one is used. *)
Anchors(q) ==
    {i \in DOMAIN q.eq : \E t \in q.tables : q.tables = {t} /\ IsAnchorable(t, q.eq[i].col)}

Anchor(q) == q.eq[CHOOSE i \in Anchors(q) : \A j \in Anchors(q) : i <= j]

TableOf(q) == CHOOSE t \in q.tables : TRUE

LargestOf(S) == CHOOSE x \in S : \A y \in S : y <= x

VersionOf(q) ==
    IF Anchors(q) # {}
    THEN Raise(structural[TableOf(q)],
               values[<<TableOf(q), Anchor(q).col, Anchor(q).text>>])
    ELSE LargestOf({0} \cup {tables[t] : t \in q.tables}
                       \cup {structural[t] : t \in q.tables})

-----------------------------------------------------------------------------
Init ==
    /\ \E db \in InitialDbs : hist = <<db>> /\ work = db
    /\ txns = <<>> /\ open = {} /\ changes = 0 /\ advanced = 0
    /\ tables = [t \in Tables |-> 0]
    /\ values = [s \in Stamps |-> 0]
    /\ structural = [t \in Tables |-> 0]

Upstream ==
    \/ \E t \in Tables, r \in Row : Insert(t, r)
    \/ \E t \in Tables : \E old \in work[t], new \in Row : Update(t, old, new)
    \/ \E t \in Tables : \E old \in work[t] : Delete(t, old)
    \/ \E t \in Tables : Truncate(t)
    \/ Commit

Next == Upstream \/ Advance

Spec == Init /\ [][Next]_vars

-----------------------------------------------------------------------------
(* What a query's result depends on: the rows its WHERE clause keeps when  *)
(* it reads one table and nothing else, all the rows it reads otherwise.   *)
Result(q, db) ==
    [t \in q.reads |->
        IF q.tables = {t} /\ ~q.wide
        THEN db[t] \cap q.keep
        ELSE db[t]]

(* The queries README.md's caching model is meant for: no table is missed, *)
(* and if the conjuncts are those of a single table, they restrict every   *)
(* row that is read, and literals are written as pgoutput writes the       *)
(* value.                                                                  *)
Faithful(q) ==
    /\ q.reads \subseteq q.tables
    /\ \A i \in DOMAIN q.eq, t \in q.tables :
          q.tables = {t} => ~q.wide /\ q.eq[i].text = Text[q.eq[i].val]

(* Every variable has the shape of the code's state; the index never       *)
(* holds an LSN the feed has not delivered.                                *)
TypeOK ==
    /\ hist \in Seq(Db) /\ work \in Db
    /\ Len(hist) = Len(txns) + 1
    /\ txns \in Seq(SUBSET Change) /\ open \subseteq Change
    /\ changes \in Nat
    /\ advanced \in 0 .. Len(txns)
    /\ tables \in [Tables -> 0 .. advanced]
    /\ values \in [Stamps -> 0 .. advanced]
    /\ structural \in [Tables -> 0 .. advanced]

PinsResult(q) ==
    \A n \in (VersionOf(q) + 1) .. advanced : Result(q, hist[n]) = Result(q, hist[n + 1])

(* version_of is sound: no commit the feed delivered after the version of  *)
(* a faithful query changed its result, so one cursor is one result        *)
(* whatever mix of inserts, key-changing updates, deletes and truncations, *)
(* anchored or table-level, led to it.                                     *)
VersionPinsResult == \A q \in Queries : Faithful(q) => PinsResult(q)

(* README.md:569, "A relevant upstream write produces a new cursor", for   *)
(* every query the classifier accepts.                                     *)
EveryWriteMovesCursor == \A q \in Queries : PinsResult(q)

(* A commit q's cursor is entitled to move for: one that writes a table of *)
(* q, and for an anchored query one that truncates the table or whose old  *)
(* or new row carries the anchored value.                                  *)
Relevant(q, n) ==
    \E c \in txns[n] :
        /\ c.table \in q.tables
        /\ \/ Anchors(q) = {}
           \/ c.op = "truncate"
           \/ \E p \in c.key \cup c.row :
                p[1] = Anchor(q).col /\ p[2] # Null /\ Text[p[2]] = Anchor(q).text

(* README.md:567, "The same SQL returns the same snapshot cursor while     *)
(* relevant data is unchanged": a cursor's version is 0 or a relevant      *)
(* commit, so writes to other rows and other tables leave it alone.        *)
VersionIsRelevant ==
    \A q \in Queries : VersionOf(q) = 0 \/ Relevant(q, VersionOf(q))

-----------------------------------------------------------------------------
(* The index implements the abstract contract: a commit is what it does to *)
(* the queries' results, and every advance moves the cursors it must.      *)
FaithfulQueries == {q \in Queries : Faithful(q)}

Changed(n) == {q \in FaithfulQueries : Result(q, hist[n]) # Result(q, hist[n + 1])}

Contract == INSTANCE CursorVersions WITH
    Queries <- FaithfulQueries,
    log <- [n \in 1 .. Len(txns) |-> Changed(n)],
    version <- [q \in FaithfulQueries |-> VersionOf(q)]

(* Every step of the feed and of the index is a step of CursorVersions, or *)
(* leaves it alone: a feed that writes, commits and truncates in any order *)
(* never makes advance skip a cursor it had to move or move one backwards. *)
ImplementsContract == Contract!CursorSpec

=============================================================================
