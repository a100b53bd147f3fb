------------------------ MODULE TanstackClient_proofs ------------------------
(***************************************************************************)
(* The sync engine of packages/tanstack-db, for results of any finite size *)
(* and any number of transactions, connections, resets and refusals.       *)
(***************************************************************************)
EXTENDS TanstackClient, FiniteSetTheorems, TLAPS

(* Why the rows are whole.  The types of what is sent and kept. *)
Results == {res \in UNION {[K -> Vals] : K \in SUBSET Keys} : IsFiniteSet(DOMAIN res)}

Frames ==
    [kind : {"snapshot"}, rows : Results, at : Nat]
    \cup [kind : {"change"}, op : {"insert", "update", "delete"}, row : Keys \X Vals, txid : Nat]
    \cup [kind : {"up-to-date"}, txid : Nat, res : Results, at : Nat]
    \cup [kind : {"reset"}]

Operations == [type : {"upsert"}, value : Vals] \cup [type : {"delete"}]

WellTyped ==
    /\ TypeOK
    /\ hist \in Seq(Results) /\ hist # <<>>
    /\ last \in Results \cup {Unsubscribed} /\ wire \in Seq(Frames)
    /\ pending \in UNION {[K -> Operations] : K \in SUBSET Keys}
    /\ shown \in [res : Results, at : Nat]
    /\ txids \in Seq(Nat) /\ status \in Seq({"ours", "other", "awaiting", "confirmed", "rejected"})

Boundary(f) == f.kind \in {"snapshot", "up-to-date"}

Base(f) == IF f.kind = "snapshot" THEN f.rows ELSE f.res

(* A connection begins with its snapshot, until which the collection is    *)
(* what it was left as, and what is left of it ends in the result the      *)
(* subscription holds.                                                     *)
Connected ==
    /\ pc # "open" => last = Unsubscribed /\ wire = <<>>
    /\ ~loaded => pending = Empty /\ coll = left /\ (pc = "open" => wire # <<>>)
    /\ \A i \in DOMAIN wire : wire[i].kind = "snapshot" <=> i = 1 /\ ~loaded
    /\ last # Unsubscribed =>
          IF wire = <<>> THEN pending = Empty /\ shown.res = last
          ELSE Boundary(wire[Len(wire)]) /\ Base(wire[Len(wire)]) = last

(* With the operations `ops` already read, the changes lead from prev to   *)
(* next.                                                                   *)
Leads(prev, ops, changes, next) ==
    /\ \A k \in DOMAIN ops :
          IF ops[k].type = "upsert" THEN k \in DOMAIN next /\ next[k] = ops[k].value
          ELSE k \in DOMAIN prev \ DOMAIN next
    /\ \A f \in changes :
          IF f.op # "delete" THEN f.row \in Rows(next) ELSE f.row \in Rows(prev) \ Rows(next)
    /\ \A k \in DOMAIN next : (k \in DOMAIN prev => prev[k] # next[k]) =>
          \/ k \in DOMAIN ops /\ ops[k].type = "upsert"
          \/ \E f \in changes : f.op # "delete" /\ f.row = <<k, next[k]>>
    /\ \A k \in DOMAIN prev \ DOMAIN next :
          \/ k \in DOMAIN ops
          \/ \E f \in changes : f.op = "delete" /\ f.row = <<k, prev[k]>>

(* The frames of a stream from after position i to a boundary at j. *)
Batch(w, i, j) ==
    /\ w[j].kind = "up-to-date"
    /\ i # 0 => Boundary(w[i])
    /\ \A m \in i + 1 .. j - 1 : w[m].kind = "change"

Changes(w, i, j) == {w[m] : m \in i + 1 .. j - 1}

(* Every batch leads from the boundary before it, or from what is shown    *)
(* and half read, to its own result.                                       *)
StreamLeads(w, res, ops) ==
    \A j \in DOMAIN w : \A i \in 0 .. j - 1 : Batch(w, i, j) =>
        Leads(IF i = 0 THEN res ELSE Base(w[i]), IF i = 0 THEN ops ELSE Empty,
              Changes(w, i, j), w[j].res)

(* In a batch the deletes come last. *)
DeletesLast(w) ==
    \A j \in DOMAIN w : \A i \in 1 .. j - 1 :
        /\ w[i].kind = "change" /\ w[i].op = "delete"
        /\ w[j].kind = "change" /\ w[j].op # "delete"
        => \E m \in i + 1 .. j - 1 : w[m].kind # "change"

(* Why a confirmed write is there.  What the tracker has recorded was      *)
(* handled, and every boundary that is still to come includes it.          *)
Recorded ==
    {n \in 1 .. handled : \/ \E i \in DOMAIN txids : txids[i] = n
                          \/ n \in DOMAIN status /\ status[n] = "confirmed"}

RecordedIsDue ==
    /\ \A i \in DOMAIN txids : txids[i] \in 1 .. handled
    /\ \A n \in DOMAIN status : status[n] = "confirmed" => n <= handled
    /\ \A n \in Recorded : \A j \in DOMAIN wire : Boundary(wire[j]) => wire[j].at >= n
    /\ loaded /\ pending = Empty => \A n \in Recorded : shown.at >= n

FramesInOrder ==
    \A i \in DOMAIN wire : wire[i].kind \in {"change", "up-to-date"} =>
        /\ wire[i].txid \in 1 .. handled
        /\ \A j \in i .. Len(wire) : Boundary(wire[j]) => wire[j].at >= wire[i].txid

ClientInv ==
    /\ WellTyped /\ Connected /\ WholeResults
    /\ StreamLeads(wire, shown.res, pending) /\ DeletesLast(wire)
    /\ RecordedIsDue /\ FramesInOrder

-----------------------------------------------------------------------------
(* What the server sends.  Keyed by primary key or by content, the upserts *)
(* of a diff are the rows that are new, and its deletes are rows that are  *)
(* gone, among them every row whose key is gone.                           *)
UpKeys(P, N) == {k \in DOMAIN N : k \in DOMAIN P => P[k] # N[k]}

LEMMA KeyedUpserts ==
  ASSUME NEW prev, NEW next, NEW row
  PROVE  (\E k \in UpKeys(KeyedMap(prev), KeyedMap(next)) : KeyedMap(next)[k] = row)
            <=> row \in Rows(next) \ Rows(prev)
<1>1. CASE HashKeyed
  BY <1>1 DEF UpKeys, KeyedMap
<1>2. CASE ~HashKeyed
  <2>1. DOMAIN KeyedMap(next) = DOMAIN next /\ DOMAIN KeyedMap(prev) = DOMAIN prev
    BY <1>2 DEF KeyedMap
  <2>2. /\ \A k \in DOMAIN next : KeyedMap(next)[k] = <<k, next[k]>>
        /\ \A k \in DOMAIN prev : KeyedMap(prev)[k] = <<k, prev[k]>>
    BY <1>2 DEF KeyedMap
  <2>3. ASSUME NEW k \in DOMAIN next, k \in DOMAIN prev => KeyedMap(prev)[k] # KeyedMap(next)[k], row = <<k, next[k]>>
        PROVE  row \in Rows(next) \ Rows(prev)
    BY <2>2, <2>3 DEF Rows
  <2>4. ASSUME row \in Rows(next) \ Rows(prev)
        PROVE  \E k \in DOMAIN next : (k \in DOMAIN prev => KeyedMap(prev)[k] # KeyedMap(next)[k]) /\ row = <<k, next[k]>>
    BY <2>2, <2>4 DEF Rows
  <2> QED
    BY <2>1, <2>2, <2>3, <2>4 DEF UpKeys
<1> QED
  BY <1>1, <1>2

LEMMA KeyedDeletes ==
  ASSUME NEW prev, NEW next
  PROVE  /\ \A k \in DOMAIN KeyedMap(prev) \ DOMAIN KeyedMap(next) :
               KeyedMap(prev)[k] \in Rows(prev) \ Rows(next)
         /\ \A k \in DOMAIN prev \ DOMAIN next :
               \E m \in DOMAIN KeyedMap(prev) \ DOMAIN KeyedMap(next) : KeyedMap(prev)[m] = <<k, prev[k]>>
<1>0. \A k \in DOMAIN prev \ DOMAIN next : <<k, prev[k]>> \in Rows(prev) \ Rows(next)
  BY DEF Rows
<1>1. CASE HashKeyed
  BY <1>0, <1>1 DEF KeyedMap
<1>2. CASE ~HashKeyed
  <2>1. DOMAIN KeyedMap(next) = DOMAIN next /\ DOMAIN KeyedMap(prev) = DOMAIN prev
    BY <1>2 DEF KeyedMap
  <2>2. \A k \in DOMAIN prev : KeyedMap(prev)[k] = <<k, prev[k]>>
    BY <1>2 DEF KeyedMap
  <2> QED
    BY <1>0, <2>1, <2>2
<1> QED
  BY <1>1, <1>2

(* The frames of a diff. *)
UpFrame(P, N, k, n) ==
    [kind |-> "change", op |-> IF k \in DOMAIN P THEN "update" ELSE "insert", row |-> N[k], txid |-> n]

UpFrames(P, N, n) == {Change(d, n) : d \in Upserts(Diff(P, N))}

DelFrames(P, N, n) == {Change(d, n) : d \in Deletes(Diff(P, N))}

DelFrame(P, k, n) == [kind |-> "change", op |-> "delete", row |-> P[k], txid |-> n]

LEMMA FramesOfDiff ==
  ASSUME NEW P, NEW N, NEW n
  PROVE  /\ UpFrames(P, N, n) = {UpFrame(P, N, k, n) : k \in UpKeys(P, N)}
         /\ DelFrames(P, N, n) = {DelFrame(P, k, n) : k \in DOMAIN P \ DOMAIN N}
<1> DEFINE Up(k) == [op |-> IF k \in DOMAIN P THEN "update" ELSE "insert", key |-> k, row |-> N[k]]
           Del(k) == [op |-> "delete", key |-> k, row |-> P[k]]
<1>1. \A d \in Upserts(Diff(P, N)) : \E k \in UpKeys(P, N) : d = Up(k)
  BY DEF Upserts, Diff, UpKeys
<1>2. \A k \in UpKeys(P, N) : Up(k) \in Upserts(Diff(P, N))
  BY DEF Upserts, Diff, UpKeys
<1>3. (\A d \in Deletes(Diff(P, N)) : \E k \in DOMAIN P \ DOMAIN N : d = Del(k))
      /\ \A k \in DOMAIN P \ DOMAIN N : Del(k) \in Deletes(Diff(P, N))
  BY DEF Deletes, Diff
<1>4. \A k : Change(Up(k), n) = UpFrame(P, N, k, n) /\ Change(Del(k), n) = DelFrame(P, k, n)
  BY DEF Change, UpFrame, DelFrame
<1> HIDE DEF Up, Del
<1> QED
  BY <1>1, <1>2, <1>3, <1>4 DEF UpFrames, DelFrames

LEMMA FiniteImage ==
  ASSUME NEW S, IsFiniteSet(S), NEW T, NEW f \in [S -> T], \A t \in T : \E x \in S : f[x] = t
  PROVE  IsFiniteSet(T)
<1>1. f \in Surjection(S, T)
  BY DEF Surjection
<1> QED
  BY <1>1, FS_Surjection

LEMMA KeyedIsFinite ==
  ASSUME NEW res, IsFiniteSet(DOMAIN res)
  PROVE  IsFiniteSet(DOMAIN KeyedMap(res))
<1> DEFINE f == [k \in DOMAIN res |-> <<k, res[k]>>]
<1>1. f \in [DOMAIN res -> Rows(res)] /\ \A r \in Rows(res) : \E k \in DOMAIN res : f[k] = r
  BY DEF Rows
<1>2. IsFiniteSet(Rows(res))
  BY <1>1, FiniteImage
<1> QED
  BY <1>2 DEF KeyedMap

LEMMA FramesAreFinite ==
  ASSUME NEW P, NEW N, NEW n, IsFiniteSet(DOMAIN P), IsFiniteSet(DOMAIN N)
  PROVE  IsFiniteSet(UpFrames(P, N, n)) /\ IsFiniteSet(DelFrames(P, N, n))
<1> DEFINE U == UpFrames(P, N, n)
           D == DelFrames(P, N, n)
           u == [k \in UpKeys(P, N) |-> UpFrame(P, N, k, n)]
           x == [k \in DOMAIN P \ DOMAIN N |-> DelFrame(P, k, n)]
<1>1. IsFiniteSet(UpKeys(P, N)) /\ IsFiniteSet(DOMAIN P \ DOMAIN N)
  <2>1. UpKeys(P, N) \in SUBSET DOMAIN N /\ DOMAIN P \ DOMAIN N \in SUBSET DOMAIN P
    BY DEF UpKeys
  <2> QED
    BY <2>1, FS_Subset
<1>2. U = {UpFrame(P, N, k, n) : k \in UpKeys(P, N)} /\ D = {DelFrame(P, k, n) : k \in DOMAIN P \ DOMAIN N}
  BY FramesOfDiff
<1> HIDE DEF U, D
<1>3. u \in [UpKeys(P, N) -> U] /\ \A f \in U : \E k \in UpKeys(P, N) : u[k] = f
  BY <1>2
<1>4. x \in [DOMAIN P \ DOMAIN N -> D] /\ \A f \in D : \E k \in DOMAIN P \ DOMAIN N : x[k] = f
  BY <1>2
<1> HIDE DEF u, x
<1>5. IsFiniteSet(U) /\ IsFiniteSet(D)
  BY <1>1, <1>3, <1>4, FiniteImage
<1> QED
  BY <1>5 DEF U, D

(* SetToSeq lists a finite set. *)
LEMMA Listed ==
  ASSUME NEW S, IsFiniteSet(S)
  PROVE  /\ SetToSeq(S) \in Seq(S) /\ Len(SetToSeq(S)) \in Nat
         /\ \A x \in S : \E i \in 1 .. Len(SetToSeq(S)) : SetToSeq(S)[i] = x
<1> DEFINE n == Cardinality(S)
<1>1. n \in Nat /\ ExistsBijection(1 .. n, S)
  BY FS_CardinalityType
<1>2. PICK g \in Bijection(1 .. n, S) : TRUE
  BY <1>1 DEF ExistsBijection
<1>3. g \in [1 .. n -> S] /\ IsInjective(g)
  BY <1>2 DEF Bijection, Injection, IsInjective
<1>4. SetToSeq(S) \in [1 .. n -> S] /\ IsInjective(SetToSeq(S))
  BY <1>3 DEF SetToSeq
<1>5. SetToSeq(S) \in Injection(1 .. n, S)
  BY <1>4 DEF Injection, IsInjective
<1>6. IsFiniteSet(1 .. n) /\ Cardinality(1 .. n) = n
  <2>1. 1 \in Int /\ n \in Int
    BY <1>1
  <2>2. IsFiniteSet(1 .. n) /\ Cardinality(1 .. n) = IF 1 > n THEN 0 ELSE n - 1 + 1
    BY <2>1, FS_Interval
  <2> QED
    BY <1>1, <2>2
<1>7. SetToSeq(S) \in Surjection(1 .. n, S)
  BY <1>5, <1>6, FS_Injection
<1>8. \A x \in S : \E i \in 1 .. n : SetToSeq(S)[i] = x
  BY <1>7 DEF Surjection
<1> HIDE DEF n
<1>9. SetToSeq(S) \in Seq(S) /\ Len(SetToSeq(S)) = n
  BY <1>1, <1>4
<1> QED
  BY <1>1, <1>8, <1>9

LEMMA TwoParts ==
  ASSUME NEW S, NEW u \in Seq(S), NEW d \in Seq(S)
  PROVE  /\ u \o d \in Seq(S) /\ Len(u \o d) = Len(u) + Len(d) /\ Len(u) \in Nat /\ Len(d) \in Nat
         /\ \A i \in 1 .. Len(u) : (u \o d)[i] = u[i]
         /\ \A i \in 1 .. Len(d) : (u \o d)[Len(u) + i] = d[i]
OBVIOUS

LEMMA OneMore ==
  ASSUME NEW S, NEW b \in Seq(S), NEW e \in S
  PROVE  /\ b \o <<e>> \in Seq(S) /\ Len(b \o <<e>>) = Len(b) + 1 /\ (b \o <<e>>)[Len(b) + 1] = e
         /\ \A i \in 1 .. Len(b) : (b \o <<e>>)[i] = b[i]
<1>1. <<e>> \in Seq(S) /\ Len(<<e>>) = 1 /\ <<e>>[1] = e /\ 1 \in 1 .. 1
  OBVIOUS
<1> QED
  BY <1>1, TwoParts

LEMMA ThreeParts ==
  ASSUME NEW S, NEW u \in Seq(S), NEW d \in Seq(S), NEW e \in S
  PROVE  /\ u \o d \o <<e>> \in Seq(S) /\ Len(u) \in Nat /\ Len(d) \in Nat
         /\ Len(u \o d \o <<e>>) = Len(u) + Len(d) + 1
         /\ \A i \in 1 .. Len(u) : (u \o d \o <<e>>)[i] = u[i]
         /\ \A i \in 1 .. Len(d) : (u \o d \o <<e>>)[Len(u) + i] = d[i]
         /\ (u \o d \o <<e>>)[Len(u) + Len(d) + 1] = e
<1> DEFINE b == u \o d
<1>1. /\ b \in Seq(S) /\ Len(b) = Len(u) + Len(d) /\ Len(u) \in Nat /\ Len(d) \in Nat
      /\ (\A i \in 1 .. Len(u) : b[i] = u[i]) /\ \A i \in 1 .. Len(d) : b[Len(u) + i] = d[i]
  OBVIOUS
<1> HIDE DEF b
<1>2. /\ b \o <<e>> \in Seq(S) /\ Len(b \o <<e>>) = Len(b) + 1 /\ (b \o <<e>>)[Len(b) + 1] = e
      /\ \A i \in 1 .. Len(b) : (b \o <<e>>)[i] = b[i]
  <2>1. b \in Seq(S)
    BY <1>1
  <2> QED
    BY <2>1, OneMore
<1>3. (\A i \in 1 .. Len(u) : i \in 1 .. Len(b)) /\ \A i \in 1 .. Len(d) : Len(u) + i \in 1 .. Len(b)
  BY <1>1
<1>4. /\ \A i \in 1 .. Len(u) : (b \o <<e>>)[i] = u[i]
      /\ \A i \in 1 .. Len(d) : (b \o <<e>>)[Len(u) + i] = d[i]
  BY <1>1, <1>2, <1>3
<1> QED
  BY <1>1, <1>2, <1>4 DEF b

(* A cycle: the upserts, the deletes, and the boundary. *)
LEMMA CycleShape ==
  ASSUME NEW P, NEW N, NEW n, IsFiniteSet(DOMAIN P), IsFiniteSet(DOMAIN N),
         UpFrames(P, N, n) \cup DelFrames(P, N, n) \subseteq Frames,
         NEW c, c = Cycle(Diff(P, N), n), NEW e, e = [kind |-> "up-to-date", txid |-> n, res |-> Now, at |-> Latest],
         e \in Frames
  PROVE  /\ c \in Seq(Frames) /\ Len(c) \in Nat \ {0} /\ c[Len(c)] = e
         /\ \A i \in 1 .. Len(c) - 1 : c[i] \in UpFrames(P, N, n) \cup DelFrames(P, N, n)
         /\ \A f \in UpFrames(P, N, n) \cup DelFrames(P, N, n) : \E i \in 1 .. Len(c) - 1 : c[i] = f
         /\ \A j \in 1 .. Len(c) - 1 : \A i \in 1 .. j - 1 :
               c[j] \notin DelFrames(P, N, n) => c[i] \in UpFrames(P, N, n)
<1> DEFINE U == UpFrames(P, N, n)
           D == DelFrames(P, N, n)
           u == SetToSeq(U)
           d == SetToSeq(D)
<1>1. IsFiniteSet(U) /\ IsFiniteSet(D)
  BY FramesAreFinite
<1>2. /\ u \in Seq(U) /\ \A x \in U : \E i \in 1 .. Len(u) : u[i] = x
      /\ d \in Seq(D) /\ \A x \in D : \E i \in 1 .. Len(d) : d[i] = x
  BY <1>1, Listed
<1>3. c = u \o d \o <<e>>
  BY DEF Cycle, UpFrames, DelFrames
<1> HIDE DEF U, D, u, d
<1>4. U \subseteq Frames /\ D \subseteq Frames
  BY DEF U, D
<1>5. u \in Seq(Frames) /\ d \in Seq(Frames) /\ (\A i \in 1 .. Len(u) : u[i] \in U) /\ \A i \in 1 .. Len(d) : d[i] \in D
  BY <1>2, <1>4
<1>6. /\ c \in Seq(Frames) /\ Len(u) \in Nat /\ Len(d) \in Nat
      /\ Len(c) = Len(u) + Len(d) + 1
      /\ \A i \in 1 .. Len(u) : c[i] = u[i]
      /\ \A i \in 1 .. Len(d) : c[Len(u) + i] = d[i]
      /\ c[Len(u) + Len(d) + 1] = e
  BY <1>3, <1>5, ThreeParts
<1>7. ASSUME NEW i \in 1 .. Len(c) - 1
      PROVE  /\ c[i] \in U \cup D
             /\ i <= Len(u) => c[i] \in U
             /\ i > Len(u) => c[i] \in D
  <2>1. CASE i <= Len(u)
    BY <1>5, <1>6, <2>1
  <2>2. CASE i > Len(u)
    <3>1. i - Len(u) \in 1 .. Len(d) /\ Len(u) + (i - Len(u)) = i
      BY <1>6, <2>2
    <3>2. c[i] = d[i - Len(u)]
      BY <1>6, <3>1
    <3> QED
      BY <1>5, <1>6, <2>2, <3>1, <3>2
  <2> QED
    BY <1>6, <2>1, <2>2
<1>8. ASSUME NEW f \in U \cup D PROVE \E i \in 1 .. Len(c) - 1 : c[i] = f
  <2>1. CASE f \in U
    <3>1. PICK i \in 1 .. Len(u) : u[i] = f
      BY <1>2, <2>1
    <3>2. i \in 1 .. Len(c) - 1 /\ c[i] = f
      BY <1>6, <3>1
    <3> QED
      BY <3>2
  <2>2. CASE f \in D
    <3>1. PICK i \in 1 .. Len(d) : d[i] = f
      BY <1>2, <2>2
    <3>2. Len(u) + i \in 1 .. Len(c) - 1 /\ c[Len(u) + i] = f
      BY <1>6, <3>1
    <3> QED
      BY <3>2
  <2> QED
    BY <2>1, <2>2
<1>9. ASSUME NEW j \in 1 .. Len(c) - 1, NEW i \in 1 .. j - 1, c[j] \notin D PROVE c[i] \in U
  <2>1. j <= Len(u)
    BY <1>6, <1>7, <1>9
  <2>2. i \in 1 .. Len(c) - 1 /\ i <= Len(u)
    BY <1>6, <2>1
  <2> QED
    BY <1>7, <2>2
<1> QED
  BY <1>6, <1>7, <1>8, <1>9 DEF U, D

LEMMA RowsFacts ==
  ASSUME NEW res
  PROVE  /\ \A k \in DOMAIN res : <<k, res[k]>> \in Rows(res)
         /\ \A row \in Rows(res) : row[1] \in DOMAIN res /\ row = <<row[1], res[row[1]]>>
         /\ \A k, v : <<k, v>> \in Rows(res) <=> k \in DOMAIN res /\ v = res[k]
BY DEF Rows

(* The frames of a cycle, all together, lead from the old result to the    *)
(* new one.                                                                *)
LEMMA CycleLeads ==
  ASSUME NEW prev \in Results, NEW next \in Results, NEW n,
         NEW changes, changes = UpFrames(KeyedMap(prev), KeyedMap(next), n)
                                  \cup DelFrames(KeyedMap(prev), KeyedMap(next), n)
  PROVE  Leads(prev, Empty, changes, next)
<1> DEFINE P == KeyedMap(prev)
           N == KeyedMap(next)
<1>1. /\ UpFrames(P, N, n) = {UpFrame(P, N, k, n) : k \in UpKeys(P, N)}
      /\ DelFrames(P, N, n) = {DelFrame(P, k, n) : k \in DOMAIN P \ DOMAIN N}
  BY FramesOfDiff
<1>2. \A row : (\E k \in UpKeys(P, N) : N[k] = row) <=> row \in Rows(next) \ Rows(prev)
  BY KeyedUpserts
<1>3. /\ \A k \in DOMAIN P \ DOMAIN N : P[k] \in Rows(prev) \ Rows(next)
      /\ \A k \in DOMAIN prev \ DOMAIN next : \E m \in DOMAIN P \ DOMAIN N : P[m] = <<k, prev[k]>>
  BY KeyedDeletes
<1> HIDE DEF P, N
<1>4. /\ \A k : UpFrame(P, N, k, n).op \in {"insert", "update"} /\ UpFrame(P, N, k, n).row = N[k]
      /\ \A k : DelFrame(P, k, n).op = "delete" /\ DelFrame(P, k, n).row = P[k]
  BY DEF UpFrame, DelFrame
<1>5. changes = {UpFrame(P, N, k, n) : k \in UpKeys(P, N)} \cup {DelFrame(P, k, n) : k \in DOMAIN P \ DOMAIN N}
  BY <1>1 DEF P, N
<1>6. DOMAIN Empty = {}
  BY DEF Empty
<1>7. ASSUME NEW f \in changes
      PROVE  IF f.op # "delete" THEN f.row \in Rows(next) ELSE f.row \in Rows(prev) \ Rows(next)
  BY <1>2, <1>3, <1>4, <1>5
<1>8. ASSUME NEW k \in DOMAIN next, k \in DOMAIN prev => prev[k] # next[k]
      PROVE  \E f \in changes : f.op # "delete" /\ f.row = <<k, next[k]>>
  <2>1. <<k, next[k]>> \in Rows(next) \ Rows(prev)
    BY <1>8, RowsFacts
  <2>2. PICK m \in UpKeys(P, N) : N[m] = <<k, next[k]>>
    BY <1>2, <2>1
  <2>3. UpFrame(P, N, m, n) \in changes
    BY <1>5, <2>2
  <2> QED
    BY <1>4, <2>2, <2>3
<1>9. ASSUME NEW k \in DOMAIN prev \ DOMAIN next
      PROVE  \E f \in changes : f.op = "delete" /\ f.row = <<k, prev[k]>>
  BY <1>3, <1>4, <1>5
<1> QED
  BY <1>6, <1>7, <1>8, <1>9 DEF Leads

-----------------------------------------------------------------------------
(* What the engine reads.  An upsert joins the batch. *)
LEMMA ReadUpsert ==
  ASSUME NEW prev, NEW ops, NEW f, NEW rest, NEW next, Leads(prev, ops, {f} \cup rest, next), f.op # "delete"
  PROVE  Leads(prev, Put(ops, f.row[1], [type |-> "upsert", value |-> f.row[2]]), rest, next)
<1> DEFINE k0 == f.row[1]
           up == [type |-> "upsert", value |-> f.row[2]]
           after == Put(ops, k0, up)
<1>1. k0 \in DOMAIN next /\ f.row = <<k0, next[k0]>> /\ f.row[2] = next[k0]
  <2>1. f.row \in Rows(next)
    BY DEF Leads
  <2>2. f.row[1] \in DOMAIN next /\ f.row = <<f.row[1], next[f.row[1]]>>
    BY <2>1, RowsFacts
  <2> QED
    BY <2>2
<1>2. up.type = "upsert" /\ up.value = next[k0]
  BY <1>1
<1> HIDE DEF up, k0
<1>3. /\ DOMAIN after = DOMAIN ops \cup {k0} /\ after[k0] = up
      /\ \A k \in DOMAIN ops : k # k0 => after[k] = ops[k]
  BY DEF Put
<1> HIDE DEF after
<1>4. ASSUME NEW k \in DOMAIN after
      PROVE  IF after[k].type = "upsert" THEN k \in DOMAIN next /\ next[k] = after[k].value
             ELSE k \in DOMAIN prev \ DOMAIN next
  <2>1. CASE k = k0
    BY <1>1, <1>2, <1>3, <2>1
  <2>2. CASE k # k0
    BY <1>3, <2>2 DEF Leads
  <2> QED
    BY <2>1, <2>2
<1>5. \A g \in rest : IF g.op # "delete" THEN g.row \in Rows(next) ELSE g.row \in Rows(prev) \ Rows(next)
  BY DEF Leads
<1>6. ASSUME NEW k \in DOMAIN next, k \in DOMAIN prev => prev[k] # next[k]
      PROVE  \/ k \in DOMAIN after /\ after[k].type = "upsert"
             \/ \E g \in rest : g.op # "delete" /\ g.row = <<k, next[k]>>
  <2>1. \/ k \in DOMAIN ops /\ ops[k].type = "upsert"
        \/ \E g \in {f} \cup rest : g.op # "delete" /\ g.row = <<k, next[k]>>
    BY <1>6 DEF Leads
  <2>2. CASE k = k0
    BY <1>2, <1>3, <2>2
  <2>3. CASE k # k0
    <3>1. f.row # <<k, next[k]>>
      BY <1>1, <2>3
    <3> QED
      BY <1>3, <2>1, <2>3, <3>1
  <2> QED
    BY <2>2, <2>3
<1>7. ASSUME NEW k \in DOMAIN prev \ DOMAIN next
      PROVE  \/ k \in DOMAIN after
             \/ \E g \in rest : g.op = "delete" /\ g.row = <<k, prev[k]>>
  BY <1>3 DEF Leads
<1>8. Leads(prev, after, rest, next)
  BY <1>4, <1>5, <1>6, <1>7 DEF Leads
<1> QED
  BY <1>8 DEF after, up, k0

(* A delete joins it when only deletes follow, unless its row was written. *)
LEMMA ReadDelete ==
  ASSUME NEW prev, NEW ops, NEW f, NEW rest, NEW next, Leads(prev, ops, {f} \cup rest, next), f.op = "delete",
         \A g \in rest : g.op = "delete"
  PROVE  /\ f.row[1] \in DOMAIN ops /\ ops[f.row[1]].type = "upsert" => Leads(prev, ops, rest, next)
         /\ ~(f.row[1] \in DOMAIN ops /\ ops[f.row[1]].type = "upsert") =>
               Leads(prev, Put(ops, f.row[1], [type |-> "delete"]), rest, next)
<1> DEFINE k0 == f.row[1]
           del == [type |-> "delete"]
           after == Put(ops, k0, del)
<1>1. k0 \in DOMAIN prev /\ f.row = <<k0, prev[k0]>> /\ (k0 \in DOMAIN next => prev[k0] # next[k0])
  <2>1. f.row \in Rows(prev) \ Rows(next)
    BY DEF Leads
  <2>2. f.row[1] \in DOMAIN prev /\ f.row = <<f.row[1], prev[f.row[1]]>>
    BY <2>1, RowsFacts
  <2> QED
    BY <2>1, <2>2, RowsFacts
<1>2. k0 \in DOMAIN next => k0 \in DOMAIN ops /\ ops[k0].type = "upsert"
  BY <1>1 DEF Leads
<1> HIDE DEF k0
<1>3. \A g \in rest : IF g.op # "delete" THEN g.row \in Rows(next) ELSE g.row \in Rows(prev) \ Rows(next)
  BY DEF Leads
<1>4. \A k \in DOMAIN next : (k \in DOMAIN prev => prev[k] # next[k]) => k \in DOMAIN ops /\ ops[k].type = "upsert"
  BY DEF Leads
<1>5. \A k \in DOMAIN prev \ DOMAIN next :
        k \in DOMAIN ops \/ k = k0 \/ \E g \in rest : g.op = "delete" /\ g.row = <<k, prev[k]>>
  <2> SUFFICES ASSUME NEW k \in DOMAIN prev \ DOMAIN next, k # k0
               PROVE  k \in DOMAIN ops \/ \E g \in rest : g.op = "delete" /\ g.row = <<k, prev[k]>>
    OBVIOUS
  <2>1. f.row # <<k, prev[k]>>
    BY <1>1
  <2> QED
    BY <2>1 DEF Leads
<1>6. ASSUME k0 \in DOMAIN ops PROVE Leads(prev, ops, rest, next)
  <2>1. \A k \in DOMAIN ops : IF ops[k].type = "upsert" THEN k \in DOMAIN next /\ next[k] = ops[k].value
                               ELSE k \in DOMAIN prev \ DOMAIN next
    BY DEF Leads
  <2>2. \A k \in DOMAIN prev \ DOMAIN next :
          k \in DOMAIN ops \/ \E g \in rest : g.op = "delete" /\ g.row = <<k, prev[k]>>
    BY <1>5, <1>6
  <2> QED
    BY <1>3, <1>4, <2>1, <2>2 DEF Leads
<1>7. ASSUME ~(k0 \in DOMAIN ops /\ ops[k0].type = "upsert") PROVE Leads(prev, after, rest, next)
  <2>1. /\ DOMAIN after = DOMAIN ops \cup {k0} /\ after[k0] = del /\ del.type = "delete"
        /\ \A k \in DOMAIN ops : k # k0 => after[k] = ops[k]
    BY DEF Put
  <2> HIDE DEF after, del
  <2>2. ASSUME NEW k \in DOMAIN after
        PROVE  IF after[k].type = "upsert" THEN k \in DOMAIN next /\ next[k] = after[k].value
               ELSE k \in DOMAIN prev \ DOMAIN next
    <3>1. CASE k = k0
      BY <1>1, <1>2, <1>7, <2>1, <3>1
    <3>2. CASE k # k0
      BY <2>1, <3>2 DEF Leads
    <3> QED
      BY <3>1, <3>2
  <2>3. \A k \in DOMAIN next : (k \in DOMAIN prev => prev[k] # next[k]) => k \in DOMAIN after /\ after[k].type = "upsert"
    BY <1>4, <1>7, <2>1
  <2>4. \A k \in DOMAIN prev \ DOMAIN next :
          k \in DOMAIN after \/ \E g \in rest : g.op = "delete" /\ g.row = <<k, prev[k]>>
    BY <1>5, <2>1
  <2> QED
    BY <1>3, <2>2, <2>3, <2>4 DEF Leads
<1> QED
  BY <1>6, <1>7 DEF k0

(* Flushed, a whole batch turns the rows of the connection into the next   *)
(* result, whatever else the collection holds.                             *)
UpsOf(ops) == {k \in DOMAIN ops : ops[k].type = "upsert"}

DelsOf(ops, on) == {k \in DOMAIN ops \cap on : ops[k].type = "delete"}

Flushed(rows, ops, on) ==
    [k \in (DOMAIN rows \cup UpsOf(ops)) \ DelsOf(ops, on) |-> IF k \in UpsOf(ops) THEN ops[k].value ELSE rows[k]]

Shows(rows, res) == DOMAIN res \subseteq DOMAIN rows /\ \A k \in DOMAIN res : rows[k] = res[k]

Sorted(ops) == \A k \in DOMAIN ops : ops[k].type \in {"upsert", "delete"}

LEMMA FlushLeads ==
  ASSUME NEW prev, NEW next, NEW ops, NEW rows, Leads(prev, ops, {}, next), Shows(rows, prev), Sorted(ops)
  PROVE  /\ (DOMAIN prev \cup UpsOf(ops)) \ DelsOf(ops, DOMAIN prev) = DOMAIN next
         /\ Shows(Flushed(rows, ops, DOMAIN prev), next)
<1> DEFINE ups == UpsOf(ops)
           dels == DelsOf(ops, DOMAIN prev)
           after == Flushed(rows, ops, DOMAIN prev)
<1>0. /\ ups = {k \in DOMAIN ops : ops[k].type = "upsert"}
      /\ dels = {k \in DOMAIN ops \cap DOMAIN prev : ops[k].type = "delete"}
      /\ after = [k \in (DOMAIN rows \cup ups) \ dels |-> IF k \in ups THEN ops[k].value ELSE rows[k]]
  BY DEF UpsOf, DelsOf, Flushed
<1> HIDE DEF ups, dels, after
<1>1. dels = DOMAIN prev \ DOMAIN next
  BY <1>0 DEF Leads, Sorted
<1>2. ups \subseteq DOMAIN next /\ \A k \in ups : next[k] = ops[k].value
  BY <1>0 DEF Leads, Sorted
<1>3. \A k \in DOMAIN next : k \in ups \/ (k \in DOMAIN prev /\ prev[k] = next[k])
  BY <1>0 DEF Leads, Sorted
<1>4. (DOMAIN prev \cup ups) \ dels = DOMAIN next
  BY <1>1, <1>2, <1>3
<1>5. \A k \in DOMAIN next : k \in DOMAIN after /\ after[k] = next[k]
  BY <1>0, <1>1, <1>2, <1>3 DEF Shows
<1> QED
  BY <1>4, <1>5 DEF ups, dels, after, Shows

-----------------------------------------------------------------------------
LEMMA FrameTyped ==
  ASSUME NEW f \in Frames
  PROVE  /\ f.kind \in {"snapshot", "change", "up-to-date", "reset"}
         /\ f.kind = "snapshot" => f.rows \in Results /\ f.at \in Nat
         /\ f.kind = "change" => f.op \in {"insert", "update", "delete"} /\ f.row \in Keys \X Vals /\ f.txid \in Nat
         /\ f.kind = "up-to-date" => f.txid \in Nat /\ f.res \in Results /\ f.at \in Nat
BY DEF Frames

LEMMA WireTyped ==
  ASSUME WellTyped
  PROVE  /\ Len(wire) \in Nat /\ DOMAIN wire = 1 .. Len(wire) /\ \A i \in DOMAIN wire : wire[i] \in Frames
         /\ handled \in Nat /\ Len(hist) \in Nat /\ Latest \in Nat /\ handled <= Latest
         /\ DOMAIN status = 1 .. Len(status) /\ Len(status) = Latest
         /\ DOMAIN txids = 1 .. Len(txids) /\ Len(txids) \in Nat /\ Now \in Results
<1>1. wire \in Seq(Frames) /\ hist \in Seq(Results) /\ hist # <<>> /\ txids \in Seq(Nat)
  BY DEF WellTyped
<1>2. Len(hist) \in Nat /\ Latest \in Nat /\ Now \in Results
  BY <1>1 DEF Latest, Now
<1>3. handled \in 0 .. Latest /\ Len(status) = Latest
  BY DEF WellTyped, TypeOK
<1>4. status \in Seq({"ours", "other", "awaiting", "confirmed", "rejected"})
  BY DEF WellTyped
<1> QED
  BY <1>1, <1>2, <1>3, <1>4

(* The tracker: a txid that is recorded is the one that was read, and only *)
(* what was recorded is confirmed.                                         *)
LEMMA RecordFacts ==
  ASSUME WellTyped, NEW n \in Nat, Record(n)
  PROVE  /\ txids' \in Seq(Nat) /\ Len(txids') <= MaxSeen
         /\ \A i \in DOMAIN txids' : txids'[i] = n \/ \E j \in DOMAIN txids : txids[j] = txids'[i]
         /\ status' \in Seq({"ours", "other", "awaiting", "confirmed", "rejected"}) /\ Len(status') = Len(status)
         /\ DOMAIN status' = DOMAIN status
         /\ \A m \in DOMAIN status : status'[m] = "confirmed" =>
               status[m] = "confirmed" \/ \E i \in DOMAIN txids' : txids'[i] = m
<1> DEFINE all == IF \E i \in DOMAIN txids : txids[i] = n THEN txids ELSE Append(txids, n)
           kept == IF Len(all) > MaxSeen THEN Tail(all) ELSE all
<1>0. txids \in Seq(Nat) /\ Len(txids) <= MaxSeen /\ Len(txids) \in Nat /\ MaxSeen \in Nat /\ MaxSeen >= 1
  BY BoundsAssumption DEF WellTyped, TypeOK
<1>1. /\ all \in Seq(Nat) /\ Len(all) \in Nat /\ Len(all) <= MaxSeen + 1
      /\ \A i \in DOMAIN all : all[i] = n \/ \E j \in DOMAIN txids : txids[j] = all[i]
  <2>1. CASE \E i \in DOMAIN txids : txids[i] = n
    BY <1>0, <2>1
  <2>2. CASE ~ \E i \in DOMAIN txids : txids[i] = n
    <3>1. all = Append(txids, n)
      BY <2>2
    <3>2. /\ Append(txids, n) \in Seq(Nat) /\ Len(Append(txids, n)) = Len(txids) + 1
          /\ DOMAIN Append(txids, n) = 1 .. Len(txids) + 1 /\ DOMAIN txids = 1 .. Len(txids)
          /\ Append(txids, n)[Len(txids) + 1] = n
          /\ \A i \in 1 .. Len(txids) : Append(txids, n)[i] = txids[i]
      BY <1>0
    <3>3. ASSUME NEW i \in DOMAIN all PROVE all[i] = n \/ \E j \in DOMAIN txids : txids[j] = all[i]
      <4>0. i \in 1 .. Len(txids) + 1
        BY <3>1, <3>2
      <4>1. i \in 1 .. Len(txids) \/ i = Len(txids) + 1
        BY <1>0, <4>0
      <4> QED
        BY <3>1, <3>2, <4>1
    <3>4. Len(all) = Len(txids) + 1 /\ all \in Seq(Nat)
      BY <3>1, <3>2
    <3> QED
      BY <1>0, <3>3, <3>4
  <2> QED
    BY <2>1, <2>2
<1> HIDE DEF all
<1>2. /\ kept \in Seq(Nat) /\ Len(kept) <= MaxSeen
      /\ \A i \in DOMAIN kept : kept[i] = n \/ \E j \in DOMAIN txids : txids[j] = kept[i]
  <2>1. CASE Len(all) > MaxSeen
    <3>1. /\ all # <<>> /\ Tail(all) \in Seq(Nat) /\ Len(Tail(all)) = Len(all) - 1
          /\ \A i \in DOMAIN Tail(all) : i + 1 \in DOMAIN all /\ Tail(all)[i] = all[i + 1]
      BY <1>0, <1>1, <2>1
    <3> QED
      BY <1>0, <1>1, <2>1, <3>1
  <2>2. CASE ~(Len(all) > MaxSeen)
    BY <1>0, <1>1, <2>2
  <2> QED
    BY <2>1, <2>2
<1> HIDE DEF kept
<1>3. /\ txids' = kept
      /\ status' = [i \in DOMAIN status |->
                       IF status[i] = "awaiting" /\ \E j \in DOMAIN kept : kept[j] = i
                       THEN "confirmed" ELSE status[i]]
  BY DEF Record, kept, all
<1>4. DOMAIN status = 1 .. Len(status) /\ Len(status) \in Nat
      /\ \A m \in DOMAIN status : status[m] \in {"ours", "other", "awaiting", "confirmed", "rejected"}
  BY DEF WellTyped
<1>5. /\ DOMAIN status' = DOMAIN status
      /\ \A m \in DOMAIN status : /\ status'[m] \in {"ours", "other", "awaiting", "confirmed", "rejected"}
                                   /\ status'[m] = "confirmed" =>
                                         status[m] = "confirmed" \/ \E i \in DOMAIN kept : kept[i] = m
  BY <1>3, <1>4
<1>6. status' \in Seq({"ours", "other", "awaiting", "confirmed", "rejected"}) /\ Len(status') = Len(status)
  <2>1. status' \in [1 .. Len(status) -> {"ours", "other", "awaiting", "confirmed", "rejected"}]
    BY <1>3, <1>4, <1>5
  <2> QED
    BY <1>4, <2>1
<1> QED
  BY <1>2, <1>3, <1>5, <1>6

LEMMA RecordedGrows ==
  ASSUME WellTyped, RecordedIsDue, NEW n \in 1 .. handled, Record(n), handled' = handled
  PROVE  /\ \A i \in DOMAIN txids' : txids'[i] \in 1 .. handled'
         /\ \A m \in DOMAIN status' : status'[m] = "confirmed" => m <= handled'
         /\ Recorded' \subseteq Recorded \cup {n}
<1>0. handled \in Nat /\ n \in Nat /\ DOMAIN status = 1 .. Len(status)
  BY WireTyped
<1>1. /\ \A i \in DOMAIN txids' : txids'[i] = n \/ \E j \in DOMAIN txids : txids[j] = txids'[i]
      /\ DOMAIN status' = DOMAIN status
      /\ \A m \in DOMAIN status : status'[m] = "confirmed" =>
            status[m] = "confirmed" \/ \E i \in DOMAIN txids' : txids'[i] = m
  BY <1>0, RecordFacts
<1>2. /\ \A i \in DOMAIN txids : txids[i] \in 1 .. handled
      /\ \A m \in DOMAIN status : status[m] = "confirmed" => m <= handled
  BY DEF RecordedIsDue
<1>3. \A i \in DOMAIN txids' : txids'[i] \in 1 .. handled'
  BY <1>1, <1>2
<1>4. \A m \in DOMAIN status' : status'[m] = "confirmed" => m <= handled'
  BY <1>0, <1>1, <1>2, <1>3
<1>5. Recorded' \subseteq Recorded \cup {n}
  BY <1>1 DEF Recorded
<1> QED
  BY <1>3, <1>4, <1>5

-----------------------------------------------------------------------------
LEMMA ClientInitHolds == Init => ClientInv
<1> SUFFICES ASSUME Init PROVE ClientInv
  OBVIOUS
<1>1. Empty \in Results /\ Empty \in UNION {[K -> Operations] : K \in SUBSET Keys}
  <2>1. Empty \in [{} -> Vals] /\ Empty \in [{} -> Operations] /\ DOMAIN Empty = {}
    BY DEF Empty
  <2>2. Empty \in UNION {[K -> Vals] : K \in SUBSET Keys}
    BY <2>1
  <2>3. Empty \in UNION {[K -> Operations] : K \in SUBSET Keys}
    BY <2>1
  <2> QED
    BY <2>1, <2>2, <2>3, FS_EmptySet DEF Results
<1>2. Latest = 0 /\ Len(txids) = 0 /\ Len(status) = 0
  BY DEF Init, Latest
<1>3. TypeOK
  BY <1>2, BoundsAssumption DEF Init, TypeOK, Empty
<1>4. WellTyped
  <2>1. hist \in Seq(Results) /\ hist # <<>>
    BY <1>1 DEF Init
  <2>2. shown \in [res : Results, at : Nat]
    BY <1>1 DEF Init
  <2> QED
    BY <1>1, <1>3, <2>1, <2>2 DEF Init, WellTyped
<1>5. Connected /\ WholeResults /\ StreamLeads(wire, shown.res, pending) /\ DeletesLast(wire) /\ RecordedIsDue /\ FramesInOrder
  BY DEF Init, Connected, WholeResults, StreamLeads, DeletesLast, RecordedIsDue, FramesInOrder
<1> QED
  BY <1>4, <1>5 DEF ClientInv

(* Steps that leave the connection alone: transactions that commit or are  *)
(* handled, a failed request, writes that wait for their txid.             *)
LEMMA AsideKeeps ==
  ASSUME ClientInv, UNCHANGED <<link, pc, loaded, seen, pending, coll, left, shown, txids>>,
         ready => ready', hist' \in Seq(Results), hist' # <<>>, handled' \in Nat,
         handled <= handled', handled' <= Latest', Len(status') = Latest',
         status' \in Seq({"ours", "other", "awaiting", "confirmed", "rejected"}),
         \A m \in DOMAIN status' : status'[m] = "confirmed" =>
             \/ m \in DOMAIN status /\ status[m] = "confirmed"
             \/ \E i \in DOMAIN txids : txids[i] = m
  PROVE  ClientInv'
<1>0. /\ WellTyped /\ Connected /\ WholeResults /\ StreamLeads(wire, shown.res, pending) /\ DeletesLast(wire)
      /\ RecordedIsDue /\ FramesInOrder
      /\ last' = last /\ wire' = wire /\ losses' = losses
  BY DEF ClientInv, link
<1>1. handled \in Nat /\ Len(wire) \in Nat /\ DOMAIN wire = 1 .. Len(wire) /\ \A i \in DOMAIN wire : wire[i] \in Frames
  BY <1>0, WireTyped
<1>2. Latest' \in Nat /\ handled' \in 0 .. Latest'
  BY DEF Latest
<1>3. WellTyped'
  BY <1>0, <1>2 DEF WellTyped, TypeOK
<1>4. Connected' /\ WholeResults' /\ StreamLeads(wire', shown'.res, pending') /\ DeletesLast(wire')
  <2>1. Connected'
    BY <1>0 DEF Connected
  <2>2. WholeResults'
    BY <1>0 DEF WholeResults, Synced
  <2> QED
    BY <1>0, <2>1, <2>2
<1>5. \A i \in DOMAIN txids : txids[i] \in 1 .. handled /\ txids[i] \in 1 .. handled'
  BY <1>0, <1>1 DEF RecordedIsDue
<1>6. \A m \in DOMAIN status' : status'[m] = "confirmed" => m \in 1 .. handled /\ m \in Recorded
  <2>1. DOMAIN status = 1 .. Len(status)
    BY <1>0, WireTyped
  <2> QED
    BY <1>0, <1>1, <1>5, <2>1 DEF RecordedIsDue, Recorded
<1>7. Recorded' \subseteq Recorded
  BY <1>0, <1>5, <1>6 DEF Recorded
<1>8. \A m \in DOMAIN status' : status'[m] = "confirmed" => m <= handled'
  BY <1>1, <1>6
<1>9. RecordedIsDue'
  BY <1>0, <1>5, <1>7, <1>8 DEF RecordedIsDue
<1>10. FramesInOrder'
  BY <1>0, <1>1 DEF FramesInOrder
<1> QED
  BY <1>3, <1>4, <1>9, <1>10 DEF ClientInv

(* Steps that end the connection. *)
LEMMA DisconnectKeeps ==
  ASSUME ClientInv, UNCHANGED server, wire' = <<>>, last' = Unsubscribed, pending' = Empty, loaded' = FALSE,
         pc' \in {"waiting", "stopped"}, losses' \in 0 .. MaxLosses,
         seen' \subseteq Keys, DOMAIN coll' \subseteq Keys, left' = coll', shown' = shown,
         \/ UNCHANGED tracker
         \/ \E n \in 1 .. handled : Record(n)
  PROVE  ClientInv'
<1>0. /\ WellTyped /\ RecordedIsDue /\ hist' = hist /\ handled' = handled /\ Latest' = Latest
  BY DEF ClientInv, server, Latest
<1>1. /\ txids' \in Seq(Nat) /\ Len(txids') <= MaxSeen
      /\ status' \in Seq({"ours", "other", "awaiting", "confirmed", "rejected"}) /\ Len(status') = Len(status)
      /\ \A i \in DOMAIN txids' : txids'[i] \in 1 .. handled'
      /\ \A m \in DOMAIN status' : status'[m] = "confirmed" => m <= handled'
  <2>1. CASE UNCHANGED tracker
    BY <1>0, <2>1 DEF tracker, WellTyped, TypeOK, RecordedIsDue
  <2>2. CASE \E n \in 1 .. handled : Record(n)
    BY <1>0, <2>2, WireTyped, RecordFacts, RecordedGrows
  <2> QED
    BY <2>1, <2>2
<1>2. DOMAIN Empty = {} /\ Empty \in UNION {[K -> Operations] : K \in SUBSET Keys}
  <2>1. Empty \in [{} -> Operations] /\ DOMAIN Empty = {}
    BY DEF Empty
  <2> QED
    BY <2>1
<1>3. TypeOK'
  BY <1>0, <1>1, <1>2 DEF WellTyped, TypeOK
<1>4. WellTyped'
  <2>1. wire' \in Seq(Frames)
    OBVIOUS
  <2> QED
    BY <1>0, <1>1, <1>2, <1>3, <2>1 DEF WellTyped
<1>5. Connected' /\ WholeResults' /\ StreamLeads(wire', shown'.res, pending') /\ DeletesLast(wire') /\ FramesInOrder'
  BY DEF Connected, WholeResults, StreamLeads, DeletesLast, FramesInOrder
<1>6. RecordedIsDue'
  BY <1>1 DEF RecordedIsDue
<1> QED
  BY <1>4, <1>5, <1>6 DEF ClientInv

(* A new connection: its snapshot includes all that was ever recorded. *)
LEMMA ConnectKeeps ==
  ASSUME ClientInv, Connect
  PROVE  ClientInv'
<1> DEFINE f == [kind |-> "snapshot", rows |-> Now, at |-> Latest]
<1>0. /\ WellTyped /\ Connected /\ RecordedIsDue
      /\ UNCHANGED <<hist, handled, losses, loaded, ready, seen, coll, left, shown, txids, status>>
      /\ pc = "waiting" /\ pc' = "open" /\ pending' = Empty /\ last' = Now /\ wire' = <<f>>
      /\ Now' = Now /\ Latest' = Latest
  BY DEF ClientInv, Connect, server, tracker, Now, Latest
<1>1. Now \in Results /\ Latest \in Nat /\ handled \in Nat /\ handled <= Latest
  BY <1>0, WireTyped
<1>2. f \in Frames /\ f.kind = "snapshot" /\ f.rows = Now /\ f.at = Latest
  BY <1>1 DEF Frames
<1> HIDE DEF f
<1>3. wire' \in Seq(Frames) /\ Len(wire') = 1 /\ DOMAIN wire' = 1 .. 1 /\ wire'[1] = f /\ wire' # <<>>
  BY <1>0, <1>2
<1>4. ~loaded
  BY <1>0 DEF WellTyped, TypeOK
<1>5. DOMAIN Empty = {} /\ Empty \in UNION {[K -> Operations] : K \in SUBSET Keys}
  <2>1. Empty \in [{} -> Operations] /\ DOMAIN Empty = {}
    BY DEF Empty
  <2> QED
    BY <2>1
<1>6. WellTyped'
  BY <1>0, <1>1, <1>3, <1>4, <1>5 DEF WellTyped, TypeOK
<1>7. Connected'
  BY <1>0, <1>2, <1>3, <1>4 DEF Connected, Boundary, Base
<1>8. WholeResults' /\ StreamLeads(wire', shown'.res, pending') /\ DeletesLast(wire') /\ FramesInOrder'
  BY <1>0, <1>2, <1>3, <1>4 DEF WholeResults, StreamLeads, Batch, DeletesLast, FramesInOrder
<1>9. RecordedIsDue'
  <2>1. Recorded' = Recorded /\ \A n \in Recorded : n \in Nat /\ n <= handled
    BY <1>0, <1>1 DEF Recorded
  <2>2. \A n \in Recorded : Latest >= n
    BY <1>1, <2>1
  <2> QED
    BY <1>0, <1>2, <1>3, <1>4, <2>1, <2>2 DEF RecordedIsDue
<1> QED
  BY <1>6, <1>7, <1>8, <1>9 DEF ClientInv

-----------------------------------------------------------------------------
(* Reading a frame. *)
LEMMA TailFacts ==
  ASSUME NEW S, NEW w \in Seq(S), w # <<>>
  PROVE  /\ Len(w) \in Nat \ {0} /\ DOMAIN w = 1 .. Len(w) /\ Head(w) = w[1] /\ w[1] \in S
         /\ Tail(w) \in Seq(S) /\ Len(Tail(w)) = Len(w) - 1 /\ DOMAIN Tail(w) = 1 .. Len(w) - 1
         /\ \A i \in 1 .. Len(w) - 1 : Tail(w)[i] = w[i + 1]
OBVIOUS

LEMMA TailLeads ==
  ASSUME NEW w \in Seq(Frames), w # <<>>, NEW res, NEW ops, StreamLeads(w, res, ops), NEW res2, NEW ops2,
         \A j \in 2 .. Len(w) : w[j].kind = "up-to-date" /\ (\A m \in 2 .. j - 1 : w[m].kind = "change") =>
             Leads(res2, ops2, Changes(w, 1, j), w[j].res)
  PROVE  StreamLeads(Tail(w), res2, ops2)
<1> DEFINE t == Tail(w)
<1>1. /\ Len(w) \in Nat \ {0} /\ DOMAIN w = 1 .. Len(w) /\ DOMAIN t = 1 .. Len(w) - 1
      /\ \A i \in 1 .. Len(w) - 1 : t[i] = w[i + 1]
  BY TailFacts
<1> HIDE DEF t
<1>2. SUFFICES ASSUME NEW j \in DOMAIN t, NEW i \in 0 .. j - 1, Batch(t, i, j)
               PROVE  Leads(IF i = 0 THEN res2 ELSE Base(t[i]), IF i = 0 THEN ops2 ELSE Empty,
                            Changes(t, i, j), t[j].res)
  BY DEF StreamLeads, t
<1>3. j \in 1 .. Len(w) - 1 /\ i \in Nat /\ j \in Nat /\ i < j
  BY <1>1, <1>2
<1>4. t[j] = w[j + 1] /\ w[j + 1].kind = "up-to-date" /\ j + 1 \in 2 .. Len(w)
  BY <1>1, <1>2, <1>3 DEF Batch
<1>5. \A m \in (i + 1) + 1 .. (j + 1) - 1 : m - 1 \in i + 1 .. j - 1 /\ w[m] = t[m - 1]
  <2> SUFFICES ASSUME NEW m \in (i + 1) + 1 .. (j + 1) - 1 PROVE m - 1 \in i + 1 .. j - 1 /\ w[m] = t[m - 1]
    OBVIOUS
  <2>1. m - 1 \in i + 1 .. j - 1 /\ m - 1 \in 1 .. Len(w) - 1 /\ (m - 1) + 1 = m
    BY <1>1, <1>3
  <2> QED
    BY <1>1, <2>1
<1>6. \A m \in i + 1 .. j - 1 : m + 1 \in (i + 1) + 1 .. (j + 1) - 1 /\ t[m] = w[m + 1]
  <2> SUFFICES ASSUME NEW m \in i + 1 .. j - 1 PROVE m + 1 \in (i + 1) + 1 .. (j + 1) - 1 /\ t[m] = w[m + 1]
    OBVIOUS
  <2>1. m \in 1 .. Len(w) - 1 /\ m + 1 \in (i + 1) + 1 .. (j + 1) - 1
    BY <1>1, <1>3
  <2> QED
    BY <1>1, <2>1
<1>7. Changes(t, i, j) = Changes(w, i + 1, j + 1)
  BY <1>5, <1>6 DEF Changes
<1>8. \A m \in (i + 1) + 1 .. (j + 1) - 1 : w[m].kind = "change"
  BY <1>2, <1>5 DEF Batch
<1>9. CASE i = 0
  BY <1>4, <1>7, <1>8, <1>9
<1>10. CASE i # 0
  <2>1. t[i] = w[i + 1] /\ i \in 1 .. Len(w) - 1
    BY <1>1, <1>3, <1>10
  <2>2. Batch(w, i + 1, j + 1)
    BY <1>2, <1>4, <1>8, <1>10, <2>1 DEF Batch
  <2>3. i + 1 \in 0 .. (j + 1) - 1 /\ i + 1 # 0 /\ j + 1 \in DOMAIN w
    BY <1>1, <1>3
  <2>4. Leads(Base(w[i + 1]), Empty, Changes(w, i + 1, j + 1), w[j + 1].res)
    BY <2>2, <2>3 DEF StreamLeads
  <2> QED
    BY <1>4, <1>7, <1>10, <2>1, <2>4
<1> QED
  BY <1>9, <1>10

LEMMA TailDeletes ==
  ASSUME NEW w \in Seq(Frames), w # <<>>, DeletesLast(w)
  PROVE  DeletesLast(Tail(w))
<1> DEFINE t == Tail(w)
<1>1. /\ Len(w) \in Nat \ {0} /\ DOMAIN w = 1 .. Len(w) /\ DOMAIN t = 1 .. Len(w) - 1
      /\ \A i \in 1 .. Len(w) - 1 : t[i] = w[i + 1]
  BY TailFacts
<1> HIDE DEF t
<1>2. SUFFICES ASSUME NEW j \in DOMAIN t, NEW i \in 1 .. j - 1,
                      t[i].kind = "change" /\ t[i].op = "delete", t[j].kind = "change" /\ t[j].op # "delete"
               PROVE  \E m \in i + 1 .. j - 1 : t[m].kind # "change"
  BY DEF DeletesLast, t
<1>3. /\ i \in 1 .. Len(w) - 1 /\ j \in 1 .. Len(w) - 1 /\ i + 1 \in 1 .. (j + 1) - 1 /\ j + 1 \in DOMAIN w
      /\ i \in Nat /\ j \in Nat
  BY <1>1, <1>2
<1>4. t[i] = w[i + 1] /\ t[j] = w[j + 1]
  BY <1>1, <1>3
<1>5. PICK m \in (i + 1) + 1 .. (j + 1) - 1 : w[m].kind # "change"
  BY <1>2, <1>3, <1>4 DEF DeletesLast
<1>6. m - 1 \in i + 1 .. j - 1 /\ m - 1 \in 1 .. Len(w) - 1 /\ (m - 1) + 1 = m
  BY <1>1, <1>3, <1>5
<1>7. t[m - 1] = w[m]
  BY <1>1, <1>6
<1> QED
  BY <1>5, <1>6, <1>7

(* What every read step shares. *)
LEMMA ReadFacts ==
  ASSUME ClientInv, wire # <<>>, wire' = Tail(wire), handled' = handled
  PROVE  /\ wire' \in Seq(Frames) /\ DeletesLast(wire') /\ FramesInOrder'
         /\ Len(wire) \in Nat \ {0} /\ DOMAIN wire = 1 .. Len(wire) /\ DOMAIN wire' = 1 .. Len(wire) - 1
         /\ Len(wire') = Len(wire) - 1
         /\ Head(wire) = wire[1] /\ wire[1] \in Frames /\ 1 \in DOMAIN wire
         /\ \A i \in DOMAIN wire' : i + 1 \in DOMAIN wire /\ wire'[i] = wire[i + 1]
         /\ wire' = <<>> => Len(wire) = 1
         /\ wire' # <<>> => Len(wire) > 1 /\ wire'[Len(wire')] = wire[Len(wire)]
<1>0. WellTyped /\ FramesInOrder /\ DeletesLast(wire) /\ wire \in Seq(Frames)
  BY DEF ClientInv, WellTyped
<1>1. /\ Len(wire) \in Nat \ {0} /\ DOMAIN wire = 1 .. Len(wire) /\ DOMAIN wire' = 1 .. Len(wire) - 1
      /\ Len(wire') = Len(wire) - 1 /\ wire' \in Seq(Frames) /\ Head(wire) = wire[1] /\ wire[1] \in Frames
      /\ \A i \in 1 .. Len(wire) - 1 : wire'[i] = wire[i + 1]
  BY <1>0, TailFacts
<1>2. \A i \in DOMAIN wire' : i + 1 \in DOMAIN wire /\ wire'[i] = wire[i + 1]
  BY <1>1
<1>3. FramesInOrder'
  <2>1. SUFFICES ASSUME NEW i \in DOMAIN wire', wire'[i].kind \in {"change", "up-to-date"}
                 PROVE  /\ wire'[i].txid \in 1 .. handled
                        /\ \A j \in i .. Len(wire') : Boundary(wire'[j]) => wire'[j].at >= wire'[i].txid
    BY DEF FramesInOrder
  <2>2. /\ wire[i + 1].txid \in 1 .. handled
        /\ \A j \in i + 1 .. Len(wire) : Boundary(wire[j]) => wire[j].at >= wire[i + 1].txid
    BY <1>0, <1>2, <2>1 DEF FramesInOrder
  <2>3. \A j \in i .. Len(wire') : j \in DOMAIN wire' /\ j + 1 \in i + 1 .. Len(wire)
    BY <1>1, <2>1
  <2> QED
    BY <1>2, <2>1, <2>2, <2>3
<1>4. DeletesLast(wire')
  BY <1>0, TailDeletes
<1>5. wire' = <<>> => Len(wire) = 1
  BY <1>1
<1>6. wire' # <<>> => Len(wire) > 1 /\ wire'[Len(wire')] = wire[Len(wire)]
  <2>1. SUFFICES ASSUME wire' # <<>> PROVE Len(wire) > 1 /\ wire'[Len(wire')] = wire[Len(wire)]
    OBVIOUS
  <2>2. Len(wire') \in Nat /\ Len(wire') # 0
    BY <1>1, <2>1
  <2>3. Len(wire') \in 1 .. Len(wire) - 1 /\ Len(wire') + 1 = Len(wire)
    BY <1>1, <2>2
  <2> QED
    BY <1>1, <2>2, <2>3
<1> QED
  BY <1>1, <1>2, <1>3, <1>4, <1>5, <1>6

LEMMA ResultFacts ==
  ASSUME NEW res \in Results
  PROVE  DOMAIN res \subseteq Keys /\ IsFiniteSet(DOMAIN res) /\ res \in [DOMAIN res -> Vals]
         /\ res = [k \in DOMAIN res |-> res[k]]
BY DEF Results

LEMMA EmptyFacts == DOMAIN Empty = {} /\ Empty \in UNION {[K -> Operations] : K \in SUBSET Keys}
<1>1. Empty \in [{} -> Operations] /\ DOMAIN Empty = {}
  BY DEF Empty
<1> QED
  BY <1>1

(* A boundary is read: what follows it starts from its result. *)
LEMMA BoundaryLeads ==
  ASSUME ClientInv, wire # <<>>, Boundary(wire[1])
  PROVE  StreamLeads(Tail(wire), Base(wire[1]), Empty)
<1>0. wire \in Seq(Frames) /\ StreamLeads(wire, shown.res, pending)
  BY DEF ClientInv, WellTyped
<1>1. Len(wire) \in Nat \ {0} /\ DOMAIN wire = 1 .. Len(wire)
  BY <1>0, TailFacts
<1>2. ASSUME NEW j \in 2 .. Len(wire), wire[j].kind = "up-to-date", \A m \in 2 .. j - 1 : wire[m].kind = "change"
      PROVE  Leads(Base(wire[1]), Empty, Changes(wire, 1, j), wire[j].res)
  <2>1. j \in DOMAIN wire /\ 1 \in 0 .. j - 1 /\ 1 # 0 /\ 1 + 1 = 2
    BY <1>1, <1>2
  <2>2. Batch(wire, 1, j)
    BY <1>2, <2>1 DEF Batch
  <2> QED
    BY <1>0, <2>1, <2>2 DEF StreamLeads
<1> QED
  BY <1>0, <1>2, TailLeads

LEMMA SnapshotKeeps ==
  ASSUME ClientInv, Snapshot
  PROVE  ClientInv'
<1>0. /\ WellTyped /\ Connected /\ RecordedIsDue /\ wire # <<>> /\ wire' = Tail(wire) /\ pc = "open"
      /\ UNCHANGED <<hist, handled, last, losses, pc, pending, left, txids, status>> /\ Latest' = Latest
      /\ loaded' = TRUE /\ ready' = TRUE
  BY DEF ClientInv, Snapshot, Frame, server, tracker, Latest
<1>1. /\ wire' \in Seq(Frames) /\ DeletesLast(wire') /\ FramesInOrder'
      /\ Len(wire) \in Nat \ {0} /\ DOMAIN wire = 1 .. Len(wire) /\ DOMAIN wire' = 1 .. Len(wire) - 1
      /\ Head(wire) = wire[1] /\ wire[1] \in Frames /\ 1 \in DOMAIN wire
      /\ \A i \in DOMAIN wire' : i + 1 \in DOMAIN wire /\ wire'[i] = wire[i + 1]
      /\ wire' = <<>> => Len(wire) = 1
      /\ wire' # <<>> => Len(wire) > 1 /\ wire'[Len(wire')] = wire[Len(wire)]
  BY <1>0, ReadFacts
<1> DEFINE rows == wire[1].rows
<1>2. /\ wire[1].kind = "snapshot" /\ seen' = DOMAIN rows
      /\ coll' = [k \in DOMAIN coll \cup DOMAIN rows |-> IF k \in DOMAIN rows THEN rows[k] ELSE coll[k]]
      /\ shown' = [res |-> rows, at |-> wire[1].at]
  BY <1>1 DEF Snapshot, Frame
<1>3. rows \in Results /\ wire[1].at \in Nat /\ Boundary(wire[1]) /\ Base(wire[1]) = rows
  BY <1>1, <1>2, FrameTyped DEF Boundary, Base
<1> HIDE DEF rows
<1>4. ~loaded /\ pending = Empty /\ coll = left
  BY <1>0, <1>1, <1>2 DEF Connected
<1>5. shown' \in [res : Results, at : Nat] /\ shown'.res = rows /\ shown'.at = wire[1].at
  BY <1>2, <1>3
<1>6. DOMAIN rows \subseteq Keys /\ rows = [k \in DOMAIN rows |-> rows[k]]
  BY <1>3, ResultFacts
<1>7. TypeOK'
  <2>1. DOMAIN coll' = DOMAIN coll \cup DOMAIN rows
    BY <1>2
  <2> QED
    BY <1>0, <1>2, <1>6, <2>1 DEF WellTyped, TypeOK
<1>8. WellTyped'
  BY <1>0, <1>1, <1>5, <1>7 DEF WellTyped
<1>9. WholeResults'
  <2>1. \A k \in DOMAIN rows : k \in DOMAIN coll' /\ coll'[k] = rows[k]
    BY <1>2
  <2>2. [k \in DOMAIN rows |-> coll'[k]] = rows
    BY <1>6, <2>1
  <2>3. \A k \in DOMAIN coll' \ DOMAIN rows : k \in DOMAIN left /\ coll'[k] = left[k]
    BY <1>2, <1>4
  <2> QED
    BY <1>0, <1>2, <1>5, <2>1, <2>2, <2>3 DEF WholeResults, Synced
<1>10. Connected'
  <2>1. \A i \in DOMAIN wire' : wire'[i].kind # "snapshot"
    <3>1. \A i \in DOMAIN wire' : i + 1 # 1
      BY <1>1
    <3> QED
      BY <1>0, <1>1, <3>1 DEF Connected
  <2>2. last # Unsubscribed => IF wire' = <<>> THEN shown'.res = last
                               ELSE Boundary(wire'[Len(wire')]) /\ Base(wire'[Len(wire')]) = last
    BY <1>0, <1>1, <1>3, <1>5 DEF Connected
  <2> QED
    BY <1>0, <1>4, <2>1, <2>2 DEF Connected
<1>11. StreamLeads(wire', shown'.res, pending')
  BY <1>0, <1>3, <1>4, <1>5, BoundaryLeads
<1>12. RecordedIsDue'
  <2>1. Recorded' = Recorded
    BY <1>0 DEF Recorded
  <2> QED
    BY <1>0, <1>1, <1>3, <1>5, <2>1 DEF RecordedIsDue
<1> QED
  BY <1>1, <1>8, <1>9, <1>10, <1>11, <1>12 DEF ClientInv

(* An up-to-date is read: the batch is whole, and includes what it         *)
(* confirms.                                                               *)
LEMMA FlushKeeps ==
  ASSUME ClientInv, Flush
  PROVE  ClientInv'
<1>0. /\ WellTyped /\ Connected /\ RecordedIsDue /\ FramesInOrder /\ WholeResults
      /\ wire # <<>> /\ wire' = Tail(wire) /\ pc = "open"
      /\ UNCHANGED <<hist, handled, last, losses, pc, loaded, ready, left>> /\ Latest' = Latest
      /\ pending' = Empty /\ StreamLeads(wire, shown.res, pending)
  BY DEF ClientInv, Flush, Frame, server, Latest
<1>1. /\ wire' \in Seq(Frames) /\ DeletesLast(wire') /\ FramesInOrder'
      /\ Len(wire) \in Nat \ {0} /\ DOMAIN wire = 1 .. Len(wire) /\ DOMAIN wire' = 1 .. Len(wire) - 1
      /\ Head(wire) = wire[1] /\ wire[1] \in Frames /\ 1 \in DOMAIN wire
      /\ \A i \in DOMAIN wire' : i + 1 \in DOMAIN wire /\ wire'[i] = wire[i + 1]
      /\ wire' = <<>> => Len(wire) = 1
      /\ wire' # <<>> => Len(wire) > 1 /\ wire'[Len(wire')] = wire[Len(wire)]
  BY <1>0, ReadFacts
<1> DEFINE next == wire[1].res
           n == wire[1].txid
<1>2. /\ wire[1].kind = "up-to-date" /\ seen' = (seen \cup UpsOf(pending)) \ DelsOf(pending, seen)
      /\ coll' = Flushed(coll, pending, seen)
      /\ shown' = [res |-> next, at |-> wire[1].at] /\ Record(n)
  BY <1>1 DEF Flush, Frame, UpsOf, DelsOf, Flushed
<1>3. next \in Results /\ wire[1].at \in Nat /\ Boundary(wire[1]) /\ Base(wire[1]) = next
  BY <1>1, <1>2, FrameTyped DEF Boundary, Base
<1>4. loaded
  BY <1>0, <1>1, <1>2 DEF Connected
<1>5. n \in 1 .. handled /\ wire[1].at >= n
      /\ \A j \in 1 .. Len(wire) : Boundary(wire[j]) => wire[j].at >= n
  BY <1>0, <1>1, <1>2, <1>3 DEF FramesInOrder
<1>6. Leads(shown.res, pending, {}, next)
  <2>1. 0 \in 0 .. 1 - 1 /\ 0 + 1 .. 1 - 1 = {}
    OBVIOUS
  <2>2. Batch(wire, 0, 1) /\ Changes(wire, 0, 1) = {}
    BY <1>2, <2>1 DEF Batch, Changes
  <2> QED
    BY <1>0, <1>1, <2>1, <2>2 DEF StreamLeads
<1>7. /\ seen = DOMAIN shown.res /\ seen \subseteq DOMAIN coll /\ \A k \in seen : coll[k] = shown.res[k]
  BY <1>0, <1>4 DEF WholeResults, Synced
<1>8. \A k \in DOMAIN pending : k \in Keys /\ pending[k].type \in {"upsert", "delete"}
  <2>1. PICK K \in SUBSET Keys : pending \in [K -> Operations]
    BY <1>0 DEF WellTyped
  <2> QED
    BY <2>1 DEF Operations
<1>9. seen' = DOMAIN next /\ DOMAIN next \subseteq DOMAIN coll' /\ [k \in DOMAIN next |-> coll'[k]] = next
  <2> HIDE DEF next
  <2>1. Sorted(pending)
    BY <1>8 DEF Sorted
  <2>2. Shows(coll, shown.res)
    BY <1>7 DEF Shows
  <2>3. /\ (DOMAIN shown.res \cup UpsOf(pending)) \ DelsOf(pending, DOMAIN shown.res) = DOMAIN next
        /\ Shows(Flushed(coll, pending, DOMAIN shown.res), next)
    BY <1>6, <2>1, <2>2, FlushLeads
  <2>4. next = [k \in DOMAIN next |-> next[k]]
    BY <1>3, ResultFacts
  <2> QED
    BY <1>2, <1>7, <2>3, <2>4 DEF Shows
<1>10. shown' \in [res : Results, at : Nat] /\ shown'.res = next /\ shown'.at = wire[1].at
  BY <1>2, <1>3
<1>11. /\ txids' \in Seq(Nat) /\ Len(txids') <= MaxSeen
       /\ status' \in Seq({"ours", "other", "awaiting", "confirmed", "rejected"}) /\ Len(status') = Len(status)
  BY <1>0, <1>2, <1>5, WireTyped, RecordFacts
<1>12. WellTyped'
  <2>1. seen' \subseteq Keys /\ DOMAIN coll' \subseteq Keys
    <3>1. DOMAIN next \subseteq Keys /\ DOMAIN coll \subseteq Keys
      BY <1>0, <1>3, ResultFacts DEF WellTyped, TypeOK
    <3>2. DOMAIN coll' \subseteq DOMAIN coll \cup DOMAIN pending
      BY <1>2 DEF Flushed, UpsOf
    <3> QED
      BY <1>8, <1>9, <3>1, <3>2
  <2>2. TypeOK'
    BY <1>0, <1>11, <2>1, EmptyFacts DEF WellTyped, TypeOK
  <2> QED
    BY <1>0, <1>1, <1>10, <1>11, <2>2, EmptyFacts DEF WellTyped
<1>13. WholeResults'
  <2>1. \A k \in DOMAIN coll \ seen : k \in DOMAIN left /\ coll[k] = left[k]
    BY <1>0, <1>4 DEF WholeResults
  <2>2. \A k \in DOMAIN coll' \ seen' : k \in DOMAIN coll \ seen /\ coll'[k] = coll[k]
    BY <1>2 DEF Flushed
  <2> QED
    BY <1>0, <1>9, <1>10, <2>1, <2>2 DEF WholeResults, Synced
<1>14. Connected'
  <2>1. \A i \in DOMAIN wire' : wire'[i].kind # "snapshot"
    BY <1>0, <1>1, <1>4 DEF Connected
  <2>2. last # Unsubscribed => IF wire' = <<>> THEN shown'.res = last
                               ELSE Boundary(wire'[Len(wire')]) /\ Base(wire'[Len(wire')]) = last
    BY <1>0, <1>1, <1>3, <1>10 DEF Connected
  <2> QED
    BY <1>0, <1>4, <2>1, <2>2 DEF Connected
<1>15. StreamLeads(wire', shown'.res, pending')
  BY <1>0, <1>3, <1>10, BoundaryLeads
<1>16. RecordedIsDue'
  <2>1. /\ \A i \in DOMAIN txids' : txids'[i] \in 1 .. handled'
        /\ \A m \in DOMAIN status' : status'[m] = "confirmed" => m <= handled'
        /\ Recorded' \subseteq Recorded \cup {n}
    BY <1>0, <1>2, <1>5, RecordedGrows
  <2>2. \A m \in Recorded' : shown'.at >= m /\ \A j \in DOMAIN wire' : Boundary(wire'[j]) => wire'[j].at >= m
    BY <1>0, <1>1, <1>3, <1>5, <1>10, <2>1 DEF RecordedIsDue
  <2> QED
    BY <2>1, <2>2 DEF RecordedIsDue
<1> QED
  BY <1>1, <1>12, <1>13, <1>14, <1>15, <1>16 DEF ClientInv

(* A change is read into the batch: nothing is shown, and every boundary   *)
(* still to come includes its transaction.                                 *)
LEMMA ChangeKeeps ==
  ASSUME ClientInv, pc = "open", wire # <<>>, wire[1].kind = "change", wire' = Tail(wire), Record(wire[1].txid),
         UNCHANGED <<hist, handled, last, losses, pc, loaded, ready, seen, coll, left, shown>>,
         pending' \in UNION {[K -> Operations] : K \in SUBSET Keys}, DOMAIN pending' # {},
         StreamLeads(wire', shown.res, pending')
  PROVE  ClientInv'
<1> DEFINE n == wire[1].txid
<1>0. /\ WellTyped /\ Connected /\ RecordedIsDue /\ FramesInOrder /\ WholeResults /\ Latest' = Latest
  BY DEF ClientInv, Latest
<1>1. /\ wire' \in Seq(Frames) /\ DeletesLast(wire') /\ FramesInOrder'
      /\ Len(wire) \in Nat \ {0} /\ DOMAIN wire = 1 .. Len(wire) /\ DOMAIN wire' = 1 .. Len(wire) - 1
      /\ wire[1] \in Frames /\ 1 \in DOMAIN wire
      /\ \A i \in DOMAIN wire' : i + 1 \in DOMAIN wire /\ wire'[i] = wire[i + 1]
      /\ wire' = <<>> => Len(wire) = 1
      /\ wire' # <<>> => Len(wire) > 1 /\ wire'[Len(wire')] = wire[Len(wire)]
  BY ReadFacts
<1>2. loaded
  BY <1>0, <1>1 DEF Connected
<1>3. n \in 1 .. handled /\ \A j \in 1 .. Len(wire) : Boundary(wire[j]) => wire[j].at >= n
  BY <1>0, <1>1 DEF FramesInOrder
<1>4. n \in Nat /\ handled \in Nat
  BY <1>0, <1>3, WireTyped
<1>5. /\ txids' \in Seq(Nat) /\ Len(txids') <= MaxSeen
      /\ status' \in Seq({"ours", "other", "awaiting", "confirmed", "rejected"}) /\ Len(status') = Len(status)
  BY <1>0, <1>4, RecordFacts
<1>6. DOMAIN pending' \subseteq Keys
  <2>1. PICK K \in SUBSET Keys : pending' \in [K -> Operations]
    OBVIOUS
  <2> QED
    BY <2>1
<1>7. TypeOK'
  BY <1>0, <1>5, <1>6 DEF WellTyped, TypeOK
<1>8. WellTyped'
  BY <1>0, <1>1, <1>5, <1>7 DEF WellTyped
<1>9. WholeResults'
  BY <1>0 DEF WholeResults, Synced
<1>10. Connected'
  <2>1. \A i \in DOMAIN wire' : wire'[i].kind # "snapshot"
    BY <1>0, <1>1, <1>2 DEF Connected
  <2>2. last # Unsubscribed => wire' # <<>> /\ Boundary(wire'[Len(wire')]) /\ Base(wire'[Len(wire')]) = last
    <3>1. ~Boundary(wire[1])
      BY DEF Boundary
    <3> QED
      BY <1>0, <1>1, <3>1 DEF Connected
  <2> QED
    BY <1>0, <1>2, <2>1, <2>2 DEF Connected
<1>11. RecordedIsDue'
  <2>1. /\ \A i \in DOMAIN txids' : txids'[i] \in 1 .. handled'
        /\ \A m \in DOMAIN status' : status'[m] = "confirmed" => m <= handled'
        /\ Recorded' \subseteq Recorded \cup {n}
    BY <1>0, <1>3, RecordedGrows
  <2>2. \A m \in Recorded' : \A j \in DOMAIN wire' : Boundary(wire'[j]) => wire'[j].at >= m
    BY <1>0, <1>1, <1>3, <2>1 DEF RecordedIsDue
  <2>3. pending' # Empty
    BY EmptyFacts
  <2> QED
    BY <2>1, <2>2, <2>3 DEF RecordedIsDue
<1> QED
  BY <1>1, <1>8, <1>9, <1>10, <1>11 DEF ClientInv

(* The batch without the change at its front. *)
LEMMA FirstChange ==
  ASSUME NEW w, NEW j \in Nat, j >= 2
  PROVE  Changes(w, 0, j) = {w[1]} \cup Changes(w, 1, j)
<1>1. 0 + 1 .. j - 1 = {1} \cup 1 + 1 .. j - 1
  OBVIOUS
<1> QED
  BY <1>1 DEF Changes

LEMMA FrontLeads ==
  ASSUME ClientInv, wire # <<>>, wire[1].kind = "change", NEW j \in 2 .. Len(wire), wire[j].kind = "up-to-date",
         \A m \in 2 .. j - 1 : wire[m].kind = "change"
  PROVE  Leads(shown.res, pending, {wire[1]} \cup Changes(wire, 1, j), wire[j].res)
<1>0. wire \in Seq(Frames) /\ StreamLeads(wire, shown.res, pending)
  BY DEF ClientInv, WellTyped
<1>1. Len(wire) \in Nat \ {0} /\ DOMAIN wire = 1 .. Len(wire)
  BY <1>0, TailFacts
<1>2. j \in DOMAIN wire /\ 0 \in 0 .. j - 1 /\ j \in Nat /\ j >= 2
  BY <1>1
<1>3. \A m \in 0 + 1 .. j - 1 : m = 1 \/ m \in 2 .. j - 1
  BY <1>2
<1>4. Batch(wire, 0, j)
  BY <1>3 DEF Batch
<1>5. Leads(shown.res, pending, Changes(wire, 0, j), wire[j].res)
  BY <1>0, <1>2, <1>4 DEF StreamLeads
<1> QED
  BY <1>2, <1>5, FirstChange

LEMMA PutTyped ==
  ASSUME NEW ops \in UNION {[K -> Operations] : K \in SUBSET Keys}, NEW k \in Keys, NEW o \in Operations
  PROVE  Put(ops, k, o) \in UNION {[K -> Operations] : K \in SUBSET Keys} /\ DOMAIN Put(ops, k, o) # {}
<1>1. PICK K \in SUBSET Keys : ops \in [K -> Operations]
  OBVIOUS
<1>2. Put(ops, k, o) \in [K \cup {k} -> Operations] /\ DOMAIN Put(ops, k, o) = K \cup {k}
  BY <1>1 DEF Put
<1>3. K \cup {k} \in SUBSET Keys
  BY <1>1
<1> QED
  BY <1>2, <1>3

LEMMA UpsertKeeps ==
  ASSUME ClientInv, Upsert
  PROVE  ClientInv'
<1> DEFINE f == wire[1]
           o == [type |-> "upsert", value |-> f.row[2]]
<1>0. /\ pc = "open" /\ wire # <<>> /\ wire' = Tail(wire) /\ wire \in Seq(Frames) /\ StreamLeads(wire, shown.res, pending)
      /\ UNCHANGED <<hist, handled, last, losses, pc, loaded, ready, seen, coll, left, shown>>
      /\ pending \in UNION {[K -> Operations] : K \in SUBSET Keys}
  BY DEF ClientInv, WellTyped, Upsert, Frame, server
<1>1. Head(wire) = f /\ f \in Frames
  BY <1>0, TailFacts
<1>2. f.kind = "change" /\ f.op # "delete" /\ pending' = Put(pending, f.row[1], o) /\ Record(f.txid)
  BY <1>1 DEF Upsert, Frame
<1>3. f.row[1] \in Keys /\ f.row[2] \in Vals
  BY <1>1, <1>2, FrameTyped
<1>4. o \in Operations
  BY <1>3 DEF Operations
<1>5. pending' \in UNION {[K -> Operations] : K \in SUBSET Keys} /\ DOMAIN pending' # {}
  BY <1>0, <1>2, <1>3, <1>4, PutTyped
<1>6. ASSUME NEW j \in 2 .. Len(wire), wire[j].kind = "up-to-date", \A m \in 2 .. j - 1 : wire[m].kind = "change"
      PROVE  Leads(shown.res, pending', Changes(wire, 1, j), wire[j].res)
  <2>1. Leads(shown.res, pending, {f} \cup Changes(wire, 1, j), wire[j].res)
    BY <1>0, <1>2, <1>6, FrontLeads
  <2> QED
    BY <1>2, <2>1, ReadUpsert
<1>7. StreamLeads(wire', shown.res, pending')
  BY <1>0, <1>6, TailLeads
<1> QED
  BY <1>0, <1>2, <1>5, <1>7, ChangeKeeps

LEMMA DeleteKeeps ==
  ASSUME ClientInv, Delete
  PROVE  ClientInv'
<1> DEFINE f == wire[1]
           k == f.row[1]
           o == [type |-> "delete"]
           written == k \in DOMAIN pending /\ pending[k].type = "upsert"
<1>0. /\ pc = "open" /\ wire # <<>> /\ wire' = Tail(wire) /\ wire \in Seq(Frames) /\ StreamLeads(wire, shown.res, pending)
      /\ UNCHANGED <<hist, handled, last, losses, pc, loaded, ready, seen, coll, left, shown>> /\ DeletesLast(wire)
      /\ pending \in UNION {[K -> Operations] : K \in SUBSET Keys}
  BY DEF ClientInv, WellTyped, Delete, Frame, server
<1>1. Head(wire) = f /\ f \in Frames /\ Len(wire) \in Nat \ {0} /\ DOMAIN wire = 1 .. Len(wire)
      /\ \A i \in DOMAIN wire : wire[i] \in Frames
  BY <1>0, TailFacts
<1>2. f.kind = "change" /\ f.op = "delete" /\ Record(f.txid)
      /\ pending' = IF written THEN pending ELSE Put(pending, k, o)
  BY <1>1 DEF Delete, Frame
<1>3. k \in Keys
  BY <1>1, <1>2, FrameTyped
<1>4. o \in Operations
  BY DEF Operations
<1>5. pending' \in UNION {[K -> Operations] : K \in SUBSET Keys} /\ DOMAIN pending' # {}
  <2>1. CASE written
    BY <1>0, <1>2, <2>1
  <2>2. CASE ~written
    <3> HIDE DEF o, k, written
    <3> QED
      BY <1>0, <1>2, <1>3, <1>4, <2>2, PutTyped
  <2> QED
    BY <2>1, <2>2
<1>6. ASSUME NEW j \in 2 .. Len(wire), wire[j].kind = "up-to-date", \A m \in 2 .. j - 1 : wire[m].kind = "change"
      PROVE  Leads(shown.res, pending', Changes(wire, 1, j), wire[j].res)
  <2>1. Leads(shown.res, pending, {f} \cup Changes(wire, 1, j), wire[j].res)
    BY <1>0, <1>2, <1>6, FrontLeads
  <2>2. ASSUME NEW g \in Changes(wire, 1, j) PROVE g.op = "delete"
    <3>1. PICK m \in 1 + 1 .. j - 1 : g = wire[m]
      BY DEF Changes
    <3>2. m \in DOMAIN wire /\ 1 \in 1 .. m - 1 /\ m \in 2 .. j - 1
      BY <1>1, <1>6, <3>1
    <3>3. wire[m].kind = "change" /\ wire[m] \in Frames
      BY <1>1, <1>6, <3>2
    <3>4. \A q \in 1 + 1 .. m - 1 : q \in 2 .. j - 1
      BY <3>2, <1>6
    <3> QED
      BY <1>0, <1>2, <1>6, <3>1, <3>2, <3>3, <3>4 DEF DeletesLast
  <2>3. /\ written => Leads(shown.res, pending, Changes(wire, 1, j), wire[j].res)
        /\ ~written => Leads(shown.res, Put(pending, k, o), Changes(wire, 1, j), wire[j].res)
    BY <1>2, <2>1, <2>2, ReadDelete
  <2> QED
    BY <1>2, <2>3
<1>7. StreamLeads(wire', shown.res, pending')
  BY <1>0, <1>6, TailLeads
<1> QED
  BY <1>0, <1>2, <1>5, <1>7, ChangeKeeps

-----------------------------------------------------------------------------
(* A transaction is handled: a cycle joins the stream. *)
LEMMA CycleFacts ==
  ASSUME WellTyped, NEW prev \in Results, NEW n \in Nat, NEW c,
         c = Cycle(Diff(KeyedMap(prev), KeyedMap(Now)), n)
  PROVE  /\ c \in Seq(Frames) /\ Len(c) \in Nat \ {0}
         /\ c[Len(c)] = [kind |-> "up-to-date", txid |-> n, res |-> Now, at |-> Latest]
         /\ \A i \in 1 .. Len(c) - 1 : c[i].kind = "change" /\ c[i].txid = n
         /\ \A j \in 1 .. Len(c) - 1 : \A i \in 1 .. j - 1 : c[i].op = "delete" => c[j].op = "delete"
         /\ Leads(prev, Empty, Changes(c, 0, Len(c)), Now)
<1> DEFINE P == KeyedMap(prev)
           N == KeyedMap(Now)
           U == UpFrames(P, N, n)
           D == DelFrames(P, N, n)
           e == [kind |-> "up-to-date", txid |-> n, res |-> Now, at |-> Latest]
<1>0. Now \in Results /\ Latest \in Nat
  BY WireTyped
<1>1. e \in Frames
  BY <1>0 DEF Frames
<1>2. IsFiniteSet(DOMAIN P) /\ IsFiniteSet(DOMAIN N)
  BY <1>0, ResultFacts, KeyedIsFinite
<1>3. Rows(prev) \subseteq Keys \X Vals /\ Rows(Now) \subseteq Keys \X Vals
  BY <1>0, ResultFacts DEF Rows
<1>4. /\ U = {UpFrame(P, N, k, n) : k \in UpKeys(P, N)}
      /\ D = {DelFrame(P, k, n) : k \in DOMAIN P \ DOMAIN N}
  BY FramesOfDiff
<1>5. /\ \A k \in UpKeys(P, N) : N[k] \in Rows(Now)
      /\ \A k \in DOMAIN P \ DOMAIN N : P[k] \in Rows(prev)
  BY KeyedUpserts, KeyedDeletes
<1> HIDE DEF P, N, U, D
<1>6. \A f \in U : f \in Frames /\ f.kind = "change" /\ f.op # "delete" /\ f.txid = n
  <2> SUFFICES ASSUME NEW k \in UpKeys(P, N), NEW f, f = UpFrame(P, N, k, n)
               PROVE  f \in Frames /\ f.kind = "change" /\ f.op # "delete" /\ f.txid = n
    BY <1>4
  <2>1. N[k] \in Keys \X Vals
    BY <1>3, <1>5
  <2> QED
    BY <2>1 DEF UpFrame, Frames
<1>7. \A f \in D : f \in Frames /\ f.kind = "change" /\ f.op = "delete" /\ f.txid = n
  <2> SUFFICES ASSUME NEW k \in DOMAIN P \ DOMAIN N, NEW f, f = DelFrame(P, k, n)
               PROVE  f \in Frames /\ f.kind = "change" /\ f.op = "delete" /\ f.txid = n
    BY <1>4
  <2>1. P[k] \in Keys \X Vals
    BY <1>3, <1>5
  <2> QED
    BY <2>1 DEF DelFrame, Frames
<1>8. U \cup D \subseteq Frames
  BY <1>6, <1>7
<1>9. /\ c \in Seq(Frames) /\ Len(c) \in Nat \ {0} /\ c[Len(c)] = e
      /\ \A i \in 1 .. Len(c) - 1 : c[i] \in U \cup D
      /\ \A f \in U \cup D : \E i \in 1 .. Len(c) - 1 : c[i] = f
      /\ \A j \in 1 .. Len(c) - 1 : \A i \in 1 .. j - 1 : c[j] \notin D => c[i] \in U
  <2> HIDE DEF e
  <2>1. c = Cycle(Diff(P, N), n) /\ e = [kind |-> "up-to-date", txid |-> n, res |-> Now, at |-> Latest]
    BY DEF P, N, e
  <2>2. UpFrames(P, N, n) \cup DelFrames(P, N, n) \subseteq Frames
    BY <1>8 DEF U, D
  <2> QED
    BY <1>1, <1>2, <2>1, <2>2, CycleShape DEF U, D
<1>10. \A i \in 1 .. Len(c) - 1 : c[i].kind = "change" /\ c[i].txid = n
  BY <1>6, <1>7, <1>9
<1>11. \A j \in 1 .. Len(c) - 1 : \A i \in 1 .. j - 1 : c[i].op = "delete" => c[j].op = "delete"
  BY <1>6, <1>7, <1>9
<1>12. Changes(c, 0, Len(c)) = U \cup D
  <2>1. 0 + 1 .. Len(c) - 1 = 1 .. Len(c) - 1
    OBVIOUS
  <2> QED
    BY <1>9, <2>1 DEF Changes
<1>13. Leads(prev, Empty, U \cup D, Now)
  BY <1>0, CycleLeads DEF U, D, P, N
<1> QED
  BY <1>9, <1>10, <1>11, <1>12, <1>13

LEMMA ShiftedChanges ==
  ASSUME NEW w, NEW c, NEW L \in Nat, NEW C \in Nat, \A m \in 1 .. C - 1 : w[L + m] = c[m]
  PROVE  Changes(w, L, L + C) = Changes(c, 0, C)
<1>1. ASSUME NEW m \in L + 1 .. (L + C) - 1 PROVE \E q \in 0 + 1 .. C - 1 : w[m] = c[q]
  <2>1. m - L \in 1 .. C - 1 /\ m - L \in 0 + 1 .. C - 1 /\ L + (m - L) = m
    BY <1>1
  <2> QED
    BY <2>1
<1>2. ASSUME NEW q \in 0 + 1 .. C - 1 PROVE \E m \in L + 1 .. (L + C) - 1 : w[m] = c[q]
  <2>1. L + q \in L + 1 .. (L + C) - 1 /\ q \in 1 .. C - 1
    BY <1>2
  <2> QED
    BY <2>1
<1> QED
  BY <1>1, <1>2 DEF Changes

LEMMA HandleKeeps ==
  ASSUME ClientInv, Handle, last # Unsubscribed
  PROVE  ClientInv'
<1> DEFINE n == handled + 1
           c == Cycle(Diff(KeyedMap(last), KeyedMap(Now)), n)
           L == Len(wire)
           C == Len(c)
           e == [kind |-> "up-to-date", txid |-> n, res |-> Now, at |-> Latest]
<1>0. /\ WellTyped /\ Connected /\ WholeResults /\ StreamLeads(wire, shown.res, pending) /\ DeletesLast(wire)
      /\ RecordedIsDue /\ FramesInOrder
      /\ UNCHANGED <<hist, losses, pc, loaded, ready, seen, pending, coll, left, shown, txids, status>>
      /\ handled < Latest /\ handled' = n /\ wire' = wire \o c /\ last' = Now /\ Latest' = Latest /\ Now' = Now
      /\ wire \in Seq(Frames) /\ last \in Results
  BY DEF ClientInv, WellTyped, Handle, engine, tracker, Latest, Now
<1>1. /\ L \in Nat /\ DOMAIN wire = 1 .. L /\ handled \in Nat /\ Latest \in Nat /\ Now \in Results
      /\ n \in Nat /\ n <= Latest /\ n >= 1
  BY <1>0, WireTyped
<1>2. /\ c \in Seq(Frames) /\ C \in Nat \ {0} /\ c[C] = e
      /\ \A i \in 1 .. C - 1 : c[i].kind = "change" /\ c[i].txid = n
      /\ \A j \in 1 .. C - 1 : \A i \in 1 .. j - 1 : c[i].op = "delete" => c[j].op = "delete"
      /\ Leads(last, Empty, Changes(c, 0, C), Now)
  <2>1. WellTyped /\ last \in Results /\ n \in Nat
    BY <1>0, <1>1
  <2>2. c = Cycle(Diff(KeyedMap(last), KeyedMap(Now)), n)
    OBVIOUS
  <2> HIDE DEF c, n
  <2> QED
    BY <2>1, <2>2, CycleFacts
<1>3. e.kind = "up-to-date" /\ e.txid = n /\ e.res = Now /\ e.at = Latest
  OBVIOUS
<1> HIDE DEF c, e
<1>4. /\ wire' \in Seq(Frames) /\ Len(wire') = L + C /\ DOMAIN wire' = 1 .. L + C
      /\ \A i \in 1 .. L : wire'[i] = wire[i]
      /\ \A i \in 1 .. C : wire'[L + i] = c[i]
  BY <1>0, <1>2, TwoParts
<1> HIDE DEF L, C, n
<1>5. /\ wire'[L + C] = e /\ L + C \in DOMAIN wire'
      /\ \A i \in DOMAIN wire' : i \in 1 .. L \/ (i > L /\ i - L \in 1 .. C - 1) \/ i = L + C
      /\ \A i \in 1 .. L : i \in DOMAIN wire' /\ i \in DOMAIN wire /\ i < L + C
  <2>1. C \in 1 .. C /\ L + C \in 1 .. L + C
    BY <1>1, <1>2
  <2>2. wire'[L + C] = e
    BY <1>2, <1>4, <2>1
  <2>3. \A i \in 1 .. L + C : i \in 1 .. L \/ (i > L /\ i - L \in 1 .. C - 1) \/ i = L + C
    BY <1>1, <1>2
  <2>4. \A i \in 1 .. L : i \in 1 .. L + C /\ i < L + C
    BY <1>1, <1>2
  <2> QED
    BY <1>1, <1>4, <2>1, <2>2, <2>3, <2>4
<1>6. ASSUME NEW i \in DOMAIN wire', i > L, i - L \in 1 .. C - 1
      PROVE  wire'[i] = c[i - L] /\ wire'[i].kind = "change" /\ wire'[i].txid = n
  <2>1. L + (i - L) = i /\ i - L \in 1 .. C
    BY <1>1, <1>2, <1>4, <1>6
  <2>2. wire'[i] = c[i - L]
    BY <1>4, <2>1
  <2> QED
    BY <1>2, <1>6, <2>2
<1>7. L # 0 => wire # <<>> /\ Boundary(wire[L]) /\ Base(wire[L]) = last /\ L \in 1 .. L
  BY <1>0, <1>1 DEF Connected, L
<1>8. L = 0 => wire = <<>> /\ pending = Empty /\ shown.res = last
  BY <1>0, <1>1 DEF Connected, L
<1>9. WellTyped'
  <2>1. TypeOK'
    BY <1>0, <1>1 DEF WellTyped, TypeOK, n
  <2> QED
    BY <1>0, <1>1, <1>4, <2>1 DEF WellTyped
<1>10. WholeResults'
  BY <1>0 DEF WholeResults, Synced
<1>11. Connected'
  <2>1. pc = "open" /\ wire' # <<>>
    BY <1>0, <1>4, <1>5 DEF Connected
  <2>2. ASSUME NEW i \in DOMAIN wire' PROVE wire'[i].kind = "snapshot" <=> i = 1 /\ ~loaded
    <3>1. CASE i \in 1 .. L
      BY <1>0, <1>1, <1>4, <3>1 DEF Connected
    <3>2. CASE i \notin 1 .. L
      <4>1. wire'[i].kind # "snapshot"
        BY <1>3, <1>5, <1>6, <3>2
      <4>2. i = 1 => L = 0
        BY <1>1, <3>2
      <4>3. i = 1 => loaded
        BY <1>0, <1>8, <2>1, <4>2 DEF Connected
      <4> QED
        BY <4>1, <4>3
    <3> QED
      BY <3>1, <3>2
  <2>3. Boundary(wire'[Len(wire')]) /\ Base(wire'[Len(wire')]) = last'
    BY <1>0, <1>3, <1>4, <1>5 DEF Boundary, Base
  <2> QED
    BY <1>0, <2>1, <2>2, <2>3 DEF Connected
<1>12. StreamLeads(wire', shown'.res, pending')
  <2>1. SUFFICES ASSUME NEW j \in DOMAIN wire', NEW i \in 0 .. j - 1, Batch(wire', i, j)
                 PROVE  Leads(IF i = 0 THEN shown.res ELSE Base(wire'[i]), IF i = 0 THEN pending ELSE Empty,
                              Changes(wire', i, j), wire'[j].res)
    BY <1>0 DEF StreamLeads
  <2>2. wire'[j].kind = "up-to-date" /\ (i # 0 => Boundary(wire'[i])) /\ \A m \in i + 1 .. j - 1 : wire'[m].kind = "change"
    BY <2>1 DEF Batch
  <2>3. CASE j \in 1 .. L
    <3>1. \A m \in i + 1 .. j - 1 : wire'[m] = wire[m]
      BY <1>1, <1>4, <2>1, <2>3
    <3>2. wire'[j] = wire[j] /\ (i # 0 => wire'[i] = wire[i]) /\ j \in DOMAIN wire
      BY <1>1, <1>4, <2>1, <2>3
    <3>3. Changes(wire', i, j) = Changes(wire, i, j)
      BY <3>1 DEF Changes
    <3>4. Batch(wire, i, j)
      BY <2>2, <3>1, <3>2 DEF Batch
    <3>5. Leads(IF i = 0 THEN shown.res ELSE Base(wire[i]), IF i = 0 THEN pending ELSE Empty, Changes(wire, i, j), wire[j].res)
      BY <1>0, <3>2, <3>4 DEF StreamLeads
    <3> QED
      BY <3>2, <3>3, <3>5
  <2>4. CASE j \notin 1 .. L
    <3>1. j = L + C
      BY <1>5, <1>6, <2>2, <2>4
    <3>2. ~(i < L)
      <4> SUFFICES ASSUME i < L PROVE FALSE
        OBVIOUS
      <4>1. L \in i + 1 .. j - 1 /\ L # 0 /\ L \in 1 .. L
        BY <1>1, <1>2, <2>1, <3>1
      <4> QED
        BY <1>4, <1>7, <2>2, <4>1 DEF Boundary
    <3>3. ~(i > L)
      <4> SUFFICES ASSUME i > L PROVE FALSE
        OBVIOUS
      <4>1. i \in DOMAIN wire' /\ i # 0 /\ i - L \in 1 .. C - 1
        BY <1>1, <1>2, <1>4, <2>1, <3>1
      <4> QED
        BY <1>6, <2>2, <4>1 DEF Boundary
    <3>4. i = L
      BY <1>1, <2>1, <3>2, <3>3
    <3>5. Changes(wire', L, L + C) = Changes(c, 0, C)
      <4>1. \A m \in 1 .. C - 1 : wire'[L + m] = c[m]
        BY <1>2, <1>4
      <4> QED
        BY <1>1, <1>2, <4>1, ShiftedChanges
    <3>6. Leads(last, Empty, Changes(wire', i, j), wire'[j].res)
      BY <1>2, <1>3, <1>5, <3>1, <3>4, <3>5
    <3>7. CASE L = 0
      BY <1>8, <3>4, <3>6, <3>7
    <3>8. CASE L # 0
      BY <1>4, <1>7, <3>4, <3>6, <3>8
    <3> QED
      BY <3>7, <3>8
  <2> QED
    BY <2>3, <2>4
<1>13. DeletesLast(wire')
  <2>1. SUFFICES ASSUME NEW j \in DOMAIN wire', NEW i \in 1 .. j - 1,
                        wire'[i].kind = "change", wire'[i].op = "delete", wire'[j].kind = "change", wire'[j].op # "delete"
                 PROVE  \E m \in i + 1 .. j - 1 : wire'[m].kind # "change"
    BY DEF DeletesLast
  <2>2. CASE j \in 1 .. L
    <3>1. i \in 1 .. L /\ \A m \in i + 1 .. j - 1 : m \in 1 .. L
      BY <1>1, <2>1, <2>2
    <3>2. wire'[i] = wire[i] /\ wire'[j] = wire[j] /\ \A m \in i + 1 .. j - 1 : wire'[m] = wire[m]
      BY <1>4, <2>2, <3>1
    <3> QED
      BY <1>0, <1>1, <2>1, <2>2, <3>2 DEF DeletesLast
  <2>3. CASE j \notin 1 .. L
    <3>0. wire'[j] # e
      BY <1>3, <2>1
    <3>1. j > L /\ j - L \in 1 .. C - 1 /\ wire'[j] = c[j - L]
      BY <1>5, <1>6, <2>3, <3>0
    <3>2. CASE i \in 1 .. L
      <4>1. L # 0 /\ wire'[L] = wire[L] /\ wire[L].kind # "change"
        BY <1>1, <1>4, <1>7, <3>2 DEF Boundary
      <4>2. L \in i + 1 .. j - 1
        <5>1. i # L
          BY <2>1, <4>1
        <5> QED
          BY <1>1, <1>2, <1>4, <2>1, <3>1, <3>2, <5>1
      <4> QED
        BY <4>1, <4>2
    <3>3. CASE i \notin 1 .. L
      <4>1. i \in DOMAIN wire' /\ i > L /\ i - L \in 1 .. C - 1 /\ i - L \in 1 .. (j - L) - 1
        BY <1>1, <1>2, <1>4, <2>1, <3>1, <3>3
      <4>2. wire'[i] = c[i - L]
        BY <1>6, <4>1
      <4> QED
        BY <1>2, <2>1, <3>1, <4>1, <4>2
    <3> QED
      BY <3>2, <3>3
  <2> QED
    BY <2>2, <2>3
<1>14. FramesInOrder'
  <2>1. SUFFICES ASSUME NEW i \in DOMAIN wire', wire'[i].kind \in {"change", "up-to-date"}
                 PROVE  /\ wire'[i].txid \in 1 .. handled'
                        /\ \A j \in i .. Len(wire') : Boundary(wire'[j]) => wire'[j].at >= wire'[i].txid
    BY DEF FramesInOrder
  <2>2. CASE i \in 1 .. L
    <3>1. /\ wire'[i] = wire[i] /\ wire[i].txid \in 1 .. handled
          /\ \A j \in i .. L : Boundary(wire[j]) => wire[j].at >= wire[i].txid
      BY <1>0, <1>1, <1>4, <2>1, <2>2 DEF FramesInOrder, L
    <3>2. wire'[i].txid \in 1 .. handled' /\ Latest >= wire[i].txid
      BY <1>0, <1>1, <3>1 DEF n
    <3>3. ASSUME NEW j \in i .. Len(wire'), Boundary(wire'[j]) PROVE wire'[j].at >= wire'[i].txid
      <4>1. j \in DOMAIN wire'
        BY <1>1, <1>4, <2>2
      <4>2. CASE j \in 1 .. L
        BY <1>1, <1>4, <2>2, <3>1, <3>3, <4>2
      <4>3. CASE j \notin 1 .. L
        <5>1. j = L + C
          BY <1>5, <1>6, <3>3, <4>1, <4>3 DEF Boundary
        <5> QED
          BY <1>3, <1>5, <3>1, <3>2, <5>1
      <4> QED
        BY <4>2, <4>3
    <3> QED
      BY <3>2, <3>3
  <2>3. CASE i \notin 1 .. L
    <3>1. wire'[i].txid = n
      BY <1>3, <1>5, <1>6, <2>3
    <3>2. n \in 1 .. handled'
      BY <1>0, <1>1
    <3>3. ASSUME NEW j \in i .. Len(wire'), Boundary(wire'[j]) PROVE wire'[j].at >= n
      <4>1. j \in DOMAIN wire' /\ j \notin 1 .. L
        BY <1>1, <1>4, <2>1, <2>3
      <4>2. j = L + C
        BY <1>5, <1>6, <3>3, <4>1 DEF Boundary
      <4> QED
        BY <1>1, <1>3, <1>5, <4>2
    <3> QED
      BY <3>1, <3>2, <3>3
  <2> QED
    BY <2>2, <2>3
<1>15. RecordedIsDue'
  <2>1. /\ \A i \in DOMAIN txids : txids[i] \in 1 .. handled /\ txids[i] \in 1 .. n
        /\ \A m \in DOMAIN status : status[m] = "confirmed" => m <= handled /\ m <= n
    <3>1. DOMAIN status = 1 .. Len(status) /\ Len(status) = Latest
      BY <1>0, WireTyped
    <3> QED
      BY <1>0, <1>1, <3>1 DEF RecordedIsDue, n
  <2>2. Recorded' \subseteq Recorded /\ \A m \in Recorded : m \in Nat /\ Latest >= m
    <3>1. DOMAIN status = 1 .. Len(status) /\ Len(status) = Latest
      BY <1>0, WireTyped
    <3> QED
      BY <1>0, <1>1, <2>1, <3>1 DEF Recorded
  <2>3. ASSUME NEW m \in Recorded, NEW j \in DOMAIN wire', Boundary(wire'[j]) PROVE wire'[j].at >= m
    <3>1. CASE j \in 1 .. L
      BY <1>0, <1>1, <1>4, <2>3, <3>1 DEF RecordedIsDue
    <3>2. CASE j \notin 1 .. L
      <4>1. j = L + C
        BY <1>5, <1>6, <2>3, <3>2 DEF Boundary
      <4> QED
        BY <1>3, <1>5, <2>2, <4>1
    <3> QED
      BY <3>1, <3>2
  <2>4. loaded' /\ pending' = Empty => \A m \in Recorded : shown'.at >= m
    BY <1>0 DEF RecordedIsDue
  <2> QED
    BY <1>0, <2>1, <2>2, <2>3, <2>4 DEF RecordedIsDue
<1> QED
  BY <1>9, <1>10, <1>11, <1>12, <1>13, <1>14, <1>15 DEF ClientInv

(* The stream ends with a reset. *)
LEMMA ResetKeeps ==
  ASSUME ClientInv, Reset
  PROVE  ClientInv'
<1> DEFINE f == [kind |-> "reset"]
           L == Len(wire)
<1>0. /\ WellTyped /\ Connected /\ WholeResults /\ StreamLeads(wire, shown.res, pending) /\ DeletesLast(wire)
      /\ RecordedIsDue /\ FramesInOrder
      /\ UNCHANGED <<hist, handled, pc, loaded, ready, seen, pending, coll, left, shown, txids, status>> /\ Latest' = Latest
      /\ last # Unsubscribed /\ last' = Unsubscribed /\ wire' = Append(wire, f) /\ losses' = losses + 1
      /\ losses < MaxLosses /\ wire \in Seq(Frames)
  BY DEF ClientInv, WellTyped, Reset, server, engine, tracker, Latest
<1>1. L \in Nat /\ DOMAIN wire = 1 .. L /\ handled \in Nat
  BY <1>0, WireTyped
<1>2. f \in Frames /\ f.kind = "reset" /\ ~Boundary(f)
  BY DEF Frames, Boundary
<1> HIDE DEF f
<1>3. /\ wire' \in Seq(Frames) /\ Len(wire') = L + 1 /\ DOMAIN wire' = 1 .. L + 1 /\ wire' # <<>>
      /\ \A i \in 1 .. L : wire'[i] = wire[i]
      /\ wire'[L + 1] = f
  BY <1>0, <1>2
<1> HIDE DEF L
<1>4. \A i \in DOMAIN wire' : i \in 1 .. L \/ i = L + 1
  BY <1>1, <1>3
<1>5. WellTyped'
  <2>1. losses' \in 0 .. MaxLosses
    BY <1>0, BoundsAssumption DEF WellTyped, TypeOK
  <2>2. TypeOK'
    BY <1>0, <2>1 DEF WellTyped, TypeOK
  <2> QED
    BY <1>0, <1>3, <2>2 DEF WellTyped
<1>6. WholeResults'
  BY <1>0 DEF WholeResults, Synced
<1>7. Connected'
  <2>1. pc = "open"
    BY <1>0 DEF Connected
  <2>2. ASSUME NEW i \in DOMAIN wire' PROVE wire'[i].kind = "snapshot" <=> i = 1 /\ ~loaded
    <3>1. CASE i \in 1 .. L
      BY <1>0, <1>1, <1>3, <3>1 DEF Connected
    <3>2. CASE i = L + 1
      <4>1. i = 1 => L = 0
        BY <1>1, <3>2
      <4>2. L = 0 => wire = <<>>
        BY <1>0, <1>1 DEF L
      <4>3. i = 1 => loaded
        BY <1>0, <2>1, <4>1, <4>2 DEF Connected
      <4> QED
        BY <1>2, <1>3, <3>2, <4>3
    <3> QED
      BY <1>4, <3>1, <3>2
  <2> QED
    BY <1>0, <1>3, <2>1, <2>2 DEF Connected
<1>8. StreamLeads(wire', shown'.res, pending')
  <2>1. SUFFICES ASSUME NEW j \in DOMAIN wire', NEW i \in 0 .. j - 1, Batch(wire', i, j)
                 PROVE  Leads(IF i = 0 THEN shown.res ELSE Base(wire'[i]), IF i = 0 THEN pending ELSE Empty,
                              Changes(wire', i, j), wire'[j].res)
    BY <1>0 DEF StreamLeads
  <2>2. j \in 1 .. L
    BY <1>2, <1>3, <1>4, <2>1 DEF Batch
  <2>3. \A m \in i + 1 .. j - 1 : wire'[m] = wire[m]
    BY <1>1, <1>3, <2>1, <2>2
  <2>4. wire'[j] = wire[j] /\ (i # 0 => wire'[i] = wire[i]) /\ j \in DOMAIN wire
    BY <1>1, <1>3, <2>1, <2>2
  <2>5. Changes(wire', i, j) = Changes(wire, i, j)
    BY <2>3 DEF Changes
  <2>6. Batch(wire, i, j)
    BY <2>1, <2>3, <2>4 DEF Batch
  <2>7. Leads(IF i = 0 THEN shown.res ELSE Base(wire[i]), IF i = 0 THEN pending ELSE Empty, Changes(wire, i, j), wire[j].res)
    BY <1>0, <2>4, <2>6 DEF StreamLeads
  <2> QED
    BY <2>4, <2>5, <2>7
<1>9. DeletesLast(wire')
  <2>1. SUFFICES ASSUME NEW j \in DOMAIN wire', NEW i \in 1 .. j - 1,
                        wire'[i].kind = "change", wire'[i].op = "delete", wire'[j].kind = "change", wire'[j].op # "delete"
                 PROVE  \E m \in i + 1 .. j - 1 : wire'[m].kind # "change"
    BY DEF DeletesLast
  <2>2. j \in 1 .. L
    BY <1>2, <1>3, <1>4, <2>1
  <2>3. i \in 1 .. L /\ \A m \in i + 1 .. j - 1 : m \in 1 .. L
    BY <1>1, <2>1, <2>2
  <2>4. wire'[i] = wire[i] /\ wire'[j] = wire[j] /\ \A m \in i + 1 .. j - 1 : wire'[m] = wire[m]
    BY <1>3, <2>2, <2>3
  <2> QED
    BY <1>0, <1>1, <2>1, <2>2, <2>4 DEF DeletesLast
<1>10. FramesInOrder'
  <2>1. SUFFICES ASSUME NEW i \in DOMAIN wire', wire'[i].kind \in {"change", "up-to-date"}
                 PROVE  /\ wire'[i].txid \in 1 .. handled
                        /\ \A j \in i .. Len(wire') : Boundary(wire'[j]) => wire'[j].at >= wire'[i].txid
    BY <1>0 DEF FramesInOrder
  <2>2. i \in 1 .. L
    BY <1>2, <1>3, <1>4, <2>1
  <2>3. /\ wire'[i] = wire[i] /\ wire[i].txid \in 1 .. handled
        /\ \A j \in i .. L : Boundary(wire[j]) => wire[j].at >= wire[i].txid
    BY <1>0, <1>1, <1>3, <2>1, <2>2 DEF FramesInOrder, L
  <2>4. ASSUME NEW j \in i .. Len(wire'), Boundary(wire'[j]) PROVE wire'[j].at >= wire'[i].txid
    <3>1. j \in i .. L \/ j = L + 1
      BY <1>1, <1>3, <2>2
    <3>2. j \in i .. L /\ j \in 1 .. L
      BY <1>1, <1>2, <1>3, <2>2, <2>4, <3>1
    <3> QED
      BY <1>3, <2>3, <2>4, <3>2
  <2> QED
    BY <2>3, <2>4
<1>11. RecordedIsDue'
  <2>1. Recorded' = Recorded
    BY <1>0 DEF Recorded
  <2>2. \A j \in DOMAIN wire' : Boundary(wire'[j]) => j \in DOMAIN wire /\ wire'[j] = wire[j]
    BY <1>1, <1>2, <1>3, <1>4
  <2> QED
    BY <1>0, <2>1, <2>2 DEF RecordedIsDue
<1> QED
  BY <1>5, <1>6, <1>7, <1>8, <1>9, <1>10, <1>11 DEF ClientInv

-----------------------------------------------------------------------------
(* Transactions commit. *)
LEMMA WrittenResults ==
  ASSUME NEW res \in Results, NEW k \in Keys
  PROVE  Minus(res, k) \in Results /\ \A v \in Vals : Put(res, k, v) \in Results
<1>1. DOMAIN res \subseteq Keys /\ IsFiniteSet(DOMAIN res) /\ res \in [DOMAIN res -> Vals]
  BY ResultFacts
<1>2. IsFiniteSet(DOMAIN res \ {k}) /\ IsFiniteSet(DOMAIN res \cup {k})
  BY <1>1, FS_AddElement, FS_RemoveElement
<1>3. Minus(res, k) \in Results
  <2>1. Minus(res, k) \in [DOMAIN res \ {k} -> Vals] /\ DOMAIN res \ {k} \in SUBSET Keys
    BY <1>1 DEF Minus
  <2> QED
    BY <1>2, <2>1 DEF Results
<1>4. ASSUME NEW v \in Vals PROVE Put(res, k, v) \in Results
  <2>1. Put(res, k, v) \in [DOMAIN res \cup {k} -> Vals] /\ DOMAIN res \cup {k} \in SUBSET Keys
    BY <1>1 DEF Put
  <2> QED
    BY <1>2, <2>1 DEF Results
<1> QED
  BY <1>3, <1>4

LEMMA CommitKeeps ==
  ASSUME ClientInv, NEW res \in Results, NEW owner \in {"ours", "other"}, Commit(res, owner)
  PROVE  ClientInv'
<1> DEFINE S == {"ours", "other", "awaiting", "confirmed", "rejected"}
<1>0. /\ WellTyped /\ hist' = Append(hist, res) /\ status' = Append(status, owner) /\ handled' = handled
      /\ UNCHANGED <<link, pc, loaded, ready, seen, pending, coll, left, shown, txids>>
      /\ hist \in Seq(Results) /\ status \in Seq(S)
  BY DEF ClientInv, WellTyped, Commit, engine
<1>1. /\ handled \in Nat /\ Len(hist) \in Nat /\ Latest \in Nat /\ handled <= Latest
      /\ DOMAIN status = 1 .. Len(status) /\ Len(status) = Latest
  BY <1>0, WireTyped
<1>2. hist' \in Seq(Results) /\ hist' # <<>> /\ Len(hist') = Len(hist) + 1
  BY <1>0
<1>3. Latest' = Latest + 1
  BY <1>1, <1>2 DEF Latest
<1>4. /\ status' \in Seq(S) /\ Len(status') = Len(status) + 1 /\ DOMAIN status' = 1 .. Len(status) + 1
      /\ status'[Len(status) + 1] = owner /\ \A m \in 1 .. Len(status) : status'[m] = status[m]
  BY <1>0
<1>5. \A m \in DOMAIN status' : status'[m] = "confirmed" => m \in DOMAIN status /\ status[m] = "confirmed"
  <2>1. \A m \in DOMAIN status' : m \in 1 .. Len(status) \/ m = Len(status) + 1
    BY <1>1, <1>4
  <2> QED
    BY <1>1, <1>4, <2>1
<1>6. handled' \in Nat /\ handled <= handled' /\ handled' <= Latest' /\ Len(status') = Latest'
  BY <1>0, <1>1, <1>3, <1>4
<1> QED
  BY <1>0, <1>2, <1>4, <1>5, <1>6, AsideKeeps

(* A handler returns its txid, or gives up waiting. *)
LEMMA WaiterKeeps ==
  ASSUME ClientInv, NEW n \in DOMAIN status, Await(n) \/ Timeout(n)
  PROVE  ClientInv'
<1> DEFINE S == {"ours", "other", "awaiting", "confirmed", "rejected"}
<1>0. /\ WellTyped /\ UNCHANGED <<hist, handled, link, pc, loaded, ready, seen, pending, coll, left, shown, txids>>
      /\ Latest' = Latest /\ status \in Seq(S) /\ hist \in Seq(Results) /\ hist # <<>>
  BY DEF ClientInv, WellTyped, Await, Timeout, engine, server, Latest
<1>1. /\ handled \in Nat /\ Latest \in Nat /\ handled <= Latest
      /\ DOMAIN status = 1 .. Len(status) /\ Len(status) = Latest
  BY <1>0, WireTyped
<1>2. PICK s \in S : /\ DOMAIN status' = DOMAIN status /\ status'[n] = s
                     /\ \A m \in DOMAIN status : m # n => status'[m] = status[m]
                     /\ status' = [m \in DOMAIN status |-> status'[m]]
                     /\ s = "confirmed" => \E i \in DOMAIN txids : txids[i] = n
  BY DEF Await, Timeout
<1>3. /\ status' \in Seq(S) /\ Len(status') = Len(status) /\ DOMAIN status' = DOMAIN status
      /\ status'[n] = s /\ \A m \in DOMAIN status : m # n => status'[m] = status[m]
  <2>1. \A m \in DOMAIN status : status[m] \in S /\ status'[m] \in S
    BY <1>0, <1>2
  <2>2. status' \in [1 .. Len(status) -> S] /\ Len(status) \in Nat
    BY <1>0, <1>1, <1>2, <2>1
  <2>3. status' \in Seq(S) /\ Len(status') = Len(status)
    BY <2>2
  <2> QED
    BY <1>2, <2>3
<1>4. \A m \in DOMAIN status' : status'[m] = "confirmed" =>
          (m \in DOMAIN status /\ status[m] = "confirmed") \/ \E i \in DOMAIN txids : txids[i] = m
  BY <1>2, <1>3
<1>5. handled' \in Nat /\ handled <= handled' /\ handled' <= Latest' /\ Len(status') = Latest'
      /\ hist' \in Seq(Results) /\ hist' # <<>>
  BY <1>0, <1>1, <1>3
<1> QED
  BY <1>0, <1>3, <1>4, <1>5, AsideKeeps

(* Steps of the server and the client that leave the stream alone. *)
LEMMA OtherAsideKeeps ==
  ASSUME ClientInv, \/ Handle /\ last = Unsubscribed
                    \/ ConnectFails
                    \/ UNCHANGED vars
  PROVE  ClientInv'
<1>0. /\ WellTyped /\ UNCHANGED <<hist, link, pc, loaded, seen, pending, coll, left, shown, txids, status>>
      /\ ready => ready'
      /\ handled' = handled \/ (handled < Latest /\ handled' = handled + 1)
      /\ Latest' = Latest /\ hist \in Seq(Results) /\ hist # <<>>
      /\ status \in Seq({"ours", "other", "awaiting", "confirmed", "rejected"})
  BY DEF ClientInv, WellTyped, Handle, ConnectFails, vars, server, link, engine, tracker, Latest
<1>1. handled \in Nat /\ Latest \in Nat /\ handled <= Latest /\ Len(status) = Latest
  BY <1>0, WireTyped
<1>2. handled' \in Nat /\ handled <= handled' /\ handled' <= Latest' /\ Len(status') = Latest'
      /\ hist' \in Seq(Results) /\ hist' # <<>>
  BY <1>0, <1>1
<1> QED
  BY <1>0, <1>2, AsideKeeps

(* Steps that end the connection, whatever ends it. *)
LEMMA EndingKeeps ==
  ASSUME ClientInv, Break \/ SnapshotRefused \/ FlushRefused \/ Truncate \/ Stop
  PROVE  ClientInv'
<1>0. /\ WellTyped /\ FramesInOrder /\ seen \subseteq Keys /\ DOMAIN coll \subseteq Keys /\ losses \in 0 .. MaxLosses
      /\ wire \in Seq(Frames)
  BY DEF ClientInv, WellTyped, TypeOK
<1>1. /\ UNCHANGED server /\ wire' = <<>> /\ last' = Unsubscribed /\ pending' = Empty /\ loaded' = FALSE
      /\ pc' \in {"waiting", "stopped"} /\ left' = coll' /\ shown' = shown
  BY DEF Break, SnapshotRefused, FlushRefused, Truncate, Stop, Disconnect
<1>2. losses' \in 0 .. MaxLosses
  <2>1. CASE Break
    BY <1>0, <2>1, BoundsAssumption DEF Break
  <2>2. CASE ~Break
    <3>1. losses' = losses
      BY <2>2 DEF SnapshotRefused, FlushRefused, Truncate, Stop
    <3> QED
      BY <1>0, <3>1
  <2> QED
    BY <2>1, <2>2
<1>3. seen' \subseteq Keys /\ DOMAIN coll' \subseteq Keys
  <2>1. coll' = coll \/ coll' = Empty
    BY DEF Break, SnapshotRefused, FlushRefused, Truncate, Stop, Disconnect
  <2>2. seen' = seen \/ seen' = {}
    BY DEF Break, SnapshotRefused, FlushRefused, Truncate, Stop
  <2> QED
    BY <1>0, <2>1, <2>2, EmptyFacts
<1>4. UNCHANGED tracker \/ \E n \in 1 .. handled : Record(n)
  <2>1. CASE FlushRefused
    <3>1. Head(wire) = wire[1] /\ wire # <<>> /\ 1 \in DOMAIN wire
      BY <1>0, <2>1, TailFacts DEF FlushRefused, Frame
    <3>2. wire[1].kind = "up-to-date" /\ Record(wire[1].txid)
      BY <2>1, <3>1 DEF FlushRefused, Frame
    <3>3. wire[1].txid \in 1 .. handled
      BY <1>0, <3>1, <3>2 DEF FramesInOrder
    <3> QED
      BY <3>2, <3>3
  <2>2. CASE ~FlushRefused
    BY <2>2 DEF Break, SnapshotRefused, Truncate, Stop
  <2> QED
    BY <2>1, <2>2
<1> QED
  BY <1>1, <1>2, <1>3, <1>4, DisconnectKeeps

LEMMA ClientNextKeeps == ClientInv /\ [Next]_vars => ClientInv'
<1> SUFFICES ASSUME ClientInv, [Next]_vars PROVE ClientInv'
  OBVIOUS
<1>1. ASSUME NEW owner \in {"ours", "other"}, Write(owner) PROVE ClientInv'
  <2>1. Now \in Results
    BY WireTyped DEF ClientInv
  <2>2. PICK k \in Keys : \/ \E v \in Vals : Commit(Put(Now, k, v), owner)
                          \/ Commit(Minus(Now, k), owner)
    BY <1>1 DEF Write
  <2>3. Minus(Now, k) \in Results /\ \A v \in Vals : Put(Now, k, v) \in Results
    BY <2>1, WrittenResults
  <2> QED
    BY <2>2, <2>3, CommitKeeps
<1>2. CASE Handle
  BY <1>2, HandleKeeps, OtherAsideKeeps
<1>3. CASE Reset
  BY <1>3, ResetKeeps
<1>4. CASE Connect
  BY <1>4, ConnectKeeps
<1>5. CASE ConnectFails \/ UNCHANGED vars
  BY <1>5, OtherAsideKeeps
<1>6. CASE Snapshot
  BY <1>6, SnapshotKeeps
<1>7. CASE Upsert
  BY <1>7, UpsertKeeps
<1>8. CASE Delete
  BY <1>8, DeleteKeeps
<1>9. CASE Flush
  BY <1>9, FlushKeeps
<1>10. CASE Break \/ SnapshotRefused \/ FlushRefused \/ Truncate \/ Stop
  BY <1>10, EndingKeeps
<1>11. ASSUME NEW n \in DOMAIN status, Await(n) \/ Timeout(n) PROVE ClientInv'
  BY <1>11, WaiterKeeps
<1> QED
  BY <1>1, <1>2, <1>3, <1>4, <1>5, <1>6, <1>7, <1>8, <1>9, <1>10, <1>11 DEF Next, Read

THEOREM ClientInvariant == Spec => []ClientInv
BY ClientInitHolds, ClientNextKeeps, PTL DEF Spec

-----------------------------------------------------------------------------
(* Types: rows, keys and positions stay in range, and however many         *)
(* transactions are confirmed the tracker of txid.ts holds at most MaxSeen *)
(* of them.                                                                *)
THEOREM ClientTypeCorrect == Spec => []TypeOK
<1>1. ClientInv => TypeOK
  BY DEF ClientInv, WellTyped
<1> QED
  BY <1>1, ClientInvariant, PTL

(* The collection shows whole transactions: between boundary frames the    *)
(* rows of the connection are exactly the result the last snapshot or      *)
(* up-to-date stands for, for any keying of the server's rows, any batch   *)
(* half read, and across breaks, resets, refusals and reconnects; a row    *)
(* that is not of the connection is as the last one left it.               *)
THEOREM RowsAreWhole == Spec => []WholeResults
<1>1. ClientInv => WholeResults
  BY DEF ClientInv
<1> QED
  BY <1>1, ClientInvariant, PTL

(* A confirmed write is on the screen: when no batch is half read, the     *)
(* result shown includes every transaction whose optimistic copy was       *)
(* dropped, though its txid may have been recorded on a connection that    *)
(* broke before the batch was flushed.                                     *)
THEOREM ConfirmedWritesShown == Spec => []ConfirmedIsShown
<1>1. ClientInv => ConfirmedIsShown
  <2> SUFFICES ASSUME ClientInv, loaded, pending = Empty, NEW n \in DOMAIN status, status[n] = "confirmed"
               PROVE  shown.at >= n
    BY DEF ConfirmedIsShown
  <2>1. WellTyped /\ RecordedIsDue
    BY DEF ClientInv
  <2>2. DOMAIN status = 1 .. Len(status) /\ handled \in Nat
    BY <2>1, WireTyped
  <2>3. n \in Recorded
    BY <2>1, <2>2 DEF RecordedIsDue, Recorded
  <2> QED
    BY <2>1, <2>3 DEF RecordedIsDue
<1> QED
  BY <1>1, ClientInvariant, PTL

==============================================================================
