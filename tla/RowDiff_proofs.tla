--------------------------- MODULE RowDiff_proofs ---------------------------
(***************************************************************************)
(* What a cycle of deltas does to a reader, for results of any size.       *)
(***************************************************************************)
EXTENDS RowDiff, TLAPS

IsMap(f) == f = [k \in DOMAIN f |-> f[k]]

Inserted(prev, next) == DOMAIN next \ DOMAIN prev

Updated(prev, next) == {x \in DOMAIN next \cap DOMAIN prev : prev[x] # next[x]}

(* The upserts are the new and the changed rows, each with its new row. *)
LEMMA UpsertsOfDiff ==
  ASSUME NEW prev, NEW next
  PROVE  /\ KeysOf(Upserts(Diff(prev, next))) = Inserted(prev, next) \cup Updated(prev, next)
         /\ \A d \in Upserts(Diff(prev, next)) : d.row = next[d.key]
<1>1. \A d \in Upserts(Diff(prev, next)) :
        /\ d.key \in Inserted(prev, next) \cup Updated(prev, next)
        /\ d.row = next[d.key]
  BY DEF Upserts, Diff, Inserted, Updated
<1>2. ASSUME NEW k \in Inserted(prev, next) \cup Updated(prev, next)
      PROVE  \E d \in Upserts(Diff(prev, next)) : d.key = k
  <2>1. CASE k \in Inserted(prev, next)
    <3> DEFINE d == [op |-> "insert", key |-> k, row |-> next[k]]
    <3>1. d \in Upserts(Diff(prev, next)) /\ d.key = k
      BY <2>1 DEF Upserts, Diff, Inserted
    <3> QED
      BY <3>1
  <2>2. CASE k \in Updated(prev, next)
    <3> DEFINE d == [op |-> "update", key |-> k, row |-> next[k]]
    <3>1. d \in Upserts(Diff(prev, next)) /\ d.key = k
      BY <2>2 DEF Upserts, Diff, Updated
    <3> QED
      BY <3>1
  <2> QED
    BY <2>1, <2>2
<1> QED
  BY <1>1, <1>2 DEF KeysOf

(* The deletes are the rows that are gone. *)
LEMMA DeletesOfDiff ==
  ASSUME NEW prev, NEW next
  PROVE  KeysOf(Deletes(Diff(prev, next))) = DOMAIN prev \ DOMAIN next
<1>1. \A d \in Deletes(Diff(prev, next)) : d.key \in DOMAIN prev \ DOMAIN next
  BY DEF Deletes, Diff
<1>2. ASSUME NEW k \in DOMAIN prev \ DOMAIN next
      PROVE  \E d \in Deletes(Diff(prev, next)) : d.key = k
  <2> DEFINE d == [op |-> "delete", key |-> k, row |-> prev[k]]
  <2>1. d \in Deletes(Diff(prev, next)) /\ d.key = k
    BY DEF Deletes, Diff
  <2> QED
    BY <2>1
<1> QED
  BY <1>1, <1>2 DEF KeysOf

(* diff is complete and exact: a reader that holds prev and applies one    *)
(* cycle of deltas holds next, whatever was inserted, changed and deleted. *)
THEOREM DiffLeadsToNext ==
  ASSUME NEW prev, NEW next, IsMap(next)
  PROVE  ApplyDeltas(prev, Diff(prev, next)) = next
<1> DEFINE D == Diff(prev, next)
           ups == KeysOf(Upserts(D))
           dels == KeysOf(Deletes(D))
<1>1. /\ ups = Inserted(prev, next) \cup Updated(prev, next)
      /\ \A d \in Upserts(D) : d.row = next[d.key]
      /\ dels = DOMAIN prev \ DOMAIN next
  BY UpsertsOfDiff, DeletesOfDiff
<1>2. (DOMAIN prev \cup ups) \ dels = DOMAIN next
  BY <1>1 DEF Inserted, Updated
<1>3. ASSUME NEW k \in DOMAIN next
      PROVE  (IF k \in ups THEN (CHOOSE d \in Upserts(D) : d.key = k).row ELSE prev[k]) = next[k]
  <2>1. CASE k \in ups
    <3>1. \E d \in Upserts(D) : d.key = k
      BY <2>1 DEF KeysOf
    <3>2. (CHOOSE d \in Upserts(D) : d.key = k).row = next[k]
      BY <1>1, <3>1
    <3> QED
      BY <2>1, <3>2
  <2>2. CASE k \notin ups
    BY <1>1, <1>3, <2>2 DEF Inserted, Updated
  <2> QED
    BY <2>1, <2>2
<1>4. ApplyDeltas(prev, D) = [k \in DOMAIN next |-> next[k]]
  BY <1>2, <1>3 DEF ApplyDeltas
<1> QED
  BY <1>4 DEF IsMap

=============================================================================
