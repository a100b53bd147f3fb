------------------------------ MODULE RowDiff ------------------------------
(***************************************************************************)
(* capability/diff.rs.  A result is held as a map from row key to row;     *)
(* `diff` turns two of them into the deltas a live stream carries.         *)
(* ApplyDeltas is what those deltas mean to a reader of the stream.        *)
(***************************************************************************)

(* diff: inserts and updates for the keys of next, deletes for the keys    *)
(* that are gone.  Every key occurs in at most one delta, so the order in  *)
(* which the hash maps are walked is not part of the result.               *)
Diff(prev, next) ==
    {[op |-> "insert", key |-> k, row |-> next[k]] : k \in DOMAIN next \ DOMAIN prev}
    \cup {[op |-> "update", key |-> k, row |-> next[k]] :
             k \in {x \in DOMAIN next \cap DOMAIN prev : prev[x] # next[x]}}
    \cup {[op |-> "delete", key |-> k, row |-> prev[k]] : k \in DOMAIN prev \ DOMAIN next}

Upserts(deltas) == {d \in deltas : d.op # "delete"}

Deletes(deltas) == {d \in deltas : d.op = "delete"}

KeysOf(deltas) == {d.key : d \in deltas}

(* The view of a reader that had `view` and applies one cycle of deltas. *)
ApplyDeltas(view, deltas) ==
    [k \in (DOMAIN view \cup KeysOf(Upserts(deltas))) \ KeysOf(Deletes(deltas)) |->
        IF k \in KeysOf(Upserts(deltas))
        THEN (CHOOSE d \in Upserts(deltas) : d.key = k).row
        ELSE view[k]]
=============================================================================
