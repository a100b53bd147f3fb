------------------------------ MODULE MCLiveHub ------------------------------
EXTENDS LiveHub

CONSTANTS c1, c2, v1, v2, k1

(* A join of two tables, whose rows are keyed by their content. *)
Join == [tables |-> {"a", "b"}, pk |-> FALSE]

OneQuery == {Join}

(* A row of one of its tables is written, or rows of both, or a row of     *)
(* another table.                                                          *)
SomeTxns == {{<<"a", k1, v1>>}, {<<"a", k1, v2>>, <<"b", k1, v1>>}, {<<"c", k1, v1>>}}

(* The transaction that began first commits last. *)
Overlapping == <<8, 7>>
=============================================================================
