--------------------------- MODULE MCVersionIndex ---------------------------
(* Two tables: `orders` with primary key id under the default replica      *)
(* identity, `events` without a key under REPLICA IDENTITY FULL.           *)
EXTENDS Classifier

MCPK == [t \in {"orders"} |-> "id"]

MCText == [v \in Values |-> IF v THEN "t" ELSE "f"]

R(i, g) == [c \in Columns |-> IF c = "id" THEN i ELSE g]

MCRow == {R(TRUE, TRUE), R(TRUE, FALSE), R(FALSE, TRUE), R(FALSE, Null)}

MCInitialDbs ==
    {[t \in Tables |-> {}],
     [t \in Tables |-> IF t = "orders" THEN {R(TRUE, FALSE)} ELSE {R(FALSE, TRUE), R(FALSE, Null)}]}

-----------------------------------------------------------------------------
Column(n) == [is |-> "column", name |-> n]
Literal(v) == [is |-> "literal", type |-> "string", val |-> v, text |-> MCText[v]]
NullLiteral == [is |-> "literal", type |-> "null", val |-> Null]
Param(i) == [is |-> "param", index |-> i]

(* literal_value writes `true`, pgoutput writes `t`. *)
BooleanLiteral == [is |-> "literal", type |-> "boolean", val |-> TRUE, text |-> "true"]

MCParams == << [type |-> "string", val |-> TRUE, text |-> "t"], [type |-> "boolean", val |-> TRUE] >>

Eq(a, b) == [op |-> "=", left |-> a, right |-> b]
And(a, b) == [op |-> "and", left |-> a, right |-> b]
Or(a, b) == [op |-> "or", left |-> a, right |-> b]
Nested(a) == [op |-> "nested", inner |-> a]
IsNull(n) == [op |-> "is null", left |-> Column(n)]
Every == [op |-> "true"]

Leaves ==
    {Eq(Column("id"), Literal(TRUE)), Eq(Literal(TRUE), Column("tag")), Eq(Column("id"), Column("tag")),
     Eq(Column("tag"), Param(1)), Eq(Column("tag"), Param(2)), Eq(Column("tag"), NullLiteral), IsNull("tag")}

Trees(S) ==
    S \cup {Nested(a) : a \in S} \cup {And(x[1], x[2]) : x \in S \X S} \cup {Or(x[1], x[2]) : x \in S \X S}

(* collect_eq_filters against the meaning of the clause, for every tree of *)
(* three levels: a filter it collects holds of every row the clause keeps. *)
ASSUME FiltersHold ==
    \A s \in Trees(Leaves), l \in Leaves, r \in MCRow :
        \A e \in {And(s, l), And(l, s), Or(s, l), Or(l, Nested(s)), And(Nested(s), l)} :
            Holds(e, MCParams, r) =>
                \A f \in Range(collect_eq_filters(e, MCParams)) : r[f.col] = f.val

Select(rels, e) ==
    [statements |-> 1, kind |-> "query", locks |-> FALSE, body |-> "select", ctes |-> {}, functions |-> {},
     relations |-> rels, reads |-> Range(rels) \cap Tables, where |-> e, params |-> MCParams]

Classified(S) == {classify(s) : s \in {x \in S : Accepts(x)}}

(* Anchored by primary key (by the second filter), by a full-identity      *)
(* column from a parameter, by nothing though a disjunct names the key,    *)
(* not anchorable, and over two tables.                                    *)
Plain ==
    {Select(<<"orders">>, And(Eq(Column("id"), Literal(TRUE)), Eq(Column("tag"), Literal(TRUE)))),
     Select(<<"orders">>, Or(Eq(Column("id"), Literal(TRUE)), Eq(Column("tag"), Literal(TRUE)))),
     Select(<<"events">>, Nested(Eq(Column("tag"), Param(1)))),
     Select(<<"events">>, Eq(Column("tag"), Param(2))),
     Select(<<"orders", "events">>, Eq(Column("id"), Literal(TRUE)))}

(* Two statements of which the second reads another table, a locking read, *)
(* SELECT INTO, a write, a function with effects, a table that is not      *)
(* replicated.                                                             *)
Refused ==
    {[Select(<<"orders">>, Every) EXCEPT !.statements = 2, !.reads = {"orders", "events"}],
     [Select(<<"orders">>, Every) EXCEPT !.locks = TRUE],
     [Select(<<"orders">>, Every) EXCEPT !.body = "into"],
     [Select(<<"orders">>, Every) EXCEPT !.kind = "update"],
     [Select(<<"orders">>, Every) EXCEPT !.functions = {"nextval"}],
     Select(<<"drafts">>, Every)}

FaithfulOnly == Classified(Plain \cup Refused)

(* select ... from orders a join orders b ... where a.id = ..., the same   *)
(* through WITH, a WITH clause that shadows the table it reads, and        *)
(* select ... from events where tag = true.                                *)
Unfaithful ==
    Classified(
        {Select(<<"orders", "orders">>, Eq(Column("id"), Literal(TRUE))),
         [Select(<<"orders", "o">>, Eq(Column("id"), Literal(TRUE))) EXCEPT !.ctes = {"o"}],
         [Select(<<"orders", "orders">>, Every) EXCEPT !.ctes = {"orders"}],
         Select(<<"events">>, Eq(Column("tag"), BooleanLiteral))})
=============================================================================
