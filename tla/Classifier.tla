----------------------------- MODULE Classifier -----------------------------
(***************************************************************************)
(* capability/classify.rs: which statements the cache accepts and what it  *)
(* keeps of one for the version index.  A request's text comes parsed      *)
(* (sqlparser, external); all but statements and reads is of its first     *)
(* statement:                                                              *)
(*   statements how many the text holds                                    *)
(*   kind       "query", or another statement                              *)
(*   locks      FOR UPDATE or FOR SHARE                                    *)
(*   body       "select", "into" (SELECT INTO), "setop" (UNION, VALUES)    *)
(*   ctes       the names of its WITH clause                               *)
(*   functions  the functions called anywhere in it                        *)
(*   relations  the names read anywhere in it, one entry per mention       *)
(*   reads      the tables the database reads for the text                 *)
(*   where      the WHERE clause of its body, a tree                       *)
(*   params     the values bound to $1, $2, ...                            *)
(* Names are bare and in lower case.                                       *)
(***************************************************************************)
EXTENDS VersionIndex, Functions

CONSTANTS
    Replicated,   \* the tables that can be read from this cache
    Refusable     \* SIDE_EFFECTING and VOLATILE_READ

-----------------------------------------------------------------------------
(* literal_value and placeholder_value: a filter's text, as a set that is  *)
(* empty where the code has None.                                          *)
FilterValue(o, params) ==
    CASE o.is = "literal" /\ o.type \in {"number", "string", "boolean"} -> {o}
      [] o.is = "param" /\ o.index \in DOMAIN params ->
           {p \in {params[o.index]} : p.type \in {"integer", "string"}}
      [] OTHER -> {}

(* column = value; a column on the left is tried first. *)
EqFilters(e, params) ==
    LET Filters(c, o) == {[col |-> c.name, val |-> v.val, text |-> v.text] : v \in FilterValue(o, params)}
        Named(c, o) == IF c.is = "column" THEN Filters(c, o) ELSE {}
    IN  IF Named(e.left, e.right) # {} THEN Named(e.left, e.right) ELSE Named(e.right, e.left)

(* The loop pops what it pushed last: the right side of an AND comes       *)
(* first.  Nothing below any other operator is looked at.                  *)
RECURSIVE collect_eq_filters(_, _)
collect_eq_filters(e, params) ==
    CASE e.op = "and" -> collect_eq_filters(e.right, params) \o collect_eq_filters(e.left, params)
      [] e.op = "nested" -> collect_eq_filters(e.inner, params)
      [] e.op = "=" /\ EqFilters(e, params) # {} -> <<CHOOSE f \in EqFilters(e, params) : TRUE>>
      [] OTHER -> <<>>

(* What the database makes of the clause.  A comparison with NULL is not   *)
(* true, and there is no negation here to tell it from false.              *)
Operand(o, params, r) ==
    CASE o.is = "column" -> r[o.name]
      [] o.is = "literal" -> o.val
      [] o.is = "param" -> params[o.index].val

RECURSIVE Holds(_, _, _)
Holds(e, params, r) ==
    CASE e.op = "and" -> Holds(e.left, params, r) /\ Holds(e.right, params, r)
      [] e.op = "or" -> Holds(e.left, params, r) \/ Holds(e.right, params, r)
      [] e.op = "nested" -> Holds(e.inner, params, r)
      [] e.op = "=" -> /\ Operand(e.left, params, r) = Operand(e.right, params, r)
                       /\ Operand(e.left, params, r) # Null
      [] e.op = "is null" -> Operand(e.left, params, r) = Null
      [] e.op = "true" -> TRUE

-----------------------------------------------------------------------------
TablesOf(s) == Range(s.relations) \ s.ctes

(* ReadClassifier::classify refuses everything else. *)
Accepts(s) ==
    /\ s.statements = 1 /\ s.kind = "query" /\ ~s.locks /\ s.body # "into"
    /\ s.functions \cap Refusable = {}
    /\ TablesOf(s) \subseteq Replicated

classify(s) ==
    [tables |-> TablesOf(s),
     eq     |-> IF s.body = "select" THEN collect_eq_filters(s.where, s.params) ELSE <<>>,
     wide   |-> Len(s.relations) > 1 \/ s.ctes # {} \/ s.body # "select",
     reads  |-> s.reads,
     keep   |-> {r \in Row : Holds(s.where, s.params, r)}]
=============================================================================
