-------------------------- MODULE MCSqlOperations --------------------------
EXTENDS SqlOperations, TLC

CONSTANTS r1, r2, c1, public, member, super, ghost, t1, t2, t3, t4, owner

MCRoleKind == public :> "plain" @@ member :> "plain" @@ super :> "superuser"
                  @@ ghost :> "unknown"

(* The tokens of a member, a superuser, a role that is gone, and one       *)
(* without a role.                                                         *)
MCRoleClaim == t1 :> member @@ t2 :> super @@ t3 :> ghost @@ t4 :> None

Plain ==
    [oversized |-> FALSE, count |-> 1, kind |-> "insert", returning |-> None, semicolon |-> FALSE,
     params |-> {}, changes |-> TRUE, duplicated |-> FALSE, large |-> FALSE]

Select == [Plain EXCEPT !.kind = "query", !.changes = FALSE]

(* A change with too large a result, one with RETURNING id, id, a query    *)
(* with equal names, one that ends in a semicolon, BEGIN, and a parameter  *)
(* that does not bind.                                                     *)
MCStatements ==
    { Plain, Select,
      [Plain EXCEPT !.kind = "update", !.returning = <<"id">>, !.large = TRUE],
      [Plain EXCEPT !.kind = "delete", !.returning = <<"id", "id">>],
      [Select EXCEPT !.duplicated = TRUE, !.params = {<<"int", "int4">>}],
      [Select EXCEPT !.semicolon = TRUE],
      [Plain EXCEPT !.kind = "connection", !.changes = FALSE],
      [Plain EXCEPT !.kind = "ddl", !.params = {<<"real", "int8">>}] }

Read == [private |-> TRUE, joins |-> TRUE, duplicated |-> FALSE, params |-> {}]

Sql(statements, bearers, headers) == [via : {"sql"}, bearer : bearers, headers : headers, stmt : statements]

MCAsks ==
    Sql(MCStatements, {None, t1}, {{"h"}})
        \cup Sql({Plain}, {t2, t3, t4, "invalid"}, {{}})
        \cup [via : {"live"}, bearer : {None}, headers : {{"h", "unb-peer"}, {"unb-peer"}}, stmt : {Read}]
        \cup [via : {"http"}, bearer : {None, t1}, headers : {{"h"}}, stmt : {[Read EXCEPT !.private = FALSE]}]
        \cup [via : {"http"}, bearer : {t1}, headers : {{}}, stmt : {[Read EXCEPT !.duplicated = TRUE]}]
=============================================================================
