--------------------------- MODULE SqlOperations ---------------------------
(***************************************************************************)
(* pgpaw.sql requests and scoped reads over the pool of one PGlite: who    *)
(* may ask (auth.rs), what a statement may be (sql_validate.rs), the role  *)
(* check and the replica gate (sql.rs), the transaction a statement runs   *)
(* in (rows.rs), and the deadline that may drop a request at any await     *)
(* (unb.rs).  The pool, transactions and what becomes of a dropped one are *)
(* the engine's (external).                                                *)
(***************************************************************************)
EXTENDS Naturals, Sequences, FiniteSets

CONSTANTS
    Requests,
    Conns,       \* the pool
    Asks,        \* what may be asked, see AskType
    Roles,
    RoleKind,    \* what the catalog says of each role
    PublicRole,  \* DEFAULT_PUBLIC_ROLE
    Owner,       \* the role of the pool's sessions, "postgres"
    Tokens,      \* tokens the verifier's key accepts, with their claims
    RoleClaim,   \* RoleClaim[t]: the role claim of t, or None
    Auth,        \* the verification options that were given
    None

VARIABLES
    replica,    \* the node serves a read replica
    ask,        \* ask[r]: what r asks, or None before it arrives
    pc,         \* where the handler of r is
    job,        \* the transaction r is about to run or runs
    todo,       \* todo[r]: the settings begin_scoped has still to make
    fail,       \* fail[r]: the error r answers once it has rolled back
    reply,      \* reply[r]: the answer, or None
    holder,     \* holder[c]: the request whose transaction c carries, or None
    local,      \* local[c]: the settings in force on c
    wrote,      \* connections whose open transaction has changed data
    dropped,    \* connections whose transaction was let go unfinished
    committing, \* those of them with a COMMIT on the way
    committed,  \* committed[r]: how often a change of r took effect
    ran         \* ran[r]: the transactions of r with the settings they ran under

vars == <<replica, ask, pc, job, todo, fail, reply, holder, local, wrote, dropped, committing, committed, ran>>

requestVars == <<replica, ask, pc, job, todo, fail, reply>>
poolVars == <<holder, local, wrote, dropped, committing, committed, ran>>

-----------------------------------------------------------------------------
(* Requests *)

Kinds == {"query", "insert", "update", "delete", "ddl", "connection", "other"}

(* A statement as sqlparser and the database see it: its size, the number  *)
(* of statements in the text, RETURNING (None, or its output names, "*"    *)
(* for a wildcard), a trailing semicolon, its parameters with the types    *)
(* they meet, and what it does when it runs.                               *)
StatementType ==
    [oversized : BOOLEAN, count : 0 .. 2, kind : Kinds, returning : {None} \cup Seq(STRING),
     semicolon : BOOLEAN, params : SUBSET (STRING \X STRING),
     changes : BOOLEAN, duplicated : BOOLEAN, large : BOOLEAN]

(* A read as prepare has classified it. *)
ReadType == [private : BOOLEAN, joins : BOOLEAN, duplicated : BOOLEAN, params : SUBSET (STRING \X STRING)]

AskType ==
    [via : {"sql"}, bearer : Tokens \cup {None, "invalid"}, headers : SUBSET STRING, stmt : StatementType]
        \cup [via : {"live", "http"}, bearer : Tokens \cup {None, "invalid"}, headers : SUBSET STRING, stmt : ReadType]

-----------------------------------------------------------------------------
(* auth.rs *)

(* One of three options at most; a key set by url is not implemented. *)
build ==
    IF Cardinality(Auth) > 1 \/ "jwks_url" \in Auth THEN "error"
    ELSE IF Auth = {} THEN "none" ELSE "verifier"

(* No token is nobody; a token needs a verifier, its key and a role claim. *)
Authentic(a) ==
    \/ a.bearer = None
    \/ build = "verifier" /\ a.bearer \in Tokens /\ RoleClaim[a.bearer] # None

Anonymous(a) == a.bearer = None

Privileged == {"superuser", "bypassrls", "database_owner"}

ASSUME SqlAssumption ==
    /\ Asks \subseteq AskType
    /\ build # "error"
    /\ None \notin Requests /\ None \notin Tokens
    /\ None \notin {"Unauthorized", "Rejected", "Forbidden"}
    /\ None \notin {"ok", "invalid_input", "unauthorized", "busy", "internal"}
    /\ PublicRole \in Roles
    /\ RoleKind \in [Roles -> {"plain", "unknown"} \cup Privileged]
    /\ RoleClaim \in [Tokens -> Roles \cup {None}]

-----------------------------------------------------------------------------
(* sql_validate.rs *)

(* At most one wildcard, and then nothing else; no name twice. *)
DistinctReturning(items) ==
    /\ (\E i \in DOMAIN items : items[i] = "*") => Len(items) = 1
    /\ \A i, j \in DOMAIN items : items[i] = items[j] => i = j

Valid(s) ==
    /\ ~s.oversized
    /\ s.count = 1
    /\ s.kind # "connection"
    /\ s.kind \in {"insert", "update", "delete"} /\ s.returning # None => DistinctReturning(s.returning)

(* The way run_sql_as will run it: a query (whatever its WITH clause and   *)
(* its body do), a change with or without RETURNING, or as it is.          *)
shape(s) ==
    CASE s.kind = "query" -> "SELECT"
      [] s.kind \in {"insert", "update", "delete"} -> IF s.returning # None THEN "returning" ELSE "counted"
      [] OTHER -> "plain"

-----------------------------------------------------------------------------
(* rows.rs: parameters, scope, errors *)

(* JsonParam::to_sql: which JSON values bind to which PostgreSQL types.    *)
(* "int" fits every integer type, "long" only 64 bits, "huge" none.        *)
Binds(p) ==
    LET value == p[1]
        type == p[2]
    IN  \/ value = "null"
        \/ type = "bool" /\ value = "true"
        \/ type \in {"int2", "int4"} /\ value = "int"
        \/ type = "int8" /\ value \in {"int", "long"}
        \/ type \in {"float4", "float8"} /\ value \in {"int", "long", "huge", "real"}
        \/ type \in {"text", "json", "jsonb"}

(* wire_headers: the transport's own names are not passed on, and HTTP     *)
(* reads pass none.                                                        *)
Headers(a) == IF a.via = "http" THEN {} ELSE {h \in a.headers : h # "unb-peer"}

RoleOf(a) == IF Anonymous(a) THEN PublicRole ELSE RoleClaim[a.bearer]

Identified(a) == ~Anonymous(a) \/ Headers(a) # {}

(* A read of nobody runs outside of any scope, and so does the read itself *)
(* of a public query that came by HTTP.                                    *)
Scoped(a, j) ==
    \/ a.via = "sql"
    \/ Identified(a) /\ (a.via = "http" => j = "probe" \/ a.stmt.private)

SQL_DEADLINE_SECS == 30

(* The settings of a session; a timeout of 0 is none. *)
Default == [timeout |-> 0, claims |-> None, headers |-> {}, role |-> Owner]

(* The definitions named ...Fault are deliberate faults; the model does    *)
(* not use them.                                                           *)

(* Fault: the role is set for principals only. *)
ScopeFault(a) ==
    IF Anonymous(a)
    THEN <<<<"timeout", SQL_DEADLINE_SECS>>, <<"headers", Headers(a)>>>>
    ELSE <<<<"timeout", SQL_DEADLINE_SECS>>, <<"claims", a.bearer>>, <<"headers", Headers(a)>>, <<"role", RoleOf(a)>>>>

(* The SET LOCALs of begin_scoped, in order. *)
Scope(a) ==
    IF Anonymous(a)
    THEN <<<<"timeout", SQL_DEADLINE_SECS>>, <<"headers", Headers(a)>>, <<"role", RoleOf(a)>>>>
    ELSE <<<<"timeout", SQL_DEADLINE_SECS>>, <<"claims", a.bearer>>, <<"headers", Headers(a)>>, <<"role", RoleOf(a)>>>>

DbErrors == {"denied", "database"}

(* map_db_denial, which covers run_sql_as and the scoped read and not the  *)
(* role check and the probe for duplicate columns.                         *)
Mapped(j, e) == IF e = "denied" /\ j # "probe" THEN "Forbidden" ELSE IF e \in DbErrors THEN "Pglite" ELSE e

(* handler_error; HTTP's error_status draws the same lines. *)
Code(e) ==
    CASE e = "Rejected" -> "invalid_input"
      [] e \in {"Unauthorized", "Forbidden"} -> "unauthorized"
      [] OTHER -> "internal"

-----------------------------------------------------------------------------
(* The pool *)

At(r, label) == pc[r] = label

Answer(r, code) ==
    /\ pc' = [pc EXCEPT ![r] = "answered"]
    /\ reply' = [reply EXCEPT ![r] = code]

(* The connection of an unfinished request, if it has one. *)
Carries(r, c) == holder[c] = r /\ c \notin dropped

(* Fault: the settings are those of the session, not of the transaction. *)
EndTransactionFault(c) ==
    /\ holder' = [holder EXCEPT ![c] = None]
    /\ wrote' = wrote \ {c}
    /\ UNCHANGED local

(* Commit, rollback or recovery: what was set LOCAL is gone. *)
EndTransaction(c) ==
    /\ holder' = [holder EXCEPT ![c] = None]
    /\ local' = [local EXCEPT ![c] = Default]
    /\ wrote' = wrote \ {c}

Count(r, c) == committed' = IF c \in wrote THEN [committed EXCEPT ![r] = @ + 1] ELSE committed

(* The transaction is dropped without a rollback of its own. *)
LetGo(r, c) ==
    /\ dropped' = dropped \cup {c}
    /\ UNCHANGED <<holder, local, wrote, committed, ran>>

-----------------------------------------------------------------------------
(* The handlers *)

Init ==
    /\ replica \in BOOLEAN
    /\ ask = [r \in Requests |-> None]
    /\ pc = [r \in Requests |-> "idle"]
    /\ job = [r \in Requests |-> "sql"]
    /\ todo = [r \in Requests |-> <<>>]
    /\ fail = [r \in Requests |-> None]
    /\ reply = [r \in Requests |-> None]
    /\ holder = [c \in Conns |-> None]
    /\ local = [c \in Conns |-> Default]
    /\ wrote = {} /\ dropped = {} /\ committing = {}
    /\ committed = [r \in Requests |-> 0]
    /\ ran = [r \in Requests |-> {}]

(* What is decided before the first await: authentication, then the        *)
(* statement's validity and the owner's name, or the verdict on the read.  *)
Refusal(a) ==
    CASE ~Authentic(a) -> "Unauthorized"
      [] a.via = "sql" /\ ~Valid(a.stmt) -> "Rejected"
      [] a.via = "sql" /\ RoleOf(a) = Owner -> "Forbidden"
      [] a.via # "sql" /\ a.stmt.private /\ ~Identified(a) -> "Unauthorized"
      [] OTHER -> None

Arrive(r) ==
    /\ At(r, "idle")
    /\ \E a \in Asks :
         /\ ask' = [ask EXCEPT ![r] = a]
         /\ IF Refusal(a) # None
            THEN Answer(r, Code(Refusal(a))) /\ UNCHANGED job
            ELSE /\ pc' = [pc EXCEPT ![r] = IF a.via = "sql" THEN "check" ELSE "begin"]
                 /\ job' = [job EXCEPT ![r] = IF a.via = "sql" THEN "sql"
                                              ELSE IF a.stmt.joins THEN "probe" ELSE "read"]
                 /\ UNCHANGED reply
    /\ UNCHANGED <<replica, todo, fail, poolVars>>

(* deny_owner_roles asks the catalog on a connection of the pool; a role   *)
(* the catalog does not know passes.  Then the replica's gate.             *)
CheckRole(r) ==
    /\ At(r, "check")
    /\ \E c \in Conns : holder[c] = None
    /\ IF RoleKind[RoleOf(ask[r])] \in Privileged
       THEN Answer(r, "unauthorized")
       ELSE IF replica /\ shape(ask[r].stmt) # "SELECT"
       THEN Answer(r, "invalid_input")
       ELSE pc' = [pc EXCEPT ![r] = "begin"] /\ UNCHANGED reply
    /\ UNCHANGED <<replica, ask, job, todo, fail, poolVars>>

(* No connection, or the engine refuses. *)
AcquireFails(r) ==
    /\ pc[r] \in {"check", "begin"}
    /\ \E e \in DbErrors :
         Answer(r, Code(IF At(r, "check") THEN "Pglite" ELSE Mapped(job[r], e)))
    /\ UNCHANGED <<replica, ask, job, todo, fail, poolVars>>

(* db.transaction(), or db.query for a read without a scope. *)
Begin(r) ==
    /\ At(r, "begin")
    /\ \E c \in Conns :
         /\ holder[c] = None
         /\ holder' = [holder EXCEPT ![c] = r]
    /\ todo' = [todo EXCEPT ![r] = IF Scoped(ask[r], job[r]) THEN Scope(ask[r]) ELSE <<>>]
    /\ pc' = [pc EXCEPT ![r] = IF Scoped(ask[r], job[r]) THEN "set" ELSE "run"]
    /\ UNCHANGED <<replica, ask, job, fail, reply, local, wrote, dropped, committing, committed, ran>>

(* The next SET LOCAL; there is no SET ROLE to an unknown role. *)
SetLocal(r) ==
    /\ At(r, "set")
    /\ LET name == Head(todo[r])[1]
           value == Head(todo[r])[2]
       IN  /\ name = "role" => RoleKind[value] # "unknown"
           /\ \E c \in Conns :
                /\ Carries(r, c)
                /\ local' = [local EXCEPT ![c] = [@ EXCEPT ![name] = value]]
    /\ todo' = [todo EXCEPT ![r] = Tail(@)]
    /\ pc' = [pc EXCEPT ![r] = IF Len(todo[r]) = 1 THEN "run" ELSE "set"]
    /\ UNCHANGED <<replica, ask, job, fail, reply, holder, wrote, dropped, committing, committed, ran>>

(* begin_scoped returns early and drops the transaction. *)
SetFails(r) ==
    /\ At(r, "set")
    /\ \E c \in Conns : Carries(r, c) /\ LetGo(r, c)
    /\ \E e \in DbErrors : Answer(r, Code(Mapped(job[r], e)))
    /\ UNCHANGED <<replica, ask, job, todo, fail, committing>>

(* A result that ran and is refused: equal names, or too many bytes. *)
Rejected(s) ==
    \/ shape(s) = "SELECT" /\ s.duplicated
    \/ shape(s) \in {"SELECT", "returning"} /\ s.large

(* The wrapped text parses: a query is wrapped with its semicolon. *)
Parses(s) == ~(shape(s) = "SELECT" /\ s.semicolon)

(* run_sql_as or query_json_scoped executes the statement.  A read without *)
(* a scope is over with it.                                                *)
Run(r) ==
    /\ At(r, "run")
    /\ \A p \in ask[r].stmt.params : Binds(p)
    /\ ask[r].via = "sql" => Parses(ask[r].stmt)
    /\ \E c \in Conns :
         /\ Carries(r, c)
         /\ ran' = [ran EXCEPT ![r] = @ \cup {<<job[r], local[c]>>}]
         /\ wrote' = IF ask[r].via = "sql" /\ ask[r].stmt.changes THEN wrote \cup {c} ELSE wrote
    /\ IF ask[r].via = "sql" /\ Rejected(ask[r].stmt)
       THEN /\ pc' = [pc EXCEPT ![r] = "rollback"]
            /\ fail' = [fail EXCEPT ![r] = "Rejected"]
       ELSE pc' = [pc EXCEPT ![r] = "commit"] /\ UNCHANGED fail
    /\ UNCHANGED <<replica, ask, job, todo, reply, holder, local, dropped, committing, committed>>

(* Fault: the transaction of a read that failed is kept. *)
RunFailsFault(r) ==
    /\ At(r, "run")
    /\ \E e \in DbErrors :
         IF ask[r].via = "sql"
         THEN /\ pc' = [pc EXCEPT ![r] = "rollback"]
              /\ fail' = [fail EXCEPT ![r] = Mapped("sql", e)]
              /\ UNCHANGED reply
         ELSE /\ Answer(r, Code(IF Scoped(ask[r], job[r]) THEN Mapped(job[r], e) ELSE "Pglite"))
              /\ UNCHANGED fail
    /\ UNCHANGED <<replica, ask, job, todo, poolVars>>

(* The database refuses, the timeout strikes, a parameter does not bind.   *)
(* run_sql_as rolls back; a read drops its transaction.                    *)
RunFails(r) ==
    /\ At(r, "run")
    /\ \E c \in Conns, e \in DbErrors :
         /\ Carries(r, c)
         /\ IF ask[r].via = "sql"
            THEN /\ pc' = [pc EXCEPT ![r] = "rollback"]
                 /\ fail' = [fail EXCEPT ![r] = Mapped("sql", e)]
                 /\ UNCHANGED <<reply, poolVars>>
            ELSE /\ Answer(r, Code(IF Scoped(ask[r], job[r]) THEN Mapped(job[r], e) ELSE "Pglite"))
                 /\ LetGo(r, c)
                 /\ UNCHANGED <<fail, committing>>
    /\ UNCHANGED <<replica, ask, job, todo>>

(* After a transaction: the probe looks at the columns and the read        *)
(* follows, in a transaction of its own.                                   *)
Proceed(r) ==
    IF job[r] = "probe" /\ ~ask[r].stmt.duplicated
    THEN /\ pc' = [pc EXCEPT ![r] = "begin"]
         /\ job' = [job EXCEPT ![r] = "read"]
         /\ UNCHANGED reply
    ELSE /\ Answer(r, IF job[r] = "probe" THEN "invalid_input" ELSE "ok")
         /\ UNCHANGED job

(* tx.commit() succeeds; a read without a scope has only its connection to *)
(* give back.                                                              *)
Commit(r) ==
    /\ At(r, "commit")
    /\ \E c \in Conns : Carries(r, c) /\ EndTransaction(c) /\ Count(r, c)
    /\ Proceed(r)
    /\ UNCHANGED <<replica, ask, todo, fail, dropped, committing, ran>>

(* The commit is refused, or done and its answer lost. *)
CommitFails(r) ==
    /\ At(r, "commit") /\ Scoped(ask[r], job[r])
    /\ \E c \in Conns :
         /\ Carries(r, c)
         /\ EndTransaction(c)
         /\ \/ UNCHANGED committed /\ \E e \in DbErrors : Answer(r, Code(Mapped(job[r], e)))
            \/ Count(r, c) /\ Answer(r, "internal")
    /\ UNCHANGED <<replica, ask, job, todo, fail, dropped, committing, ran>>

(* Fault: the transaction is committed whatever the outcome. *)
RollbackFault(r) ==
    /\ At(r, "rollback")
    /\ \E c \in Conns :
         /\ Carries(r, c)
         /\ EndTransaction(c) /\ Count(r, c)
    /\ Answer(r, Code(fail[r]))
    /\ UNCHANGED <<replica, ask, job, todo, fail, dropped, committing, ran>>

(* tx.rollback(), whose own failure is ignored. *)
Rollback(r) ==
    /\ At(r, "rollback")
    /\ \E c \in Conns :
         /\ Carries(r, c)
         /\ \/ EndTransaction(c) /\ UNCHANGED <<dropped, committed, ran>>
            \/ LetGo(r, c)
    /\ Answer(r, Code(fail[r]))
    /\ UNCHANGED <<replica, ask, job, todo, fail, committing>>

(* Fault: the deadline is kept for the statement only. *)
DeadlineFault(r) ==
    /\ ask[r] # None /\ ask[r].via = "sql"
    /\ At(r, "run")
    /\ \E c \in Conns : Carries(r, c) /\ LetGo(r, c)
    /\ UNCHANGED committing
    /\ Answer(r, "busy")
    /\ UNCHANGED <<replica, ask, job, todo, fail>>

(* The 30 seconds are over: execute is dropped where it waits. *)
Deadline(r) ==
    /\ ask[r] # None /\ ask[r].via = "sql"
    /\ pc[r] \in {"check", "begin", "set", "run", "commit", "rollback"}
    /\ IF \E c \in Conns : Carries(r, c)
       THEN \E c \in Conns :
              /\ Carries(r, c)
              /\ LetGo(r, c)
              /\ committing' = IF At(r, "commit") THEN committing \cup {c} ELSE committing
       ELSE UNCHANGED poolVars
    /\ Answer(r, "busy")
    /\ UNCHANGED <<replica, ask, job, todo, fail>>

(* The engine rolls a dropped transaction back and takes the connection    *)
(* back; a COMMIT on the way may come first.                               *)
Recover(c) ==
    /\ c \in dropped
    /\ EndTransaction(c)
    /\ dropped' = dropped \ {c}
    /\ committing' = committing \ {c}
    /\ \/ UNCHANGED committed
       \/ c \in committing /\ Count(holder[c], c)
    /\ UNCHANGED <<requestVars, ran>>

Step(r) ==
    \/ Arrive(r) \/ CheckRole(r) \/ AcquireFails(r) \/ Begin(r) \/ SetLocal(r) \/ SetFails(r)
    \/ Run(r) \/ RunFails(r) \/ Commit(r) \/ CommitFails(r) \/ Rollback(r) \/ Deadline(r)

Next == (\E r \in Requests : Step(r)) \/ (\E c \in Conns : Recover(c))

(* A statement under a timeout comes to its end. *)
Timed(r) == \E c \in Conns : Carries(r, c) /\ local[c].timeout # 0

BoundedRun(r) == Timed(r) /\ (Run(r) \/ RunFails(r))

(* The timer fires, the engine gives connections back, and the short       *)
(* commands of a transaction end.  A connection need never become free for *)
(* a request that waits for one, and a statement without a timeout need    *)
(* never end.                                                              *)
Fairness ==
    /\ \A r \in Requests :
         /\ WF_vars(Deadline(r))
         /\ WF_vars(SetLocal(r) \/ SetFails(r))
         /\ WF_vars(BoundedRun(r))
         /\ WF_vars(Commit(r) \/ CommitFails(r))
         /\ WF_vars(Rollback(r))
    /\ \A c \in Conns : WF_vars(Recover(c))

Spec == Init /\ [][Next]_vars

FairSpec == Spec /\ Fairness

-----------------------------------------------------------------------------
(* Properties *)

SettingsType ==
    [timeout : {0, SQL_DEADLINE_SECS}, claims : Tokens \cup {None}, headers : SUBSET STRING, role : Roles \cup {Owner}]

(* Every variable is in its range. *)
TypeOK ==
    /\ replica \in BOOLEAN
    /\ ask \in [Requests -> Asks \cup {None}]
    /\ pc \in [Requests -> {"idle", "check", "begin", "set", "run", "commit", "rollback", "answered"}]
    /\ job \in [Requests -> {"sql", "probe", "read"}]
    /\ todo = [r \in Requests |-> todo[r]] /\ ran = [r \in Requests |-> ran[r]]
    /\ \A r \in Requests : pc[r] = "set" => todo[r] # <<>>
    /\ fail \in [Requests -> {None, "Rejected", "Forbidden", "Pglite"}]
    /\ reply \in [Requests -> {None, "ok", "invalid_input", "unauthorized", "busy", "internal"}]
    /\ holder \in [Conns -> Requests \cup {None}]
    /\ local \in [Conns -> SettingsType]
    /\ wrote \subseteq Conns /\ dropped \subseteq Conns /\ committing \subseteq dropped
    /\ committed \in [Requests -> Nat]

(* The settings a request asks for. *)
Asked(a, j) ==
    IF Scoped(a, j)
    THEN [timeout |-> SQL_DEADLINE_SECS, claims |-> a.bearer, headers |-> Headers(a), role |-> RoleOf(a)]
    ELSE Default

(* Whatever ran before on its connection, a statement runs under exactly   *)
(* the role, claims, headers and timeout of its own request, and a sql     *)
(* statement under no role that deny_owner_roles names (README.md:264 "    *)
(* under a server-selected non-owner role", and begin_scoped, which sets   *)
(* no claims for a request without a principal).                           *)
RunsAsAsked ==
    \A r \in Requests : \A run \in ran[r] :
        /\ run[2] = Asked(ask[r], run[1])
        /\ ask[r].via = "sql" => run[2].role # Owner /\ RoleKind[run[2].role] = "plain"

(* "no connection state survives the call" (sql_validate.rs:35): however   *)
(* its last transaction ended, a connection of the pool has the session's  *)
(* settings and no change left to commit.                                  *)
NoStateSurvives ==
    \A c \in Conns : holder[c] = None => local[c] = Default /\ c \notin wrote \cup dropped

(* The answer is true, and stays true: a statement that was acknowledged   *)
(* has taken effect once, one that was refused (above all for the size of  *)
(* its result: "nothing was committed", rows.rs:350) never does, and one   *)
(* that failed or ran into the deadline does so at most once.              *)
RepliesTrue ==
    \A r \in Requests :
        /\ committed[r] <= 1
        /\ reply[r] = "ok" /\ ask[r].via = "sql" => committed[r] = (IF ask[r].stmt.changes THEN 1 ELSE 0)
        /\ reply[r] \in {None, "invalid_input", "unauthorized"} => committed[r] = 0

(* Every sql request is answered, even if it waits for a connection that a *)
(* read without a timeout never gives back: the deadline (unb.rs:32)       *)
(* covers the role check and the wait for the pool too.                    *)
SqlAnswered ==
    \A r \in Requests : (ask[r] # None /\ ask[r].via = "sql") ~> At(r, "answered")

(* A connection that carries a scoped transaction comes back to the pool,  *)
(* whichever step failed and whoever dropped it.                           *)
ConnectionsReturn ==
    \A c \in Conns : (holder[c] # None /\ Scoped(ask[holder[c]], job[holder[c]])) ~> (holder[c] = None)

-----------------------------------------------------------------------------
(* Why they hold: what ties a request to the connection it holds. *)

SettingNames == {"timeout", "claims", "headers", "role"}

(* What begin_scoped may set for a. *)
Items(a) == {<<"timeout", SQL_DEADLINE_SECS>>, <<"claims", a.bearer>>, <<"headers", Headers(a)>>, <<"role", RoleOf(a)>>}

Pending(r, name) == \E i \in DOMAIN todo[r] : todo[r][i][1] = name

Underway(r) == pc[r] \notin {"idle", "answered"}

Changing(r) == ask[r].via = "sql" /\ ask[r].stmt.changes

(* A request on its way was not refused, has no answer and no effect yet,  *)
(* and past the role check it has a role without privileges.               *)
RequestInv(r) ==
    /\ pc[r] = "idle" => ran[r] = {}
    /\ pc[r] # "idle" => ask[r] \in Asks
    /\ reply[r] = None <=> pc[r] # "answered"
    /\ pc[r] # "answered" => committed[r] = 0
    /\ Underway(r) => Refusal(ask[r]) = None /\ (job[r] = "sql" <=> ask[r].via = "sql")
    /\ pc[r] \in {"begin", "set", "run", "commit", "rollback"} /\ ask[r].via = "sql" =>
          RoleKind[RoleOf(ask[r])] \notin Privileged
    /\ pc[r] = "set" => Scoped(ask[r], job[r]) /\ todo[r] \in Seq(Items(ask[r]))

(* The request r that c belongs to holds no other connection.  It is in a  *)
(* step between BEGIN and the end of the transaction, or c was dropped;    *)
(* nothing has taken effect, data is changed by the statement only, and a  *)
(* COMMIT that may still win belongs to a request answered busy.           *)
HoldInv(c, r) ==
    /\ \A d \in Conns : holder[d] = r => d = c
    /\ committed[r] = 0
    /\ pc[r] \in (IF c \in dropped THEN {"answered"} ELSE {"set", "run", "commit", "rollback"})
    /\ c \in committing => reply[r] = "busy"
    /\ c \in wrote => Changing(r) /\ pc[r] \notin {"set", "run"}
    /\ pc[r] = "commit" /\ Changing(r) => c \in wrote

(* On the way through begin_scoped every setting is right or still to be   *)
(* made, so that the statement finds all of them right.                    *)
ScopeInv(c, r) ==
    /\ pc[r] = "set" =>
          /\ \A name \in SettingNames : local[c][name] = Asked(ask[r], job[r])[name] \/ Pending(r, name)
          /\ RoleKind[RoleOf(ask[r])] # "unknown" \/ Pending(r, "role")
    /\ pc[r] = "run" =>
          /\ local[c] = Asked(ask[r], job[r])
          /\ Scoped(ask[r], job[r]) => RoleKind[RoleOf(ask[r])] # "unknown"

SqlInv ==
    /\ TypeOK
    /\ NoStateSurvives /\ RunsAsAsked /\ RepliesTrue
    /\ \A r \in Requests : RequestInv(r)
    /\ \A c \in Conns : holder[c] # None => HoldInv(c, holder[c]) /\ ScopeInv(c, holder[c])
=============================================================================
