----------------------- MODULE SqlOperations_proofs -----------------------
(***************************************************************************)
(* Statements on pooled connections, for any number of requests,           *)
(* connections, roles and statements.                                      *)
(***************************************************************************)
EXTENDS SqlOperations, SequenceTheorems, TLAPS

Refused == {"invalid_input", "unauthorized", "internal"}

-----------------------------------------------------------------------------
(* The operators *)

(* An error is answered with one of three codes. *)
LEMMA CodeRefuses == \A e : Code(e) \in Refused
BY DEF Code, Refused

(* An accepted request names a role and, if any, a verified token. *)
LEMMA AcceptedType ==
  ASSUME NEW a \in Asks, Refusal(a) = None
  PROVE  /\ RoleOf(a) \in Roles
         /\ a.bearer \in Tokens \cup {None}
         /\ Headers(a) \in SUBSET STRING
         /\ a.via = "sql" => RoleOf(a) # Owner
<1>0. a \in AskType
  BY SqlAssumption
<1>1. None # "Unauthorized" /\ None # "Rejected" /\ None # "Forbidden"
  BY SqlAssumption
<1>2. Authentic(a) /\ (a.via = "sql" => RoleOf(a) # Owner)
  BY <1>1 DEF Refusal
<1>3. a.headers \in SUBSET STRING
  BY <1>0 DEF AskType
<1>4. Headers(a) \in SUBSET STRING
  BY <1>3 DEF Headers
<1> QED
  BY <1>2, <1>4, SqlAssumption DEF Authentic, RoleOf, Anonymous

(* What is asked for, by case. *)
LEMMA AskedIs ==
  ASSUME NEW a, NEW j
  PROVE  /\ Scoped(a, j) => Asked(a, j) = [timeout |-> SQL_DEADLINE_SECS, claims |-> a.bearer,
                                            headers |-> Headers(a), role |-> RoleOf(a)]
         /\ ~Scoped(a, j) => Asked(a, j) = Default
BY DEF Asked

LEMMA AskedType ==
  ASSUME NEW a \in Asks, Refusal(a) = None, NEW j
  PROVE  Asked(a, j) \in SettingsType
<1>1. CASE Scoped(a, j)
  BY <1>1, AskedIs, AcceptedType DEF SettingsType
<1>2. CASE ~Scoped(a, j)
  BY <1>2, AskedIs DEF SettingsType, Default
<1> QED
  BY <1>1, <1>2

(* Whatever begin_scoped sets is what is asked for. *)
LEMMA ItemsAreAsked ==
  ASSUME NEW a, NEW j, Scoped(a, j), NEW x \in Items(a)
  PROVE  x[1] \in SettingNames /\ x[2] = Asked(a, j)[x[1]] /\ (x[1] = "role" => x[2] = RoleOf(a))
BY AskedIs DEF Items, SettingNames

(* It sets everything that differs from the session's settings. *)
LEMMA ScopeIsComplete ==
  ASSUME NEW a, NEW j, Scoped(a, j)
  PROVE  /\ Scope(a) \in Seq(Items(a)) /\ Scope(a) # <<>>
         /\ \A name \in SettingNames :
              Default[name] = Asked(a, j)[name] \/ \E i \in DOMAIN Scope(a) : Scope(a)[i][1] = name
         /\ \E i \in DOMAIN Scope(a) : Scope(a)[i][1] = "role"
<1>1. CASE Anonymous(a)
  <2>1. Scope(a) = <<<<"timeout", SQL_DEADLINE_SECS>>, <<"headers", Headers(a)>>, <<"role", RoleOf(a)>>>>
    BY <1>1 DEF Scope
  <2>2. Default["claims"] = Asked(a, j)["claims"]
    BY <1>1, AskedIs DEF Anonymous, Default
  <2>3. /\ 1 \in DOMAIN Scope(a) /\ Scope(a)[1][1] = "timeout"
        /\ 2 \in DOMAIN Scope(a) /\ Scope(a)[2][1] = "headers"
        /\ 3 \in DOMAIN Scope(a) /\ Scope(a)[3][1] = "role"
    BY <2>1
  <2>4. Scope(a) \in Seq(Items(a)) /\ Scope(a) # <<>>
    BY <2>1 DEF Items
  <2> QED
    BY <2>2, <2>3, <2>4 DEF SettingNames
<1>2. CASE ~Anonymous(a)
  <2>1. Scope(a) = <<<<"timeout", SQL_DEADLINE_SECS>>, <<"claims", a.bearer>>, <<"headers", Headers(a)>>, <<"role", RoleOf(a)>>>>
    BY <1>2 DEF Scope
  <2>3. /\ 1 \in DOMAIN Scope(a) /\ Scope(a)[1][1] = "timeout"
        /\ 2 \in DOMAIN Scope(a) /\ Scope(a)[2][1] = "claims"
        /\ 3 \in DOMAIN Scope(a) /\ Scope(a)[3][1] = "headers"
        /\ 4 \in DOMAIN Scope(a) /\ Scope(a)[4][1] = "role"
    BY <2>1
  <2>4. Scope(a) \in Seq(Items(a)) /\ Scope(a) # <<>>
    BY <2>1 DEF Items
  <2> QED
    BY <2>3, <2>4 DEF SettingNames
<1> QED
  BY <1>1, <1>2

(* Settings are equal when their four fields are. *)
LEMMA SettingsEqual ==
  ASSUME NEW x \in SettingsType, NEW y \in SettingsType, \A name \in SettingNames : x[name] = y[name]
  PROVE  x = y
BY DEF SettingsType, SettingNames

(* Changing a field to what another one's is gives settings again. *)
LEMMA SettingsExcept ==
  ASSUME NEW x \in SettingsType, NEW y \in SettingsType, NEW name \in SettingNames
  PROVE  /\ [x EXCEPT ![name] = y[name]] \in SettingsType
         /\ [x EXCEPT ![name] = y[name]][name] = y[name]
         /\ \A n \in SettingNames \ {name} : [x EXCEPT ![name] = y[name]][n] = x[n]
BY DEF SettingsType, SettingNames

(* The tail of a list of settings lacks at most its head. *)
LEMMA TailKeeps ==
  ASSUME NEW S, NEW s \in Seq(S), s # <<>>
  PROVE  /\ Tail(s) \in Seq(S) /\ Head(s) \in S
         /\ Len(s) = 1 => Tail(s) = <<>>
         /\ Len(s) # 1 => Tail(s) # <<>>
         /\ \A i \in DOMAIN s : s[i] = Head(s) \/ \E k \in DOMAIN Tail(s) : Tail(s)[k] = s[i]
<1>1. Len(s) \in Nat /\ Len(s) > 0 /\ DOMAIN s = 1 .. Len(s)
  OBVIOUS
<1>2. Tail(s) \in Seq(S) /\ Head(s) \in S /\ Head(s) = s[1]
  BY <1>1
<1>3. Len(Tail(s)) = Len(s) - 1 /\ DOMAIN Tail(s) = 1 .. Len(s) - 1
  BY <1>1, <1>2
<1>4. ASSUME NEW i \in DOMAIN s, i # 1
      PROVE  i - 1 \in DOMAIN Tail(s) /\ Tail(s)[i - 1] = s[i]
  BY <1>1, <1>2, <1>3, <1>4
<1>5. Len(s) = 1 => Tail(s) = <<>>
  BY <1>2, <1>3
<1>6. Len(s) # 1 => Tail(s) # <<>>
  <2>1. ASSUME Tail(s) = <<>> PROVE Len(s) = 1
    <3>1. Len(Tail(s)) = 0
      BY <1>2, <2>1, EmptySeq
    <3> QED
      BY <3>1, <1>1, <1>3
  <2> QED
    BY <2>1
<1> QED
  BY <1>1, <1>2, <1>4, <1>5, <1>6

-----------------------------------------------------------------------------
(* The invariant, request by request and connection by connection *)

RanRight(r) ==
    \A run \in ran[r] :
        /\ run[2] = Asked(ask[r], run[1])
        /\ ask[r].via = "sql" => run[2].role # Owner /\ RoleKind[run[2].role] = "plain"

ReplyRight(r) ==
    /\ committed[r] <= 1
    /\ reply[r] = "ok" /\ ask[r].via = "sql" => committed[r] = (IF ask[r].stmt.changes THEN 1 ELSE 0)
    /\ reply[r] \in {None, "invalid_input", "unauthorized"} => committed[r] = 0

RequestRight(r) == RequestInv(r) /\ RanRight(r) /\ ReplyRight(r)

Free(c) == local[c] = Default /\ c \notin wrote \cup dropped

ConnRight(c) ==
    /\ holder[c] = None => Free(c)
    /\ holder[c] # None => HoldInv(c, holder[c]) /\ ScopeInv(c, holder[c])

(* SqlInv by its parts. *)
LEMMA Parts ==
  SqlInv <=> TypeOK /\ (\A r \in Requests : RequestRight(r)) /\ (\A c \in Conns : ConnRight(c))
BY DEF SqlInv, NoStateSurvives, RunsAsAsked, RepliesTrue, RequestRight, RanRight, ReplyRight, ConnRight, Free

(* What a step leaves alone. *)
SameRequest(q) ==
    /\ ask'[q] = ask[q] /\ pc'[q] = pc[q] /\ job'[q] = job[q] /\ todo'[q] = todo[q]
    /\ reply'[q] = reply[q] /\ committed'[q] = committed[q] /\ ran'[q] = ran[q]

SameConn(c) ==
    /\ holder'[c] = holder[c] /\ local'[c] = local[c]
    /\ c \in wrote' <=> c \in wrote
    /\ c \in dropped' <=> c \in dropped
    /\ c \in committing' <=> c \in committing

(* A request that is left alone stays right. *)
LEMMA SameRequestRight ==
  ASSUME NEW q \in Requests, RequestRight(q), SameRequest(q)
  PROVE  RequestRight(q)'
<1>1. RequestInv(q)'
  BY DEF RequestRight, RequestInv, SameRequest, Underway
<1>2. RanRight(q)'
  BY DEF RequestRight, RanRight, SameRequest
<1>3. ReplyRight(q)'
  BY DEF RequestRight, ReplyRight, SameRequest
<1> QED
  BY <1>1, <1>2, <1>3 DEF RequestRight

(* A connection that is left alone, with its request, stays right, as long *)
(* as its request is given no other.                                       *)
LEMMA SameConnRight ==
  ASSUME NEW c \in Conns, ConnRight(c), SameConn(c), holder[c] # None => SameRequest(holder[c]),
         \A d \in Conns : holder[c] # None /\ holder'[d] = holder[c] => holder[d] = holder[c]
  PROVE  ConnRight(c)'
<1>1. CASE holder[c] = None
  BY <1>1 DEF ConnRight, SameConn, Free
<1>2. CASE holder[c] # None
  <2>1. PICK q : q = holder[c]
    OBVIOUS
  <2>2. q # None /\ holder'[c] = q /\ SameRequest(q) /\ HoldInv(c, q) /\ ScopeInv(c, q)
    BY <1>2, <2>1 DEF ConnRight, SameConn
  <2>3. HoldInv(c, q)'
    <3>1. \A d \in Conns : holder'[d] = q => d = c
      BY <1>2, <2>1, <2>2 DEF HoldInv
    <3> QED
      BY <3>1, <2>2 DEF HoldInv, SameRequest, SameConn, Changing
  <2>4. ScopeInv(c, q)'
    BY <2>2 DEF ScopeInv, SameRequest, SameConn, Pending
  <2> QED
    BY <2>2, <2>3, <2>4 DEF ConnRight, HoldInv, ScopeInv, Pending, Changing
<1> QED
  BY <1>1, <1>2

(* A step of the request r that touches no connections but those in B,     *)
(* which are free or r's before and after it.                              *)
LEMMA Framed ==
  ASSUME SqlInv, TypeOK', NEW r \in Requests, RequestRight(r)',
         \A q \in Requests \ {r} : SameRequest(q),
         NEW B \in SUBSET Conns,
         \A c \in Conns \ B : SameConn(c) /\ holder[c] # r,
         \A c \in B : ConnRight(c)' /\ holder'[c] \in {None, r}
  PROVE  SqlInv'
<1>0. TypeOK /\ (\A q \in Requests : RequestRight(q)) /\ (\A c \in Conns : ConnRight(c))
  BY Parts
<1>1. ASSUME NEW q \in Requests PROVE RequestRight(q)'
  BY <1>0, <1>1, SameRequestRight
<1>2. ASSUME NEW c \in Conns \ B PROVE ConnRight(c)'
  <2>1. SameConn(c) /\ holder[c] # r /\ ConnRight(c)
    BY <1>0, <1>2
  <2>2. holder[c] # None => SameRequest(holder[c])
    BY <1>0, <2>1 DEF TypeOK
  <2>3. \A d \in Conns : holder[c] # None /\ holder'[d] = holder[c] => holder[d] = holder[c]
    BY <2>1 DEF SameConn
  <2> QED
    BY <2>1, <2>2, <2>3, SameConnRight
<1>3. TypeOK' /\ (\A q \in Requests : RequestRight(q)') /\ (\A c \in Conns : ConnRight(c)')
  BY <1>1, <1>2
<1> QED
  BY <1>3 DEF SqlInv, NoStateSurvives, RunsAsAsked, RepliesTrue, RequestRight, RanRight, ReplyRight, ConnRight, Free

(* The same, when no connection is touched. *)
LEMMA FramedAlone ==
  ASSUME SqlInv, TypeOK', NEW r \in Requests, RequestRight(r)',
         \A q \in Requests \ {r} : SameRequest(q),
         \A c \in Conns : SameConn(c) /\ holder[c] # r
  PROVE  SqlInv'
<1>1. \A c \in Conns \ {} : SameConn(c) /\ holder[c] # r
  OBVIOUS
<1>2. \A c \in {} : ConnRight(c)' /\ holder'[c] \in {None, r}
  OBVIOUS
<1>3. {} \in SUBSET Conns
  OBVIOUS
<1> QED
  BY <1>1, <1>2, <1>3, Framed

(* The same, when one is. *)
LEMMA FramedOne ==
  ASSUME SqlInv, TypeOK', NEW r \in Requests, RequestRight(r)',
         \A q \in Requests \ {r} : SameRequest(q),
         NEW b \in Conns, ConnRight(b)', holder'[b] \in {None, r},
         \A c \in Conns \ {b} : SameConn(c) /\ holder[c] # r
  PROVE  SqlInv'
<1>1. \A c \in {b} : ConnRight(c)' /\ holder'[c] \in {None, r}
  OBVIOUS
<1>2. {b} \in SUBSET Conns
  OBVIOUS
<1> QED
  BY <1>1, <1>2, Framed

(* The connection a request carries is the only one it holds. *)
LEMMA Holding ==
  ASSUME SqlInv, NEW r \in Requests, NEW c \in Conns, Carries(r, c)
  PROVE  /\ r # None /\ holder[c] = r /\ c \notin dropped
         /\ HoldInv(c, r) /\ ScopeInv(c, r)
         /\ \A d \in Conns \ {c} : holder[d] # r
<1>1. r # None /\ holder[c] = r /\ c \notin dropped
  BY SqlAssumption DEF Carries
<1>2. HoldInv(c, r) /\ ScopeInv(c, r)
  BY <1>1 DEF SqlInv
<1> QED
  BY <1>1, <1>2 DEF HoldInv

(* A request holds nothing before BEGIN. *)
LEMMA NotHolding ==
  ASSUME SqlInv, NEW r \in Requests, pc[r] \in {"idle", "check", "begin"}
  PROVE  \A c \in Conns : holder[c] # r
<1>1. ASSUME NEW c \in Conns, holder[c] = r PROVE FALSE
  BY <1>1, SqlAssumption DEF SqlInv, HoldInv
<1> QED
  BY <1>1

-----------------------------------------------------------------------------
(* The steps of a request before it has a connection *)

LEMMA ArriveKeeps ==
  ASSUME SqlInv, NEW r \in Requests, Arrive(r)
  PROVE  SqlInv'
<1>0. TypeOK /\ RequestRight(r) /\ \A c \in Conns : holder[c] # r
  BY Parts, NotHolding DEF Arrive, At
<1>1. PICK a \in Asks :
        /\ ask' = [ask EXCEPT ![r] = a]
        /\ IF Refusal(a) # None
           THEN Answer(r, Code(Refusal(a))) /\ UNCHANGED job
           ELSE /\ pc' = [pc EXCEPT ![r] = IF a.via = "sql" THEN "check" ELSE "begin"]
                /\ job' = [job EXCEPT ![r] = IF a.via = "sql" THEN "sql"
                                             ELSE IF a.stmt.joins THEN "probe" ELSE "read"]
                /\ UNCHANGED reply
  BY DEF Arrive
<1>2. At(r, "idle") /\ UNCHANGED <<replica, todo, fail, poolVars>>
  BY DEF Arrive
<1>3. CASE Refusal(a) # None
  <2>1. Code(Refusal(a)) \in Refused
    BY CodeRefuses
  <2>0. PICK code \in Refused : Answer(r, code) /\ UNCHANGED job
    BY <1>1, <1>3, <2>1
  <2>2. TypeOK'
    BY <1>0, <1>1, <1>2, <2>0 DEF TypeOK, Answer, poolVars, Refused
  <2>3. RequestRight(r)'
    BY <1>0, <1>1, <1>2, <1>3, <2>1, SqlAssumption
       DEF TypeOK, Answer, poolVars, Refused, RequestRight, RequestInv, RanRight, ReplyRight, At, Underway
  <2>4. \A q \in Requests \ {r} : SameRequest(q)
    BY <1>0, <1>1, <1>2, <1>3 DEF TypeOK, Answer, poolVars, SameRequest
  <2>5. \A c \in Conns : SameConn(c)
    BY <1>2 DEF poolVars, SameConn
  <2> QED
    BY <1>0, <2>2, <2>3, <2>4, <2>5, FramedAlone
<1>4. CASE Refusal(a) = None
  <2>2. TypeOK'
    BY <1>0, <1>1, <1>2, <1>4 DEF TypeOK, poolVars
  <2>3. RequestRight(r)'
    BY <1>0, <1>1, <1>2, <1>4, SqlAssumption
       DEF TypeOK, poolVars, RequestRight, RequestInv, RanRight, ReplyRight, At, Underway
  <2>4. \A q \in Requests \ {r} : SameRequest(q)
    BY <1>0, <1>1, <1>2, <1>4 DEF TypeOK, poolVars, SameRequest
  <2>5. \A c \in Conns : SameConn(c)
    BY <1>2 DEF poolVars, SameConn
  <2> QED
    BY <1>0, <2>2, <2>3, <2>4, <2>5, FramedAlone
<1> QED
  BY <1>3, <1>4

(* A request that carries no connection may always be answered with an     *)
(* error or with busy.                                                     *)
LEMMA AnswerAlone ==
  ASSUME SqlInv, NEW r \in Requests, Underway(r), \A c \in Conns : ~Carries(r, c),
         NEW code \in Refused \cup {"busy"}, Answer(r, code),
         UNCHANGED <<replica, ask, job, todo, fail, poolVars>>
  PROVE  SqlInv'
<1>0. TypeOK /\ RequestRight(r)
  BY Parts
<1>1. ASSUME NEW c \in Conns PROVE SameConn(c) /\ holder[c] # r
  <2>1. holder[c] # r
    BY SqlAssumption DEF SqlInv, HoldInv, Carries, Underway
  <2> QED
    BY <2>1 DEF SameConn, poolVars
<1>2. TypeOK'
  BY <1>0 DEF TypeOK, Answer, poolVars, Refused
<1>3. RequestRight(r)'
  BY <1>0, SqlAssumption
     DEF TypeOK, Answer, poolVars, Refused, RequestRight, RequestInv, RanRight, ReplyRight, Underway
<1>4. \A q \in Requests \ {r} : SameRequest(q)
  BY <1>0 DEF TypeOK, Answer, poolVars, SameRequest
<1> QED
  BY <1>1, <1>2, <1>3, <1>4, FramedAlone

LEMMA CheckRoleKeeps ==
  ASSUME SqlInv, NEW r \in Requests, CheckRole(r)
  PROVE  SqlInv'
<1>0. TypeOK /\ RequestRight(r) /\ At(r, "check") /\ \A c \in Conns : holder[c] # r
  BY Parts, NotHolding DEF CheckRole, At
<1>1. Underway(r) /\ \A c \in Conns : ~Carries(r, c)
  BY <1>0 DEF Underway, At, Carries
<1>2. UNCHANGED <<replica, ask, job, todo, fail, poolVars>>
  BY DEF CheckRole
<1>3. CASE \E code \in Refused : Answer(r, code)
  BY <1>1, <1>2, <1>3, AnswerAlone
<1>4. CASE /\ RoleKind[RoleOf(ask[r])] \notin Privileged
           /\ pc' = [pc EXCEPT ![r] = "begin"] /\ UNCHANGED reply
  <2>2. TypeOK'
    BY <1>0, <1>2, <1>4 DEF TypeOK, poolVars
  <2>3. RequestRight(r)'
    BY <1>0, <1>2, <1>4
       DEF TypeOK, poolVars, RequestRight, RequestInv, RanRight, ReplyRight, At, Underway
  <2>4. \A q \in Requests \ {r} : SameRequest(q)
    BY <1>0, <1>2, <1>4 DEF TypeOK, poolVars, SameRequest
  <2>5. \A c \in Conns : SameConn(c)
    BY <1>2 DEF poolVars, SameConn
  <2> QED
    BY <1>0, <2>2, <2>3, <2>4, <2>5, FramedAlone
<1> QED
  BY <1>3, <1>4 DEF CheckRole, Refused

LEMMA AcquireFailsKeeps ==
  ASSUME SqlInv, NEW r \in Requests, AcquireFails(r)
  PROVE  SqlInv'
<1>1. Underway(r) /\ \A c \in Conns : ~Carries(r, c)
  BY NotHolding DEF AcquireFails, Underway, Carries
<1>2. PICK code \in Refused : Answer(r, code)
  BY CodeRefuses DEF AcquireFails
<1> QED
  BY <1>1, <1>2, AnswerAlone DEF AcquireFails

(* BEGIN on a free connection, which has the session's settings: each is   *)
(* as it is asked for or in what is still to be made.                      *)
LEMMA BeginKeeps ==
  ASSUME SqlInv, NEW r \in Requests, Begin(r)
  PROVE  SqlInv'
<1>0. TypeOK /\ RequestRight(r) /\ At(r, "begin") /\ r # None /\ \A c \in Conns : holder[c] # r
  BY Parts, NotHolding, SqlAssumption DEF Begin, At
<1>1. PICK c \in Conns : holder[c] = None /\ holder' = [holder EXCEPT ![c] = r]
  BY DEF Begin
<1>2. Free(c)
  BY <1>1, Parts DEF ConnRight
<1>3. /\ todo' = [todo EXCEPT ![r] = IF Scoped(ask[r], job[r]) THEN Scope(ask[r]) ELSE <<>>]
      /\ pc' = [pc EXCEPT ![r] = IF Scoped(ask[r], job[r]) THEN "set" ELSE "run"]
      /\ UNCHANGED <<replica, ask, job, fail, reply, local, wrote, dropped, committing, committed, ran>>
  BY DEF Begin
<1>4. Scoped(ask[r], job[r]) => todo'[r] = Scope(ask[r]) /\ Scope(ask[r]) # <<>> /\ Scope(ask[r]) \in Seq(Items(ask[r]))
  BY <1>0, <1>3, ScopeIsComplete DEF TypeOK
<1>5. TypeOK'
  BY <1>0, <1>1, <1>3, <1>4 DEF TypeOK
<1>6. RequestRight(r)'
  BY <1>0, <1>3, <1>4 DEF TypeOK, RequestRight, RequestInv, RanRight, ReplyRight, At, Underway
<1>7. \A q \in Requests \ {r} : SameRequest(q)
  BY <1>0, <1>3 DEF TypeOK, SameRequest
<1>8. \A d \in Conns \ {c} : SameConn(d)
  BY <1>0, <1>1, <1>3 DEF TypeOK, SameConn
<1>9. holder'[c] = r
  BY <1>0, <1>1 DEF TypeOK
<1>10. HoldInv(c, r)'
  <2>1. \A d \in Conns : holder'[d] = r => d = c
    BY <1>0, <1>1 DEF TypeOK
  <2>2. pc'[r] \in {"set", "run"} /\ committed'[r] = 0 /\ c \notin dropped' /\ c \notin committing' /\ c \notin wrote'
    BY <1>0, <1>2, <1>3 DEF TypeOK, Free, RequestRight, RequestInv, At
  <2> QED
    BY <2>1, <2>2 DEF HoldInv
<1>11. ScopeInv(c, r)'
  <2>1. CASE Scoped(ask[r], job[r])
    <3>1. pc'[r] = "set" /\ todo'[r] = Scope(ask[r]) /\ local'[c] = Default /\ ask' = ask /\ job' = job
      BY <1>0, <1>2, <1>3, <2>1 DEF TypeOK, Free
    <3> QED
      BY <3>1, <2>1, ScopeIsComplete DEF ScopeInv, Pending
  <2>2. CASE ~Scoped(ask[r], job[r])
    <3>1. pc'[r] = "run" /\ local'[c] = Default /\ ask' = ask /\ job' = job
      BY <1>0, <1>2, <1>3, <2>2 DEF TypeOK, Free
    <3> QED
      BY <3>1, <2>2, AskedIs DEF ScopeInv
  <2> QED
    BY <2>1, <2>2
<1>12. ConnRight(c)'
  BY <1>0, <1>9, <1>10, <1>11 DEF ConnRight, HoldInv, ScopeInv, Pending, Changing
<1> QED
  BY <1>0, <1>5, <1>6, <1>7, <1>8, <1>9, <1>12, FramedOne

-----------------------------------------------------------------------------
(* How a transaction ends *)

(* A request whose transaction is dropped is answered with an error or     *)
(* with busy, and with busy if a COMMIT may be on the way.                 *)
LEMMA AnswerLettingGo ==
  ASSUME SqlInv, NEW r \in Requests, NEW c \in Conns, Carries(r, c), LetGo(r, c),
         NEW code \in Refused \cup {"busy"}, Answer(r, code),
         committing' = committing \/ (committing' = committing \cup {c} /\ code = "busy"),
         UNCHANGED <<replica, ask, job, todo, fail>>
  PROVE  SqlInv'
<1>0. /\ TypeOK /\ RequestRight(r) /\ r # None /\ holder[c] = r /\ c \notin dropped
      /\ HoldInv(c, r) /\ \A d \in Conns \ {c} : holder[d] # r
  BY Parts, Holding
<1>1. TypeOK'
  BY <1>0 DEF TypeOK, Answer, LetGo, Refused
<1>2. RequestRight(r)'
  BY <1>0, SqlAssumption
     DEF TypeOK, Answer, LetGo, Refused, HoldInv, RequestRight, RequestInv, RanRight, ReplyRight, Underway
<1>3. \A q \in Requests \ {r} : SameRequest(q)
  BY <1>0 DEF TypeOK, Answer, LetGo, SameRequest
<1>4. \A d \in Conns \ {c} : SameConn(d)
  BY DEF LetGo, SameConn
<1>5. /\ holder' = holder /\ committed'[r] = 0 /\ pc'[r] = "answered" /\ c \in dropped'
      /\ c \in committing' => reply'[r] = "busy"
      /\ c \in wrote' => Changing(r)'
  BY <1>0 DEF TypeOK, Answer, LetGo, HoldInv, Changing
<1>6. HoldInv(c, r)' /\ ScopeInv(c, r)'
  BY <1>0, <1>5 DEF HoldInv, ScopeInv
<1>7. ConnRight(c)'
  BY <1>0, <1>5, <1>6 DEF ConnRight, HoldInv, ScopeInv, Pending, Changing
<1> QED
  BY <1>0, <1>1, <1>2, <1>3, <1>4, <1>5, <1>7, FramedOne

(* A transaction that ends frees its connection. *)
LEMMA Ending ==
  ASSUME TypeOK, NEW c \in Conns, EndTransaction(c), c \notin dropped',
         dropped' = dropped \/ dropped' = dropped \ {c},
         committing' = committing \/ committing' = committing \ {c}
  PROVE  /\ holder'[c] = None /\ ConnRight(c)'
         /\ \A d \in Conns \ {c} : SameConn(d)
         /\ holder' \in [Conns -> Requests \cup {None}] /\ local' \in [Conns -> SettingsType]
         /\ wrote' \subseteq Conns
<1>1. Default \in SettingsType
  BY DEF Default, SettingsType
<1>2. holder'[c] = None /\ local'[c] = Default /\ c \notin wrote'
  BY DEF TypeOK, EndTransaction
<1>3. ConnRight(c)'
  BY <1>2 DEF ConnRight, Free
<1>4. \A d \in Conns \ {c} : SameConn(d)
  BY DEF TypeOK, EndTransaction, SameConn
<1> QED
  BY <1>1, <1>2, <1>3, <1>4 DEF TypeOK, EndTransaction

(* A request may be answered at the end of its transaction with a code     *)
(* that tells whether it took effect.                                      *)
LEMMA AnswerEnding ==
  ASSUME SqlInv, NEW r \in Requests, NEW c \in Conns, Carries(r, c), EndTransaction(c),
         NEW code \in Refused \cup {"ok"}, Answer(r, code),
         \/ UNCHANGED committed /\ (code = "ok" => ~Changing(r))
         \/ Count(r, c) /\ (code = "ok" => (c \in wrote <=> Changing(r)))
                         /\ (code \in {"invalid_input", "unauthorized"} => c \notin wrote),
         UNCHANGED <<replica, ask, job, todo, fail, dropped, committing, ran>>
  PROVE  SqlInv'
<1>0. /\ TypeOK /\ RequestRight(r) /\ r # None /\ holder[c] = r /\ c \notin dropped
      /\ HoldInv(c, r) /\ \A d \in Conns \ {c} : holder[d] # r
  BY Parts, Holding
<1>1. /\ holder'[c] = None /\ ConnRight(c)' /\ \A d \in Conns \ {c} : SameConn(d)
      /\ holder' \in [Conns -> Requests \cup {None}] /\ local' \in [Conns -> SettingsType]
      /\ wrote' \subseteq Conns
  BY <1>0, Ending
<1>2. /\ committed' \in [Requests -> Nat]
      /\ \A q \in Requests \ {r} : committed'[q] = committed[q]
      /\ committed'[r] <= 1
      /\ code = "ok" /\ ask[r].via = "sql" => committed'[r] = (IF ask[r].stmt.changes THEN 1 ELSE 0)
      /\ code \in {"invalid_input", "unauthorized"} => committed'[r] = 0
  <2>1. committed \in [Requests -> Nat] /\ committed[r] = 0
    BY <1>0 DEF TypeOK, HoldInv
  <2>2. CASE UNCHANGED committed /\ (code = "ok" => ~Changing(r))
    BY <2>1, <2>2 DEF Changing
  <2>3. CASE Count(r, c) /\ (code = "ok" => (c \in wrote <=> Changing(r)))
                         /\ (code \in {"invalid_input", "unauthorized"} => c \notin wrote)
    <3>1. CASE c \in wrote
      BY <2>1, <2>3, <3>1 DEF Changing, Count
    <3>2. CASE c \notin wrote
      BY <2>1, <2>3, <3>2 DEF Changing, Count
    <3> QED
      BY <3>1, <3>2
  <2> QED
    BY <2>2, <2>3
<1>3. TypeOK'
  BY <1>0, <1>1, <1>2 DEF TypeOK, Answer, Refused
<1>4. RequestRight(r)'
  BY <1>0, <1>2, SqlAssumption
     DEF TypeOK, Answer, Refused, HoldInv, RequestRight, RequestInv, RanRight, ReplyRight, Underway
<1>5. \A q \in Requests \ {r} : SameRequest(q)
  BY <1>0, <1>2 DEF TypeOK, Answer, SameRequest
<1> QED
  BY <1>0, <1>1, <1>3, <1>4, <1>5, FramedOne

-----------------------------------------------------------------------------
(* The steps of a transaction *)

(* Each SET LOCAL makes one setting right and leaves the others alone, so  *)
(* after the last one all of them are.                                     *)
LEMMA SetLocalKeeps ==
  ASSUME SqlInv, NEW r \in Requests, SetLocal(r)
  PROVE  SqlInv'
<1> DEFINE a == ask[r]
           want == Asked(ask[r], job[r])
           name == Head(todo[r])[1]
           value == Head(todo[r])[2]
<1>0. /\ At(r, "set")
      /\ name = "role" => RoleKind[value] # "unknown"
      /\ todo' = [todo EXCEPT ![r] = Tail(todo[r])]
      /\ pc' = [pc EXCEPT ![r] = IF Len(todo[r]) = 1 THEN "run" ELSE "set"]
      /\ UNCHANGED <<replica, ask, job, fail, reply, holder, wrote, dropped, committing, committed, ran>>
  BY DEF SetLocal
<1>1. PICK c \in Conns : Carries(r, c) /\ local' = [local EXCEPT ![c] = [local[c] EXCEPT ![name] = value]]
  BY DEF SetLocal
<1>2. /\ TypeOK /\ RequestRight(r) /\ r # None /\ holder[c] = r /\ c \notin dropped
      /\ HoldInv(c, r) /\ ScopeInv(c, r) /\ \A d \in Conns \ {c} : holder[d] # r
  BY <1>1, Parts, Holding
<1>3. /\ a \in Asks /\ Refusal(a) = None /\ Scoped(a, job[r])
      /\ todo[r] \in Seq(Items(a)) /\ todo[r] # <<>>
  BY <1>0, <1>2 DEF At, Underway, RequestRight, RequestInv, TypeOK
<1>4. name \in SettingNames /\ value = want[name] /\ (name = "role" => value = RoleOf(a))
  <2>1. Head(todo[r]) \in Items(a)
    BY <1>3, TailKeeps
  <2> QED
    BY <1>3, <2>1, ItemsAreAsked
<1>5. want \in SettingsType /\ local[c] \in SettingsType
  BY <1>2, <1>3, AskedType DEF TypeOK
<1>6. /\ local'[c] \in SettingsType
      /\ local'[c][name] = want[name]
      /\ \A n \in SettingNames \ {name} : local'[c][n] = local[c][n]
  <2> HIDE DEF want, name, value
  <2>1. local'[c] = [local[c] EXCEPT ![name] = want[name]]
    BY <1>1, <1>2, <1>4 DEF TypeOK
  <2> QED
    BY <2>1, <1>4, <1>5, SettingsExcept
<1>7. /\ todo'[r] = Tail(todo[r]) /\ todo'[r] \in Seq(Items(a))
      /\ Len(todo[r]) = 1 => todo'[r] = <<>>
      /\ Len(todo[r]) # 1 => todo'[r] # <<>>
      /\ \A n : Pending(r, n) => n = name \/ Pending(r, n)'
  <2>1. todo'[r] = Tail(todo[r])
    BY <1>0, <1>2 DEF TypeOK
  <2>2. /\ Tail(todo[r]) \in Seq(Items(a))
        /\ Len(todo[r]) = 1 => Tail(todo[r]) = <<>>
        /\ Len(todo[r]) # 1 => Tail(todo[r]) # <<>>
        /\ \A i \in DOMAIN todo[r] : todo[r][i] = Head(todo[r]) \/ \E k \in DOMAIN Tail(todo[r]) : Tail(todo[r])[k] = todo[r][i]
    BY <1>3, TailKeeps
  <2>3. ASSUME NEW n, Pending(r, n), n # name
        PROVE  Pending(r, n)'
    <3>1. PICK i \in DOMAIN todo[r] : todo[r][i][1] = n
      BY <2>3 DEF Pending
    <3>2. PICK k \in DOMAIN Tail(todo[r]) : Tail(todo[r])[k] = todo[r][i]
      BY <2>2, <2>3, <3>1
    <3> QED
      BY <2>1, <3>1, <3>2 DEF Pending
  <2> QED
    BY <2>1, <2>2, <2>3
<1>8. TypeOK'
  BY <1>0, <1>1, <1>2, <1>6, <1>7 DEF TypeOK
<1>9. RequestRight(r)'
  BY <1>0, <1>2, <1>3, <1>7 DEF TypeOK, RequestRight, RequestInv, RanRight, ReplyRight, At, Underway
<1>10. \A q \in Requests \ {r} : SameRequest(q)
  BY <1>0, <1>2 DEF TypeOK, SameRequest
<1>11. \A d \in Conns \ {c} : SameConn(d)
  BY <1>0, <1>1, <1>2 DEF TypeOK, SameConn
<1>12. HoldInv(c, r)'
  BY <1>0, <1>2 DEF TypeOK, HoldInv, At, Changing
<1>13. /\ \A n \in SettingNames : local'[c][n] = want[n] \/ Pending(r, n)'
       /\ RoleKind[RoleOf(a)] # "unknown" \/ Pending(r, "role")'
  <2>1. /\ \A n \in SettingNames : local[c][n] = want[n] \/ Pending(r, n)
        /\ RoleKind[RoleOf(a)] # "unknown" \/ Pending(r, "role")
    BY <1>0, <1>2 DEF ScopeInv, At
  <2> HIDE DEF want, name, value
  <2> QED
    BY <2>1, <1>0, <1>4, <1>6, <1>7
<1>14. ScopeInv(c, r)'
  <2>0. ask' = ask /\ job' = job
    BY <1>0
  <2>1. CASE Len(todo[r]) = 1
    <3>1. pc'[r] = "run" /\ \A n : ~Pending(r, n)'
      BY <1>0, <1>2, <1>7, <2>1 DEF TypeOK, Pending
    <3>2. local'[c] = want
      BY <1>5, <1>6, <1>13, <3>1, SettingsEqual
    <3> QED
      BY <2>0, <1>13, <3>1, <3>2 DEF ScopeInv
  <2>2. CASE Len(todo[r]) # 1
    <3>1. pc'[r] = "set"
      BY <1>0, <1>2, <2>2 DEF TypeOK
    <3> QED
      BY <2>0, <1>13, <3>1 DEF ScopeInv
  <2> QED
    BY <2>1, <2>2
<1>15. ConnRight(c)'
  BY <1>0, <1>2, <1>12, <1>14 DEF ConnRight, HoldInv, ScopeInv, Pending, Changing
<1> QED
  BY <1>0, <1>2, <1>8, <1>9, <1>10, <1>11, <1>15, FramedOne

LEMMA SetFailsKeeps ==
  ASSUME SqlInv, NEW r \in Requests, SetFails(r)
  PROVE  SqlInv'
<1>1. PICK c \in Conns : Carries(r, c) /\ LetGo(r, c)
  BY DEF SetFails
<1>2. PICK code \in Refused : Answer(r, code)
  BY CodeRefuses DEF SetFails
<1> QED
  BY <1>1, <1>2, AnswerLettingGo DEF SetFails

(* The statement finds its settings made, and only it changes data. *)
LEMMA RunKeeps ==
  ASSUME SqlInv, NEW r \in Requests, Run(r)
  PROVE  SqlInv'
<1>0. /\ At(r, "run")
      /\ \/ pc' = [pc EXCEPT ![r] = "rollback"] /\ fail' = [fail EXCEPT ![r] = "Rejected"]
         \/ pc' = [pc EXCEPT ![r] = "commit"] /\ UNCHANGED fail
      /\ UNCHANGED <<replica, ask, job, todo, reply, holder, local, dropped, committing, committed>>
  BY DEF Run
<1>1. PICK c \in Conns :
        /\ Carries(r, c)
        /\ ran' = [ran EXCEPT ![r] = ran[r] \cup {<<job[r], local[c]>>}]
        /\ wrote' = IF Changing(r) THEN wrote \cup {c} ELSE wrote
  BY DEF Run, Changing
<1>2. /\ TypeOK /\ RequestRight(r) /\ r # None /\ holder[c] = r /\ c \notin dropped
      /\ HoldInv(c, r) /\ ScopeInv(c, r) /\ \A d \in Conns \ {c} : holder[d] # r
  BY <1>1, Parts, Holding
<1>3. local[c] = Asked(ask[r], job[r])
  BY <1>0, <1>2 DEF At, ScopeInv
<1>4. ask[r].via = "sql" => local[c].role # Owner /\ RoleKind[local[c].role] = "plain"
  <2>1. SUFFICES ASSUME ask[r].via = "sql"
                 PROVE  local[c].role # Owner /\ RoleKind[local[c].role] = "plain"
    OBVIOUS
  <2>2. ask[r] \in Asks /\ Refusal(ask[r]) = None /\ RoleKind[RoleOf(ask[r])] \notin Privileged
    BY <1>0, <1>2, <2>1 DEF At, RequestRight, RequestInv, Underway
  <2>3. Scoped(ask[r], job[r])
    BY <2>1 DEF Scoped
  <2>4. local[c].role = RoleOf(ask[r])
    BY <1>3, <2>3, AskedIs
  <2>5. RoleKind[RoleOf(ask[r])] # "unknown"
    BY <1>0, <1>2, <2>3 DEF At, ScopeInv
  <2>6. RoleOf(ask[r]) \in Roles /\ RoleOf(ask[r]) # Owner
    BY <2>1, <2>2, AcceptedType
  <2> QED
    BY <2>2, <2>4, <2>5, <2>6, SqlAssumption
<1>5. TypeOK'
  <2>1. ran' = [q \in Requests |-> ran'[q]] /\ wrote' \subseteq Conns
    BY <1>1, <1>2 DEF TypeOK
  <2>2. fail' \in [Requests -> {None, "Rejected", "Forbidden", "Pglite"}]
    BY <1>0, <1>2 DEF TypeOK
  <2>3. /\ pc' \in [Requests -> {"idle", "check", "begin", "set", "run", "commit", "rollback", "answered"}]
        /\ \A q \in Requests : pc'[q] = "set" => todo[q] # <<>>
    <3>1. PICK step \in {"rollback", "commit"} : pc' = [pc EXCEPT ![r] = step]
      BY <1>0
    <3> QED
      BY <3>1, <1>2 DEF TypeOK
  <2>4. UNCHANGED <<replica, ask, job, todo, reply, holder, local, dropped, committing, committed>>
    BY <1>0
  <2>5. TypeOK
    BY <1>2
  <2> QED
    BY <2>1, <2>2, <2>3, <2>4, <2>5 DEF TypeOK
<1>6. RequestRight(r)'
  <2>1. RanRight(r)'
    BY <1>0, <1>1, <1>2, <1>3, <1>4 DEF TypeOK, RequestRight, RanRight
  <2> QED
    BY <2>1, <1>0, <1>2 DEF TypeOK, RequestRight, RequestInv, ReplyRight, At, Underway
<1>7. \A q \in Requests \ {r} : SameRequest(q)
  BY <1>0, <1>1, <1>2 DEF TypeOK, SameRequest
<1>8. \A d \in Conns \ {c} : SameConn(d)
  BY <1>0, <1>1, <1>2 DEF TypeOK, SameConn
<1>9. HoldInv(c, r)' /\ ScopeInv(c, r)'
  <2>1. pc'[r] \in {"rollback", "commit"}
    BY <1>0, <1>2 DEF TypeOK
  <2>2. c \in wrote' <=> Changing(r)
    BY <1>0, <1>1, <1>2 DEF HoldInv, At
  <2> QED
    BY <2>1, <2>2, <1>0, <1>2 DEF HoldInv, ScopeInv, Changing, TypeOK, At
<1>10. ConnRight(c)'
  BY <1>0, <1>2, <1>9 DEF ConnRight, HoldInv, ScopeInv, Pending, Changing
<1> QED
  BY <1>0, <1>2, <1>5, <1>6, <1>7, <1>8, <1>10, FramedOne

LEMMA RunFailsKeeps ==
  ASSUME SqlInv, NEW r \in Requests, RunFails(r)
  PROVE  SqlInv'
<1>0. At(r, "run") /\ UNCHANGED <<replica, ask, job, todo>>
  BY DEF RunFails
<1>1. PICK c \in Conns, e \in DbErrors :
        /\ Carries(r, c)
        /\ \/ /\ pc' = [pc EXCEPT ![r] = "rollback"]
              /\ fail' = [fail EXCEPT ![r] = Mapped("sql", e)]
              /\ UNCHANGED <<reply, poolVars>>
           \/ /\ Answer(r, Code(IF Scoped(ask[r], job[r]) THEN Mapped(job[r], e) ELSE "Pglite"))
              /\ LetGo(r, c)
              /\ UNCHANGED <<fail, committing>>
  BY DEF RunFails
<1>2. /\ TypeOK /\ RequestRight(r) /\ r # None /\ holder[c] = r /\ c \notin dropped
      /\ HoldInv(c, r) /\ ScopeInv(c, r) /\ \A d \in Conns \ {c} : holder[d] # r
  BY <1>1, Parts, Holding
<1>3. CASE LetGo(r, c) /\ UNCHANGED <<fail, committing>> /\ \E x : Answer(r, Code(x))
  <2>1. PICK code \in Refused : Answer(r, code)
    BY <1>3, CodeRefuses
  <2> QED
    BY <1>0, <1>1, <1>3, <2>1, AnswerLettingGo
<1>4. CASE /\ pc' = [pc EXCEPT ![r] = "rollback"]
           /\ fail' = [fail EXCEPT ![r] = Mapped("sql", e)]
           /\ UNCHANGED <<reply, poolVars>>
  <2>1. Mapped("sql", e) \in {"Forbidden", "Pglite"}
    BY DEF Mapped, DbErrors
  <2>2. TypeOK'
    BY <1>0, <1>2, <1>4, <2>1 DEF TypeOK, poolVars
  <2>3. RequestRight(r)'
    BY <1>0, <1>2, <1>4
       DEF TypeOK, poolVars, RequestRight, RequestInv, RanRight, ReplyRight, At, Underway
  <2>4. \A q \in Requests \ {r} : SameRequest(q)
    BY <1>0, <1>2, <1>4 DEF TypeOK, poolVars, SameRequest
  <2>5. \A d \in Conns \ {c} : SameConn(d)
    BY <1>4 DEF poolVars, SameConn
  <2>6. HoldInv(c, r)' /\ ScopeInv(c, r)'
    BY <1>0, <1>2, <1>4 DEF TypeOK, poolVars, HoldInv, ScopeInv, Changing, At
  <2>7. ConnRight(c)' /\ holder'[c] = r
    BY <1>2, <1>4, <2>6 DEF poolVars, ConnRight, HoldInv, ScopeInv, Pending, Changing
  <2> QED
    BY <1>2, <2>2, <2>3, <2>4, <2>5, <2>7, FramedOne
<1> QED
  BY <1>1, <1>3, <1>4

(* COMMIT: the connection wrote exactly if the statement changes data.     *)
LEMMA CommitKeeps ==
  ASSUME SqlInv, NEW r \in Requests, Commit(r)
  PROVE  SqlInv'
<1>0. At(r, "commit") /\ Proceed(r) /\ UNCHANGED <<replica, ask, todo, fail, dropped, committing, ran>>
  BY DEF Commit
<1>1. PICK c \in Conns : Carries(r, c) /\ EndTransaction(c) /\ Count(r, c)
  BY DEF Commit
<1>2. /\ TypeOK /\ RequestRight(r) /\ r # None /\ holder[c] = r /\ c \notin dropped
      /\ HoldInv(c, r) /\ ScopeInv(c, r) /\ \A d \in Conns \ {c} : holder[d] # r
  BY <1>1, Parts, Holding
<1>3. c \in wrote <=> Changing(r)
  BY <1>0, <1>2 DEF HoldInv, At
<1>4. job[r] = "sql" <=> ask[r].via = "sql"
  BY <1>0, <1>2 DEF RequestRight, RequestInv, At, Underway
<1>5. CASE job[r] = "probe" /\ ~ask[r].stmt.duplicated
  <2>1. /\ pc' = [pc EXCEPT ![r] = "begin"] /\ job' = [job EXCEPT ![r] = "read"] /\ UNCHANGED reply
    BY <1>0, <1>5 DEF Proceed
  <2>2. committed' = committed
    BY <1>1, <1>3, <1>4, <1>5 DEF Count, Changing
  <2>3. /\ holder'[c] = None /\ ConnRight(c)' /\ \A d \in Conns \ {c} : SameConn(d)
        /\ holder' \in [Conns -> Requests \cup {None}] /\ local' \in [Conns -> SettingsType]
        /\ wrote' \subseteq Conns
    BY <1>0, <1>1, <1>2, Ending
  <2>4. TypeOK'
    BY <1>0, <1>2, <2>1, <2>2, <2>3 DEF TypeOK
  <2>5. RequestRight(r)'
    BY <1>0, <1>2, <1>4, <1>5, <2>1, <2>2
       DEF TypeOK, RequestRight, RequestInv, RanRight, ReplyRight, At, Underway
  <2>6. \A q \in Requests \ {r} : SameRequest(q)
    BY <1>0, <1>2, <2>1, <2>2 DEF TypeOK, SameRequest
  <2> QED
    BY <1>2, <2>3, <2>4, <2>5, <2>6, FramedOne
<1>6. CASE ~(job[r] = "probe" /\ ~ask[r].stmt.duplicated)
  <2>1. Answer(r, IF job[r] = "probe" THEN "invalid_input" ELSE "ok") /\ UNCHANGED job
    BY <1>0, <1>6 DEF Proceed
  <2>2. CASE job[r] = "probe"
    <3>1. Answer(r, "invalid_input") /\ c \notin wrote /\ "invalid_input" \in Refused \cup {"ok"}
      BY <1>3, <1>4, <2>1, <2>2 DEF Changing, Refused
    <3> QED
      BY <1>0, <1>1, <2>1, <3>1, AnswerEnding
  <2>3. CASE job[r] # "probe"
    <3>1. Answer(r, "ok") /\ "ok" \in Refused \cup {"ok"}
      BY <2>1, <2>3
    <3> QED
      BY <1>0, <1>1, <1>3, <2>1, <3>1, AnswerEnding
  <2> QED
    BY <2>2, <2>3
<1> QED
  BY <1>5, <1>6

LEMMA CommitFailsKeeps ==
  ASSUME SqlInv, NEW r \in Requests, CommitFails(r)
  PROVE  SqlInv'
<1>0. At(r, "commit") /\ UNCHANGED <<replica, ask, job, todo, fail, dropped, committing, ran>>
  BY DEF CommitFails
<1>1. PICK c \in Conns :
        /\ Carries(r, c) /\ EndTransaction(c)
        /\ \/ UNCHANGED committed /\ \E e \in DbErrors : Answer(r, Code(Mapped(job[r], e)))
           \/ Count(r, c) /\ Answer(r, "internal")
  BY DEF CommitFails
<1>2. CASE UNCHANGED committed /\ \E e \in DbErrors : Answer(r, Code(Mapped(job[r], e)))
  <2>1. PICK code \in Refused : Answer(r, code)
    BY <1>2, CodeRefuses
  <2>2. code # "ok"
    BY DEF Refused
  <2> QED
    BY <1>0, <1>1, <1>2, <2>1, <2>2, AnswerEnding
<1>3. CASE Count(r, c) /\ Answer(r, "internal")
  <2>1. "internal" \in Refused \cup {"ok"} /\ "internal" # "ok" /\ "internal" \notin {"invalid_input", "unauthorized"}
    BY DEF Refused
  <2> QED
    BY <1>0, <1>1, <1>3, <2>1, AnswerEnding
<1> QED
  BY <1>1, <1>2, <1>3

LEMMA RollbackKeeps ==
  ASSUME SqlInv, NEW r \in Requests, Rollback(r)
  PROVE  SqlInv'
<1>0. UNCHANGED <<replica, ask, job, todo, fail, committing>>
  BY DEF Rollback
<1>1. PICK c \in Conns :
        /\ Carries(r, c)
        /\ \/ EndTransaction(c) /\ UNCHANGED <<dropped, committed, ran>>
           \/ LetGo(r, c)
  BY DEF Rollback
<1>2. PICK code \in Refused : Answer(r, code)
  BY CodeRefuses DEF Rollback
<1>3. code # "ok"
  BY DEF Refused
<1>4. CASE EndTransaction(c) /\ UNCHANGED <<dropped, committed, ran>>
  BY <1>0, <1>1, <1>2, <1>3, <1>4, AnswerEnding
<1>5. CASE LetGo(r, c)
  BY <1>0, <1>1, <1>2, <1>5, AnswerLettingGo
<1> QED
  BY <1>1, <1>4, <1>5

(* The deadline may strike wherever the request waits. *)
LEMMA DeadlineKeeps ==
  ASSUME SqlInv, NEW r \in Requests, Deadline(r)
  PROVE  SqlInv'
<1>0. Underway(r) /\ Answer(r, "busy") /\ UNCHANGED <<replica, ask, job, todo, fail>>
  BY DEF Deadline, Underway
<1>1. "busy" \in Refused \cup {"busy"}
  OBVIOUS
<1>2. CASE \E c \in Conns : Carries(r, c)
  <2>1. PICK c \in Conns :
          /\ Carries(r, c) /\ LetGo(r, c)
          /\ committing' = IF At(r, "commit") THEN committing \cup {c} ELSE committing
    BY <1>2 DEF Deadline
  <2> QED
    BY <1>0, <1>1, <2>1, AnswerLettingGo
<1>3. CASE \A c \in Conns : ~Carries(r, c)
  <2>1. UNCHANGED poolVars
    BY <1>3 DEF Deadline
  <2> QED
    BY <1>0, <1>1, <1>3, <2>1, AnswerAlone
<1> QED
  BY <1>2, <1>3

(* What the engine recovers belongs to a request that was answered, and a  *)
(* COMMIT that wins to one that was answered busy.                         *)
LEMMA RecoverKeeps ==
  ASSUME SqlInv, NEW c \in Conns, Recover(c)
  PROVE  SqlInv'
<1>0. /\ c \in dropped /\ EndTransaction(c)
      /\ dropped' = dropped \ {c} /\ committing' = committing \ {c}
      /\ UNCHANGED <<replica, ask, pc, job, todo, fail, reply, ran>>
  BY DEF Recover, requestVars
<1>1. PICK r : r = holder[c]
  OBVIOUS
<1>2. TypeOK /\ holder[c] # None
  BY <1>0 DEF SqlInv, NoStateSurvives
<1>3. /\ r \in Requests /\ RequestRight(r) /\ HoldInv(c, r)
      /\ \A d \in Conns \ {c} : holder[d] # r
  BY <1>1, <1>2, Parts DEF TypeOK, ConnRight, HoldInv
<1>4. /\ holder'[c] = None /\ ConnRight(c)' /\ \A d \in Conns \ {c} : SameConn(d)
      /\ holder' \in [Conns -> Requests \cup {None}] /\ local' \in [Conns -> SettingsType]
      /\ wrote' \subseteq Conns
  BY <1>0, <1>2, Ending
<1>5. /\ committed' \in [Requests -> Nat]
      /\ \A q \in Requests \ {r} : committed'[q] = committed[q]
      /\ committed'[r] <= 1
      /\ reply[r] # "busy" => committed'[r] = committed[r]
  <2>1. committed \in [Requests -> Nat] /\ committed[r] = 0
    BY <1>2, <1>3 DEF TypeOK, HoldInv
  <2>2. CASE committed' = committed
    BY <2>1, <2>2
  <2>3. CASE c \in committing /\ c \in wrote /\ committed' = [committed EXCEPT ![r] = committed[r] + 1]
    <3>1. reply[r] = "busy"
      BY <1>3, <2>3 DEF HoldInv
    <3> QED
      BY <2>1, <2>3, <3>1, <1>3
  <2> QED
    BY <1>1, <2>2, <2>3 DEF Recover, Count
<1>6. TypeOK'
  BY <1>0, <1>2, <1>4, <1>5 DEF TypeOK
<1>7. pc[r] = "answered" /\ reply[r] # None
  BY <1>0, <1>3 DEF HoldInv, RequestRight, RequestInv
<1>8. RequestRight(r)'
  BY <1>0, <1>3, <1>5, <1>7 DEF RequestRight, RequestInv, RanRight, ReplyRight, Underway
<1>9. \A q \in Requests \ {r} : SameRequest(q)
  BY <1>0, <1>5 DEF SameRequest
<1> QED
  BY <1>3, <1>4, <1>6, <1>8, <1>9, FramedOne

-----------------------------------------------------------------------------
(* The theorems *)

LEMMA InitHolds == Init => SqlInv
<1>1. SUFFICES ASSUME Init PROVE SqlInv
  OBVIOUS
<1>2. Default \in SettingsType
  BY DEF Default, SettingsType
<1>3. TypeOK
  BY <1>1, <1>2 DEF Init, TypeOK
<1>4. ASSUME NEW r \in Requests PROVE RequestRight(r)
  BY <1>1, SqlAssumption DEF Init, RequestRight, RequestInv, RanRight, ReplyRight, Underway
<1>5. ASSUME NEW c \in Conns PROVE ConnRight(c)
  BY <1>1 DEF Init, ConnRight, Free
<1> QED
  BY <1>3, <1>4, <1>5, Parts

LEMMA NextKeeps == SqlInv /\ [Next]_vars => SqlInv'
<1>1. SUFFICES ASSUME SqlInv, [Next]_vars PROVE SqlInv'
  OBVIOUS
<1>2. ASSUME NEW r \in Requests, Step(r) PROVE SqlInv'
  BY <1>1, <1>2, ArriveKeeps, CheckRoleKeeps, AcquireFailsKeeps, BeginKeeps, SetLocalKeeps, SetFailsKeeps,
     RunKeeps, RunFailsKeeps, CommitKeeps, CommitFailsKeeps, RollbackKeeps, DeadlineKeeps DEF Step
<1>3. ASSUME NEW c \in Conns, Recover(c) PROVE SqlInv'
  BY <1>1, <1>3, RecoverKeeps
<1>4. CASE UNCHANGED vars
  <2>1. ASSUME NEW r \in Requests PROVE SameRequest(r)
    BY <1>4 DEF vars, SameRequest
  <2>2. ASSUME NEW c \in Conns PROVE SameConn(c) /\ holder' = holder
    BY <1>4 DEF vars, SameConn
  <2>3. TypeOK'
    BY <1>1, <1>4 DEF SqlInv, TypeOK, vars
  <2>4. ASSUME NEW r \in Requests PROVE RequestRight(r)'
    BY <1>1, <2>1, <2>4, Parts, SameRequestRight
  <2>5. ASSUME NEW c \in Conns PROVE ConnRight(c)'
    <3>1. ConnRight(c) /\ (holder[c] # None => SameRequest(holder[c]))
      BY <1>1, <2>1, Parts DEF TypeOK
    <3> QED
      BY <2>2, <3>1, SameConnRight
  <2> QED
    BY <2>3, <2>4, <2>5
       DEF SqlInv, NoStateSurvives, RunsAsAsked, RepliesTrue, RequestRight, RanRight, ReplyRight, ConnRight, Free
<1> QED
  BY <1>1, <1>2, <1>3, <1>4 DEF Next

LEMMA InvariantHolds == Spec => []SqlInv
BY InitHolds, NextKeeps, PTL DEF Spec

(* Every variable keeps its range. *)
THEOREM TypeCorrect == Spec => []TypeOK
<1>1. SqlInv => TypeOK
  BY DEF SqlInv
<1> QED
  BY <1>1, InvariantHolds, PTL

(* Every statement runs under exactly the settings of its request, and a   *)
(* sql statement under no privileged role, whatever else uses the pool     *)
(* (begin_scoped, run_sql_as).                                             *)
THEOREM SettingsAreAsked == Spec => []RunsAsAsked
<1>1. SqlInv => RunsAsAsked
  BY DEF SqlInv
<1> QED
  BY <1>1, InvariantHolds, PTL

(* A connection that is free has nothing of its last transaction left,     *)
(* however that one ended.                                                 *)
THEOREM ConnectionsClean == Spec => []NoStateSurvives
<1>1. SqlInv => NoStateSurvives
  BY DEF SqlInv
<1> QED
  BY <1>1, InvariantHolds, PTL

(* No statement takes effect twice, an acknowledged one did, and a refused *)
(* one never does, also after the answer.                                  *)
THEOREM AnswersTrue == Spec => []RepliesTrue
<1>1. SqlInv => RepliesTrue
  BY DEF SqlInv
<1> QED
  BY <1>1, InvariantHolds, PTL
=============================================================================
