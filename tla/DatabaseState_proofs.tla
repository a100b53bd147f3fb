------------------------ MODULE DatabaseState_proofs -------------------------
(***************************************************************************)
(* What the server takes from the state of a database: the verdict cache,  *)
(* for any number of tables, requests and catalog changes, and the         *)
(* settings of an upstream server, for any number of operators, commands   *)
(* and restarts.                                                           *)
(***************************************************************************)
EXTENDS SecurityVerdicts, UpstreamSetup, TLAPS

(* The verdict cache *)

PCs == {"idle", "version", "lookup", "classify", "store", "done"}

Req == [pc : PCs, tables : SUBSET Tables, since : Positions, v : Positions,
        found : [Tables -> Kinds]]

(* A catalog change keeps every old position and what was found there. *)
LEMMA AlterKeeps ==
  ASSUME TypeOK, NEW t \in Tables, NEW kind \in Kinds, Alter(t, kind)
  PROVE  /\ catalog' \in Seq([Tables -> Kinds]) /\ Len(catalog') = Len(catalog) + 1
         /\ Positions \subseteq Positions'
         /\ \A p \in Positions : catalog'[p + 1] = catalog[p + 1]
<1>1. catalog \in Seq([Tables -> Kinds]) /\ Len(catalog) \in Nat /\ Len(catalog) >= 1
  BY DEF TypeOK
<1>2. [catalog[Len(catalog)] EXCEPT ![t] = kind] \in [Tables -> Kinds]
  BY <1>1
<1> QED
  BY <1>1, <1>2 DEF Alter, Positions, Version

(* What was so since n is still so. *)
LEMMA WasSinceStable ==
  ASSUME Positions \subseteq Positions', \A p \in Positions : catalog'[p + 1] = catalog[p + 1]
  PROVE  \A t, kind, n : WasSince(t, kind, n) => WasSince(t, kind, n)'
BY DEF WasSince

(* The catalog of now was so since any position up to now. *)
LEMMA NowIsSince ==
  ASSUME TypeOK, NEW t \in Tables, NEW n \in Positions
  PROVE  WasSince(t, catalog[Len(catalog)][t], n)
<1>1. Len(catalog) \in Nat /\ Len(catalog) >= 1
  BY DEF TypeOK
<1>2. Version \in Positions /\ Version >= n /\ Version + 1 = Len(catalog)
  BY <1>1 DEF Positions, Version
<1> QED
  BY <1>2 DEF WasSince

(* What was so since n was so since any earlier moment. *)
LEMMA WasSinceEarlier ==
  ASSUME TypeOK, NEW n \in Positions, NEW m \in Positions, m <= n, NEW t, NEW kind,
         WasSince(t, kind, n)
  PROVE  WasSince(t, kind, m)
<1>1. Len(catalog) \in Nat
  BY DEF TypeOK
<1> QED
  BY <1>1 DEF WasSince, Positions, Version

(* A request that moves on stays a request. *)
LEMMA GotoType ==
  ASSUME TypeOK, NEW r \in Requests, NEW stage \in PCs, NEW v \in Positions,
         NEW found \in [Tables -> Kinds], Goto(r, stage, v, found)
  PROVE  /\ req' \in [Requests -> Req]
         /\ req'[r] = Step(stage, req[r].tables, req[r].since, v, found)
         /\ \A s \in Requests : s # r => req'[s] = req[s]
<1>1. req \in [Requests -> Req]
  BY DEF TypeOK, Req, PCs
<1>2. req[r].tables \in SUBSET Tables /\ req[r].since \in Positions
  BY <1>1 DEF Req
<1>3. Step(stage, req[r].tables, req[r].since, v, found) \in Req
  BY <1>2 DEF Step, Req
<1> QED
  BY <1>1, <1>3 DEF Goto

(* Initially there is nothing to be stale. *)
LEMMA InitInv == Init => IInv
<1> SUFFICES ASSUME Init PROVE IInv OBVIOUS
<1>1. PICK c \in [Tables -> Kinds] : catalog = <<c>>
  BY DEF Init
<1>2. catalog \in Seq([Tables -> Kinds]) /\ Len(catalog) = 1 /\ 0 \in Positions
  BY <1>1 DEF Positions, Version
<1>3. NoVerdicts \in [Tables -> Kinds]
  BY DEF NoVerdicts, Kinds
<1>4. TypeOK
  BY <1>2, <1>3 DEF Init, TypeOK, Step
<1>5. EntriesNotOlder
  BY DEF Init, EntriesNotOlder, NoVerdicts
<1>6. RequestsCurrent
  BY DEF Init, RequestsCurrent, Step
<1> QED
  BY <1>4, <1>5, <1>6 DEF IInv

(* One request's part of RequestsCurrent. *)
Current(r) ==
  /\ req[r].pc \in {"lookup", "classify", "store"} => req[r].since <= req[r].v
  /\ req[r].pc = "store" => \A t \in Tables :
        req[r].found[t] # "missing" => WasSince(t, req[r].found[t], req[r].v)
  /\ req[r].pc = "done" => \A t \in req[r].tables :
        req[r].found[t] # "missing" => WasSince(t, req[r].found[t], req[r].since)

(* A step of one request over a fixed catalog keeps the invariant if it    *)
(* keeps the types, the cache's part and its own part.                     *)
LEMMA RequestStep ==
  ASSUME IInv, UNCHANGED catalog, NEW r \in Requests,
         cached' \in Positions, verdicts' \in [Tables -> Kinds],
         req' \in [Requests -> Req],
         \A s \in Requests : s # r => req'[s] = req[s],
         EntriesNotOlder', Current(r)'
  PROVE  IInv'
<1>1. Positions' = Positions
  BY DEF Positions, Version
<1>2. TypeOK'
  BY <1>1 DEF IInv, TypeOK, Req, PCs
<1>3. ASSUME NEW s \in Requests, s # r
      PROVE  Current(s)'
  <2>1. Current(s)
    BY DEF IInv, RequestsCurrent, Current
  <2>2. \A t, kind, n : WasSince(t, kind, n)' <=> WasSince(t, kind, n)
    BY <1>1 DEF WasSince
  <2>3. req'[s] = req[s]
    BY <1>3
  <2> QED
    BY <2>1, <2>2, <2>3 DEF Current
<1>4. RequestsCurrent'
  BY <1>3 DEF RequestsCurrent, Current
<1> QED
  BY <1>2, <1>4 DEF IInv

(* Over a fixed catalog and cache, entries stay as new as they were. *)
LEMMA CacheKept ==
  ASSUME EntriesNotOlder, UNCHANGED <<catalog, cached, verdicts>>
  PROVE  EntriesNotOlder'
BY DEF EntriesNotOlder, WasSince, Positions, Version

(* A catalog change leaves every finding true. *)
LEMMA AlterInv ==
  ASSUME IInv, NEW t \in Tables, NEW kind \in Kinds, Alter(t, kind)
  PROVE  IInv'
<1>1. TypeOK /\ UNCHANGED <<cached, verdicts, req>>
  BY DEF IInv, Alter
<1>2. /\ catalog' \in Seq([Tables -> Kinds]) /\ Len(catalog') = Len(catalog) + 1
      /\ Positions \subseteq Positions'
      /\ \A p \in Positions : catalog'[p + 1] = catalog[p + 1]
  BY <1>1, AlterKeeps
<1>3. \A u, k, n : WasSince(u, k, n) => WasSince(u, k, n)'
  BY <1>2, WasSinceStable
<1>4. TypeOK'
  <2>1. Len(catalog) \in Nat /\ Len(catalog) >= 1
    BY <1>1 DEF TypeOK
  <2>2. req' \in [Requests -> Req]'
    BY <1>1, <1>2 DEF TypeOK, Req, PCs
  <2> QED
    BY <1>1, <1>2, <2>1, <2>2 DEF TypeOK, Req, PCs
<1>5. EntriesNotOlder'
  BY <1>1, <1>3 DEF IInv, EntriesNotOlder
<1>6. RequestsCurrent'
  BY <1>1, <1>3 DEF IInv, RequestsCurrent
<1> QED
  BY <1>4, <1>5, <1>6 DEF IInv

(* Every step of a request keeps the invariant. *)
LEMMA RequestInv ==
  ASSUME IInv, NEW r \in Requests,
         \/ \E tables \in SUBSET Tables : Start(r, tables)
         \/ ReadVersion(r) \/ Lookup(r) \/ Classify(r) \/ Fail(r) \/ Store(r)
  PROVE  IInv'
<1>1. /\ TypeOK /\ EntriesNotOlder /\ Current(r)
      /\ Len(catalog) \in Nat /\ Len(catalog) >= 1
      /\ catalog[Len(catalog)] \in [Tables -> Kinds]
  BY DEF IInv, TypeOK, RequestsCurrent, Current
<1>2. Version \in Positions /\ 0 \in Positions /\ \A p \in Positions : p \in Nat /\ p <= Version
  BY <1>1 DEF Positions, Version
<1>3. NoVerdicts \in [Tables -> Kinds] /\ cached \in Positions /\ verdicts \in [Tables -> Kinds]
  BY <1>1 DEF NoVerdicts, Kinds, TypeOK
<1>4. /\ req \in [Requests -> Req] /\ req[r].tables \in SUBSET Tables
      /\ req[r].since \in Positions /\ req[r].v \in Positions
      /\ req[r].found \in [Tables -> Kinds]
  BY <1>1 DEF TypeOK, Req, PCs
<1>5. ASSUME UNCHANGED catalog
      PROVE  \A u, k, n : WasSince(u, k, n)' <=> WasSince(u, k, n)
  BY <1>5 DEF WasSince, Positions, Version
<1>6. ASSUME NEW tables \in SUBSET Tables, Start(r, tables)
      PROVE  IInv'
  <2>1. UNCHANGED <<catalog, cached, verdicts>>
    BY <1>6 DEF Start
  <2>2. Step("version", tables, Version, 0, NoVerdicts) \in Req
    BY <1>2, <1>3 DEF Step, Req, PCs
  <2>3. /\ req' \in [Requests -> Req] /\ req'[r].pc = "version"
        /\ \A s \in Requests : s # r => req'[s] = req[s]
    BY <1>4, <1>6, <2>2 DEF Start, Step
  <2>4. Current(r)'
    BY <2>3 DEF Current
  <2> QED
    BY <1>1, <1>3, <2>1, <2>3, <2>4, CacheKept, RequestStep
<1>7. CASE ReadVersion(r)
  <2>1. UNCHANGED <<catalog, cached, verdicts>> /\ Goto(r, "lookup", Version, NoVerdicts)
    BY <1>7 DEF ReadVersion
  <2>2. /\ req' \in [Requests -> Req]
        /\ req'[r] = Step("lookup", req[r].tables, req[r].since, Version, NoVerdicts)
        /\ \A s \in Requests : s # r => req'[s] = req[s]
    BY <1>1, <1>2, <1>3, <2>1, GotoType DEF PCs
  <2>3. Current(r)'
    BY <1>2, <1>4, <2>2 DEF Current, Step
  <2> QED
    BY <1>1, <1>3, <2>1, <2>2, <2>3, CacheKept, RequestStep
<1>8. CASE Lookup(r)
  <2>1. UNCHANGED <<catalog, cached, verdicts>> /\ req[r].pc = "lookup" /\ req[r].since <= req[r].v
    BY <1>1, <1>8 DEF Lookup, Current
  <2>2. CASE Hit(r)
    <3>1. Goto(r, "done", req[r].v, verdicts) /\ cached = req[r].v
      BY <1>8, <2>2 DEF Lookup, Hit
    <3>2. /\ req' \in [Requests -> Req]
          /\ req'[r] = Step("done", req[r].tables, req[r].since, req[r].v, verdicts)
          /\ \A s \in Requests : s # r => req'[s] = req[s]
      BY <1>1, <1>3, <1>4, <3>1, GotoType DEF PCs
    <3>3. \A t \in Tables : verdicts[t] # "missing" => WasSince(t, verdicts[t], req[r].since)
      BY <1>1, <1>4, <2>1, <3>1, WasSinceEarlier DEF EntriesNotOlder
    <3>4. Current(r)'
      BY <1>4, <1>5, <2>1, <3>2, <3>3 DEF Current, Step
    <3> QED
      BY <1>1, <1>3, <2>1, <3>2, <3>4, CacheKept, RequestStep
  <2>3. CASE ~Hit(r)
    <3>1. Goto(r, "classify", req[r].v, NoVerdicts)
      BY <1>8, <2>3 DEF Lookup
    <3>2. /\ req' \in [Requests -> Req]
          /\ req'[r] = Step("classify", req[r].tables, req[r].since, req[r].v, NoVerdicts)
          /\ \A s \in Requests : s # r => req'[s] = req[s]
      BY <1>1, <1>3, <1>4, <3>1, GotoType DEF PCs
    <3>3. Current(r)'
      BY <2>1, <3>2 DEF Current, Step
    <3> QED
      BY <1>1, <1>3, <2>1, <3>2, <3>3, CacheKept, RequestStep
  <2> QED
    BY <2>2, <2>3
<1>9. CASE Classify(r)
  <2> DEFINE found == [t \in Tables |-> IF t \in req[r].tables THEN catalog[Len(catalog)][t] ELSE "missing"]
  <2>1. /\ UNCHANGED <<catalog, cached, verdicts>> /\ req[r].since <= req[r].v
        /\ Goto(r, "store", req[r].v, found)
    BY <1>1, <1>9 DEF Classify, Current
  <2>2. found \in [Tables -> Kinds]
    BY <1>1 DEF Kinds
  <2>3. \A t \in Tables : found[t] # "missing" => WasSince(t, found[t], req[r].v)
    BY <1>1, <1>4, NowIsSince
  <2> HIDE DEF found
  <2>4. /\ req' \in [Requests -> Req]
        /\ req'[r] = Step("store", req[r].tables, req[r].since, req[r].v, found)
        /\ \A s \in Requests : s # r => req'[s] = req[s]
    BY <1>1, <1>4, <2>1, <2>2, GotoType DEF PCs
  <2>5. Current(r)'
    BY <1>5, <2>1, <2>3, <2>4 DEF Current, Step
  <2> QED
    BY <1>1, <1>3, <2>1, <2>4, <2>5, CacheKept, RequestStep
<1>10. CASE Fail(r)
  <2>1. UNCHANGED <<catalog, cached, verdicts>> /\ Goto(r, "idle", 0, NoVerdicts)
    BY <1>10 DEF Fail
  <2>2. /\ req' \in [Requests -> Req]
        /\ req'[r] = Step("idle", req[r].tables, req[r].since, 0, NoVerdicts)
        /\ \A s \in Requests : s # r => req'[s] = req[s]
    BY <1>1, <1>2, <1>3, <2>1, GotoType DEF PCs
  <2>3. Current(r)'
    BY <2>2 DEF Current, Step
  <2> QED
    BY <1>1, <1>3, <2>1, <2>2, <2>3, CacheKept, RequestStep
<1>11. CASE Store(r)
  <2>1. /\ UNCHANGED catalog /\ req[r].pc = "store" /\ cached' = req[r].v
        /\ Goto(r, "done", req[r].v, req[r].found)
        /\ verdicts' = [t \in Tables |->
             IF req[r].found[t] # "missing" THEN req[r].found[t]
             ELSE IF cached = req[r].v THEN verdicts[t] ELSE "missing"]
    BY <1>11 DEF Store
  <2>2. /\ req[r].since <= req[r].v
        /\ \A t \in Tables : req[r].found[t] # "missing" => WasSince(t, req[r].found[t], req[r].v)
    BY <1>1, <2>1 DEF Current
  <2>3. verdicts' \in [Tables -> Kinds]
    BY <1>3, <1>4, <2>1 DEF Kinds
  <2>4. /\ req' \in [Requests -> Req]
        /\ req'[r] = Step("done", req[r].tables, req[r].since, req[r].v, req[r].found)
        /\ \A s \in Requests : s # r => req'[s] = req[s]
    BY <1>1, <1>4, <2>1, GotoType DEF PCs
  <2>5. \A t \in Tables : req[r].found[t] # "missing" => WasSince(t, req[r].found[t], req[r].since)
    BY <1>1, <1>4, <2>2, WasSinceEarlier
  <2>6. Current(r)'
    BY <1>4, <1>5, <2>1, <2>4, <2>5 DEF Current, Step
  <2>7. EntriesNotOlder'
    <3> SUFFICES ASSUME NEW t \in Tables, verdicts'[t] # "missing"
                 PROVE  WasSince(t, verdicts[t], cached)'
      BY DEF EntriesNotOlder
    <3>1. WasSince(t, verdicts'[t], cached')
      BY <1>1, <2>1, <2>2 DEF EntriesNotOlder
    <3> QED
      BY <1>5, <2>1, <3>1
  <2> QED
    BY <1>4, <2>1, <2>3, <2>4, <2>6, <2>7, RequestStep
<1> QED
  BY <1>6, <1>7, <1>8, <1>9, <1>10, <1>11

(* The invariant is inductive. *)
LEMMA NextInv == IInv /\ [Next]_vars => IInv'
<1> SUFFICES ASSUME IInv, [Next]_vars PROVE IInv' OBVIOUS
<1>1. CASE UNCHANGED vars
  BY <1>1 DEF vars, IInv, TypeOK, EntriesNotOlder, RequestsCurrent, WasSince, Positions, Version
<1>2. CASE Next
  BY <1>2, AlterInv, RequestInv DEF Next
<1> QED
  BY <1>1, <1>2

(* What was found public is current. *)
LEMMA InvIsCurrent == IInv => PublicIsCurrent
<1> SUFFICES ASSUME IInv, NEW r \in Requests, req[r].pc = "done", ~IsPrivate(r),
                    NEW t \in req[r].tables
             PROVE  WasSince(t, "public", req[r].since)
  BY DEF PublicIsCurrent
<1>1. req[r].found[t] = "public"
  BY DEF IsPrivate, MergeVerdicts
<1> QED
  BY <1>1 DEF IInv, RequestsCurrent

(* Versions and positions never run ahead of the catalog. *)
THEOREM TypeCorrect == Spec => []TypeOK
<1>1. IInv => TypeOK
  BY DEF IInv
<1> QED
  BY <1>1, InitInv, NextInv, PTL DEF Spec

(* A stale public verdict is never used: for any number of requests that   *)
(* race through is_private while the catalog changes, a query found public *)
(* has tables that were public after the request began.                    *)
THEOREM PublicVerdictsAreCurrent == Spec => []PublicIsCurrent
BY InitInv, NextInv, InvIsCurrent, PTL DEF Spec

(* The cache never files an older verdict under a newer version. *)
THEOREM CacheEntriesNotOlder == Spec => []EntriesNotOlder
<1>1. IInv => EntriesNotOlder
  BY DEF IInv
<1> QED
  BY <1>1, InitInv, NextInv, PTL DEF Spec

-----------------------------------------------------------------------------
(* Upstream setup *)

(* A value as preflight wants it, or one of a setting of which no report   *)
(* can speak.                                                              *)
Good(p, v) == p \in lowered \/ Suffices(p, v)

(* Why they hold.  A setting that is good never ceases to be: only values  *)
(* that suffice are written, and a restart runs what is configured.        *)
KeptAcrossRestart == \A p \in ParamNames : Good(p, running[p]) => Good(p, configured[p])

(* The settings the command of i is through with. *)
Through(i) == IF pc[i] \in {"apply", "preflight"} THEN at[i] - 1 ELSE Len(Params)

(* What a command has found or put right is so: of init, what it could do  *)
(* without the operator's help; of serve, everything.                      *)
Progress(i) ==
    /\ pc[i] \in {"apply", "preflight"} => at[i] <= Len(Params)
    /\ pc[i] \in {"apply", "publication", "create", "trigger", "report"} /\ i \notin needsManual =>
          \A k \in 1 .. Through(i) :
              /\ Good(Params[k], configured[Params[k]])
              /\ i \notin needsRestart => Good(Params[k], running[Params[k]])
    /\ pc[i] \in {"preflight", "find_publication"} =>
          \A k \in 1 .. Through(i) : Good(Params[k], running[Params[k]])
    /\ pc[i] \in Finishing => publication

SetupInv ==
    /\ SetupTypeOK /\ KeptAcrossRestart
    /\ \A i \in Clients : Progress(i)
    /\ ReportsHold /\ ServedHolds

-----------------------------------------------------------------------------
(* The settings *)

LEMMA ParamsFacts ==
  /\ Len(Params) = 3
  /\ \A k \in 1 .. 3 : Params[k] \in ParamNames
  /\ \A p \in ParamNames : \E k \in 1 .. 3 : Params[k] = p
<1>1. Params[1] = "wal_level" /\ Params[2] = "max_wal_senders" /\ Params[3] = "max_replication_slots" /\ Len(Params) = 3
  BY DEF Params
<1>2. \A k \in 1 .. 3 : k = 1 \/ k = 2 \/ k = 3
  OBVIOUS
<1> QED
  BY <1>1, <1>2 DEF ParamNames

(* What init aims at suffices, and what it leaves alone does. *)
LEMMA SettingsFacts ==
  ASSUME NEW s \in SettingsType, NEW p \in ParamNames
  PROVE  /\ Enough(p, s[p]) => Suffices(p, s[p])
         /\ Suffices(p, Target(p))
         /\ [s EXCEPT ![p] = Target(p)] \in SettingsType
         /\ \A q \in ParamNames : [s EXCEPT ![p] = Target(p)][q] = IF q = p THEN Target(p) ELSE s[q]
<1>1. p = "wal_level" \/ s[p] \in Nat
  BY SetupAssumption DEF SettingsType, ParamNames
<1>2. Enough(p, s[p]) => Suffices(p, s[p])
  BY <1>1 DEF Enough, Suffices
<1>3. Suffices(p, Target(p))
  BY DEF Suffices, Target
<1>4. [s EXCEPT ![p] = Target(p)] \in SettingsType
  BY SetupAssumption DEF SettingsType, ParamNames, Target
<1>5. \A q \in ParamNames : [s EXCEPT ![p] = Target(p)][q] = IF q = p THEN Target(p) ELSE s[q]
  BY DEF SettingsType, ParamNames
<1> QED
  BY <1>2, <1>3, <1>4, <1>5

(* A setting that init or the operator has written harms no other. *)
LEMMA WriteFacts ==
  ASSUME NEW s \in SettingsType, NEW p \in ParamNames, NEW t, t = [s EXCEPT ![p] = Target(p)]
  PROVE  t \in SettingsType /\ \A q \in ParamNames : Good(q, s[q]) => Good(q, t[q])
<1>1. t \in SettingsType /\ Suffices(p, Target(p))
  BY SettingsFacts
<1>2. \A q \in ParamNames : t[q] = IF q = p THEN Target(p) ELSE s[q]
  BY SettingsFacts
<1> QED
  BY <1>1, <1>2 DEF Good

AllSuffice(s) == \A p \in ParamNames : Good(p, s[p])

(* What the properties ask for. *)
LEMMA ServesIs == \A s : Serves(s) <=> AllSuffice(s) /\ publication
BY DEF Serves, AllSuffice, ParamNames, Good, Suffices

LEMMA AllByNumber == \A s : AllSuffice(s) <=> \A k \in 1 .. 3 : Good(Params[k], s[Params[k]])
BY ParamsFacts DEF AllSuffice

-----------------------------------------------------------------------------
(* A command's step *)

Told(i) ==
    /\ outcome[i] \in {"ready", "served"} => AllSuffice(running) /\ AllSuffice(configured) /\ publication
    /\ outcome[i] = "restart" => AllSuffice(configured) /\ publication

LEMMA SetupParts ==
  SetupInv <=> SetupTypeOK /\ KeptAcrossRestart /\ (\A i \in Clients : Progress(i)) /\ (\A i \in Clients : Told(i))
BY ServesIs DEF SetupInv, ReportsHold, ServedHolds, Told

(* The server only gets better for those who replicate from it. *)
Better ==
    /\ running' = running /\ lowered' = lowered
    /\ publication => publication'
    /\ \A p \in ParamNames : Good(p, configured[p]) => Good(p, configured'[p])

SameClient(j) ==
    /\ pc'[j] = pc[j] /\ at'[j] = at[j] /\ outcome'[j] = outcome[j]
    /\ j \in needsRestart' <=> j \in needsRestart
    /\ j \in needsManual' <=> j \in needsManual

LEMMA SameClientRight ==
  ASSUME Better, SetupTypeOK, NEW j \in Clients, SameClient(j), Progress(j), Told(j)
  PROVE  Progress(j)' /\ Told(j)'
<1>1. Told(j)'
  BY DEF Told, Better, SameClient, AllSuffice, Good
<1>2. Through(j)' = Through(j) /\ Through(j) \in 0 .. 3
  BY ParamsFacts DEF Through, SameClient, SetupTypeOK
<1>3. Progress(j)'
  BY <1>2, ParamsFacts DEF Progress, SameClient, Better, Good
<1> QED
  BY <1>1, <1>3

(* Steps on a server that gets no worse. *)
LEMMA ServerStep ==
  ASSUME SetupInv, SetupTypeOK', Better,
         \A j \in Clients : SameClient(j) \/ (Progress(j)' /\ Told(j)')
  PROVE  SetupInv'
<1>1. KeptAcrossRestart'
  BY DEF SetupInv, KeptAcrossRestart, Better, Good
<1>2. \A j \in Clients : Progress(j)' /\ Told(j)'
  BY SetupParts, SameClientRight
<1> QED
  BY <1>1, <1>2 DEF SetupInv, ReportsHold, ServedHolds, Told, Serves, AllSuffice, ParamNames, Good, Suffices

LEMMA ClientStep ==
  ASSUME SetupInv, SetupTypeOK', Better, NEW i \in Clients, Progress(i)', Told(i)',
         \A j \in Clients \ {i} : SameClient(j)
  PROVE  SetupInv'
BY ServerStep

(* A command that ends with an error, or is refused, leaves nothing to     *)
(* show.                                                                   *)
LEMMA EndStep ==
  ASSUME SetupInv, SetupTypeOK', Better, NEW i \in Clients, pc'[i] = "idle",
         outcome'[i] \in {"none", "failed", "refused", "manual"}, \A j \in Clients \ {i} : SameClient(j)
  PROVE  SetupInv'
<1>1. Progress(i)' /\ Told(i)'
  BY DEF Progress, Told, Finishing
<1> QED
  BY <1>1, ClientStep

LEMMA PrepareKeeps ==
  ASSUME SetupInv, NEW i \in Clients, prepare(i)
  PROVE  SetupInv'
<1>0. SetupTypeOK
  BY SetupParts
<1>1. PICK step \in {"apply", "idle"}, how \in {"none", "failed"} :
        pc' = [pc EXCEPT ![i] = step] /\ outcome' = [outcome EXCEPT ![i] = how]
  BY DEF prepare, Enter, End
<1>2. /\ at' = [at EXCEPT ![i] = 1] /\ UNCHANGED server
      /\ needsRestart' \in {needsRestart, needsRestart \ {i}} /\ needsManual' \in {needsManual, needsManual \ {i}}
  BY DEF prepare
<1>3. SetupTypeOK'
  BY <1>0, <1>1, <1>2, ParamsFacts DEF SetupTypeOK, server, Connected, Finishing
<1>4. Better
  BY <1>2 DEF Better, server
<1>5. \A j \in Clients \ {i} : SameClient(j)
  BY <1>0, <1>1, <1>2 DEF SetupTypeOK, SameClient
<1>6. at'[i] = 1 /\ pc'[i] \in {"apply", "idle"} /\ outcome'[i] \in {"none", "failed"}
  BY <1>0, <1>1, <1>2 DEF SetupTypeOK
<1>7. Progress(i)' /\ Told(i)'
  BY <1>6, ParamsFacts DEF Progress, Told, Through, Finishing
<1> QED
  BY <1>3, <1>4, <1>5, <1>7, ClientStep

LEMMA StartServeKeeps ==
  ASSUME SetupInv, NEW i \in Clients, StartServe(i)
  PROVE  SetupInv'
<1>0. SetupTypeOK
  BY SetupParts
<1>1. PICK step \in {"preflight", "idle"}, how \in {"none", "failed"} :
        pc' = [pc EXCEPT ![i] = step] /\ outcome' = [outcome EXCEPT ![i] = how]
  BY DEF StartServe, Enter, End
<1>2. /\ at' = [at EXCEPT ![i] = 1] /\ UNCHANGED server
      /\ needsRestart' \in {needsRestart, needsRestart \ {i}} /\ needsManual' \in {needsManual, needsManual \ {i}}
  BY DEF StartServe
<1>3. SetupTypeOK'
  BY <1>0, <1>1, <1>2, ParamsFacts DEF SetupTypeOK, server, Connected, Finishing
<1>4. Better
  BY <1>2 DEF Better, server
<1>5. \A j \in Clients \ {i} : SameClient(j)
  BY <1>0, <1>1, <1>2 DEF SetupTypeOK, SameClient
<1>6. at'[i] = 1 /\ pc'[i] \in {"preflight", "idle"} /\ outcome'[i] \in {"none", "failed"}
  BY <1>0, <1>1, <1>2 DEF SetupTypeOK
<1>7. Progress(i)' /\ Told(i)'
  BY <1>6, ParamsFacts DEF Progress, Told, Through, Finishing
<1> QED
  BY <1>3, <1>4, <1>5, <1>7, ClientStep

(* One more setting that is enough, put right or left to the operator. *)
LEMMA ApplySettingKeeps ==
  ASSUME SetupInv, NEW i \in Clients, ApplySetting(i)
  PROVE  SetupInv'
<1> DEFINE p == Params[at[i]]
<1>0. SetupTypeOK /\ Progress(i) /\ Told(i) /\ KeptAcrossRestart /\ pc[i] = "apply"
  BY SetupParts DEF ApplySetting
<1>1. at[i] \in 1 .. 3 /\ p \in ParamNames
  BY <1>0, ParamsFacts DEF Progress, SetupTypeOK
<1>2. /\ at' = [at EXCEPT ![i] = at[i] + 1]
      /\ pc' = [pc EXCEPT ![i] = IF at[i] = 3 THEN "publication" ELSE "apply"]
      /\ UNCHANGED <<running, lowered, publication, trigger, outcome, commands, restarts>>
  BY ParamsFacts DEF ApplySetting, Enter
<1>3. \/ Enough(p, running[p]) /\ UNCHANGED <<configured, needsRestart, needsManual>>
      \/ /\ configured' = [configured EXCEPT ![p] = Target(p)]
         /\ needsRestart' = needsRestart \cup {i} /\ UNCHANGED needsManual
      \/ needsManual' = needsManual \cup {i} /\ UNCHANGED <<configured, needsRestart>>
  BY DEF ApplySetting
<1> HIDE DEF p
<1>4. /\ configured' \in SettingsType
      /\ \A q \in ParamNames : Good(q, configured[q]) => Good(q, configured'[q])
  <2>1. configured \in SettingsType
    BY <1>0 DEF SetupTypeOK
  <2>2. CASE configured' = [configured EXCEPT ![p] = Target(p)]
    BY <2>1, <2>2, <1>1, WriteFacts
  <2> QED
    BY <1>3, <2>1, <2>2
<1>5. Better
  BY <1>2, <1>4 DEF Better
<1>6. SetupTypeOK'
  BY <1>0, <1>1, <1>2, <1>3, <1>4, ParamsFacts DEF SetupTypeOK, Connected, Finishing
<1>7. \A j \in Clients \ {i} : SameClient(j)
  BY <1>0, <1>2, <1>3 DEF SetupTypeOK, SameClient
<1>8. i \notin needsManual' => Good(p, configured'[p]) /\ (i \notin needsRestart' => Good(p, running[p]))
  <2>1. CASE Enough(p, running[p]) /\ UNCHANGED <<configured, needsRestart, needsManual>>
    BY <2>1, <1>0, <1>1, SettingsFacts DEF SetupTypeOK, KeptAcrossRestart, Good
  <2>2. CASE /\ configured' = [configured EXCEPT ![p] = Target(p)]
             /\ needsRestart' = needsRestart \cup {i} /\ UNCHANGED needsManual
    BY <2>2, <1>0, <1>1, SettingsFacts DEF SetupTypeOK, Good
  <2>3. CASE needsManual' = needsManual \cup {i}
    BY <2>3
  <2> QED
    BY <1>3, <2>1, <2>2, <2>3
<1>9. Through(i)' = at[i] /\ Through(i) = at[i] - 1 /\ pc'[i] \in {"apply", "publication"}
  BY <1>0, <1>1, <1>2, ParamsFacts DEF Through, SetupTypeOK
<1>10. Progress(i)'
  <2>1. pc'[i] \in {"apply", "preflight"} => at'[i] <= Len(Params)
    BY <1>0, <1>1, <1>2, ParamsFacts DEF SetupTypeOK
  <2>2. ASSUME i \notin needsManual', NEW k \in 1 .. at[i]
        PROVE  /\ Good(Params[k], configured'[Params[k]])
               /\ i \notin needsRestart' => Good(Params[k], running[Params[k]])
    <3>1. CASE k = at[i]
      BY <1>8, <2>2, <3>1 DEF p
    <3>2. CASE k # at[i]
      <4>1. k \in 1 .. Through(i) /\ Params[k] \in ParamNames
        BY <1>1, <1>9, <2>2, <3>2, ParamsFacts
      <4>2. i \notin needsManual /\ (i \notin needsRestart' => i \notin needsRestart)
        BY <1>3, <2>2
      <4> QED
        BY <1>0, <1>2, <1>4, <4>1, <4>2 DEF Progress, Good
    <3> QED
      BY <3>1, <3>2
  <2> QED
    BY <1>2, <1>9, <2>1, <2>2 DEF Progress, Good, Finishing
<1>11. Told(i)'
  BY <1>0, <1>2, <1>5 DEF Told, Better, AllSuffice, Good
<1> QED
  BY <1>5, <1>6, <1>7, <1>10, <1>11, ClientStep

LEMMA FindPublicationKeeps ==
  ASSUME SetupInv, NEW i \in Clients, FindPublication(i)
  PROVE  SetupInv'
<1>0. SetupTypeOK /\ Progress(i) /\ Told(i) /\ pc[i] = "publication"
  BY SetupParts DEF FindPublication
<1>1. PICK step \in {"trigger", "create"} : pc' = [pc EXCEPT ![i] = step] /\ (step = "trigger" => publication)
  BY DEF FindPublication, Enter
<1>2. UNCHANGED <<running, configured, lowered, publication, trigger, at, needsRestart, needsManual, outcome>>
  BY DEF FindPublication, server
<1>3. SetupTypeOK'
  BY <1>0, <1>1, <1>2 DEF SetupTypeOK, Connected, Finishing
<1>4. Better /\ \A j \in Clients \ {i} : SameClient(j)
  BY <1>0, <1>1, <1>2 DEF SetupTypeOK, SameClient, Better, Good
<1>5. pc'[i] = step
  BY <1>0, <1>1 DEF SetupTypeOK
<1>6. Progress(i)'
  BY <1>0, <1>1, <1>2, <1>5, ParamsFacts DEF Progress, Through, Good, Finishing
<1>7. Told(i)'
  BY <1>0, <1>2 DEF Told, AllSuffice, Good
<1> QED
  BY <1>3, <1>4, <1>6, <1>7, ClientStep

LEMMA CreatePublicationKeeps ==
  ASSUME SetupInv, NEW i \in Clients, CreatePublication(i)
  PROVE  SetupInv'
<1>0. SetupTypeOK /\ Progress(i) /\ Told(i) /\ pc[i] = "create"
  BY SetupParts DEF CreatePublication
<1>1. publication' = TRUE /\ UNCHANGED <<running, configured, lowered, trigger, at, needsRestart, needsManual>>
  BY DEF CreatePublication
<1>2. CASE End(i, "failed")
  <2>1. SetupTypeOK'
    BY <1>0, <1>1, <1>2 DEF SetupTypeOK, End, Enter, Connected
  <2>2. Better /\ \A j \in Clients \ {i} : SameClient(j)
    BY <1>0, <1>1, <1>2 DEF SetupTypeOK, End, Enter, SameClient, Better, Good
  <2>3. pc'[i] = "idle" /\ outcome'[i] = "failed"
    BY <1>0, <1>2 DEF SetupTypeOK, End, Enter
  <2> QED
    BY <2>1, <2>2, <2>3, EndStep
<1>3. CASE Enter(i, "trigger") /\ UNCHANGED outcome
  <2>1. SetupTypeOK'
    BY <1>0, <1>1, <1>3 DEF SetupTypeOK, Enter, Connected, Finishing
  <2>2. Better /\ \A j \in Clients \ {i} : SameClient(j)
    BY <1>0, <1>1, <1>3 DEF SetupTypeOK, Enter, SameClient, Better, Good
  <2>3. pc'[i] = "trigger"
    BY <1>0, <1>3 DEF SetupTypeOK, Enter
  <2>4. Progress(i)'
    BY <1>0, <1>1, <1>3, <2>3, ParamsFacts DEF Progress, Through, Good, Finishing
  <2>5. Told(i)'
    BY <1>0, <1>1, <1>3 DEF Told, AllSuffice, Good
  <2> QED
    BY <2>1, <2>2, <2>4, <2>5, ClientStep
<1> QED
  BY <1>2, <1>3 DEF CreatePublication

LEMMA InstallTriggerKeeps ==
  ASSUME SetupInv, NEW i \in Clients, InstallTrigger(i)
  PROVE  SetupInv'
<1>0. SetupTypeOK /\ Progress(i) /\ Told(i) /\ pc[i] = "trigger"
  BY SetupParts DEF InstallTrigger
<1>1. /\ pc' = [pc EXCEPT ![i] = "report"] /\ trigger' \in {trigger, TRUE}
      /\ UNCHANGED <<running, configured, lowered, publication, at, needsRestart, needsManual, outcome>>
  BY DEF InstallTrigger, Enter
<1>2. SetupTypeOK'
  BY <1>0, <1>1 DEF SetupTypeOK, Connected, Finishing
<1>3. Better /\ \A j \in Clients \ {i} : SameClient(j)
  BY <1>0, <1>1 DEF SetupTypeOK, SameClient, Better, Good
<1>4. pc'[i] = "report"
  BY <1>0, <1>1 DEF SetupTypeOK
<1>5. Progress(i)'
  BY <1>0, <1>1, <1>4, ParamsFacts DEF Progress, Through, Good, Finishing
<1>6. Told(i)'
  BY <1>0, <1>1 DEF Told, AllSuffice, Good
<1> QED
  BY <1>2, <1>3, <1>5, <1>6, ClientStep

(* The report: what init could do has been done. *)
LEMMA ReportKeeps ==
  ASSUME SetupInv, NEW i \in Clients, Report(i)
  PROVE  SetupInv'
<1>0. SetupTypeOK /\ Progress(i) /\ Told(i) /\ pc[i] = "report"
  BY SetupParts DEF Report
<1>1. End(i, Verdict(i)) /\ UNCHANGED <<running, configured, lowered, publication, trigger, at, needsRestart, needsManual>>
  BY DEF Report, server
<1>2. PICK how \in {"manual", "restart", "ready"} : how = Verdict(i)
  BY DEF Verdict
<1>3. SetupTypeOK'
  BY <1>0, <1>1, <1>2 DEF SetupTypeOK, End, Enter
<1>4. Better /\ \A j \in Clients \ {i} : SameClient(j)
  BY <1>0, <1>1 DEF SetupTypeOK, End, Enter, SameClient, Better, Good
<1>5. pc'[i] = "idle" /\ outcome'[i] = Verdict(i)
  BY <1>0, <1>1 DEF SetupTypeOK, End, Enter
<1>6. publication /\ (i \notin needsManual => AllSuffice(configured) /\ (i \notin needsRestart => AllSuffice(running)))
  BY <1>0, ParamsFacts, AllByNumber DEF Progress, Through, Good, Finishing
<1>7. Progress(i)' /\ Told(i)'
  BY <1>1, <1>5, <1>6 DEF Progress, Told, Verdict, AllSuffice, Good, Finishing
<1> QED
  BY <1>3, <1>4, <1>7, ClientStep

-----------------------------------------------------------------------------
(* serve, failures, the operator and the server *)

LEMMA PreflightKeeps ==
  ASSUME SetupInv, NEW i \in Clients, preflight(i)
  PROVE  SetupInv'
<1> DEFINE p == Params[at[i]]
<1>0. SetupTypeOK /\ Progress(i) /\ Told(i) /\ pc[i] = "preflight"
  BY SetupParts DEF preflight
<1>1. at[i] \in 1 .. 3
  BY <1>0, ParamsFacts DEF Progress, SetupTypeOK
<1>2. at' = [at EXCEPT ![i] = at[i] + 1] /\ UNCHANGED <<running, configured, lowered, publication, trigger, needsRestart, needsManual>>
  BY DEF preflight, server
<1>3. Better
  BY <1>2 DEF Better
<1>4. CASE End(i, "refused")
  <2>1. SetupTypeOK'
    BY <1>0, <1>1, <1>2, <1>4, ParamsFacts DEF SetupTypeOK, End, Enter
  <2>2. \A j \in Clients \ {i} : SameClient(j)
    BY <1>0, <1>2, <1>4 DEF SetupTypeOK, End, Enter, SameClient
  <2>3. pc'[i] = "idle" /\ outcome'[i] = "refused"
    BY <1>0, <1>4 DEF SetupTypeOK, End, Enter
  <2> QED
    BY <1>3, <2>1, <2>2, <2>3, EndStep
<1>5. CASE /\ Suffices(p, running[p]) /\ UNCHANGED outcome
           /\ pc' = [pc EXCEPT ![i] = IF at[i] = 3 THEN "find_publication" ELSE "preflight"]
  <2>1. SetupTypeOK'
    BY <1>0, <1>1, <1>2, <1>5, ParamsFacts DEF SetupTypeOK, Connected, Finishing
  <2>2. \A j \in Clients \ {i} : SameClient(j)
    BY <1>0, <1>2, <1>5 DEF SetupTypeOK, SameClient
  <2>3. Through(i)' = at[i] /\ Through(i) = at[i] - 1 /\ pc'[i] \in {"preflight", "find_publication"}
    BY <1>0, <1>1, <1>2, <1>5, ParamsFacts DEF Through, SetupTypeOK
  <2>4. pc'[i] = "preflight" => at'[i] <= Len(Params)
    BY <1>0, <1>1, <1>2, <1>5, ParamsFacts DEF SetupTypeOK
  <2>5. \A k \in 1 .. at[i] : Good(Params[k], running[Params[k]])
    <3>1. \A k \in 1 .. at[i] : k = at[i] \/ k \in 1 .. Through(i)
      BY <1>1, <2>3
    <3> QED
      BY <1>0, <1>5, <3>1 DEF Progress, Good
  <2>6. Progress(i)'
    BY <1>2, <2>3, <2>4, <2>5 DEF Progress, Good, Finishing
  <2>7. Told(i)'
    BY <1>0, <1>2, <1>5 DEF Told, AllSuffice, Good
  <2> QED
    BY <1>3, <2>1, <2>2, <2>6, <2>7, ClientStep
<1> QED
  BY <1>4, <1>5, ParamsFacts DEF preflight, Enter

LEMMA PreflightPublicationKeeps ==
  ASSUME SetupInv, NEW i \in Clients, PreflightPublication(i)
  PROVE  SetupInv'
<1>0. SetupTypeOK /\ Progress(i) /\ KeptAcrossRestart /\ pc[i] = "find_publication"
  BY SetupParts DEF PreflightPublication
<1>1. PICK how \in {"served", "refused"} : End(i, how) /\ (how = "served" => publication)
  BY DEF PreflightPublication
<1>2. UNCHANGED <<running, configured, lowered, publication, trigger, at, needsRestart, needsManual>>
  BY DEF PreflightPublication, server
<1>3. SetupTypeOK'
  BY <1>0, <1>1, <1>2 DEF SetupTypeOK, End, Enter
<1>4. Better /\ \A j \in Clients \ {i} : SameClient(j)
  BY <1>0, <1>1, <1>2 DEF SetupTypeOK, End, Enter, SameClient, Better, Good
<1>5. pc'[i] = "idle" /\ outcome'[i] = how
  BY <1>0, <1>1 DEF SetupTypeOK, End, Enter
<1>6. AllSuffice(running) /\ AllSuffice(configured)
  <2>1. AllSuffice(running)
    BY <1>0, ParamsFacts, AllByNumber DEF Progress, Through, Good, Finishing
  <2> QED
    BY <2>1, <1>0 DEF AllSuffice, KeptAcrossRestart
<1>7. Progress(i)' /\ Told(i)'
  BY <1>1, <1>2, <1>5, <1>6 DEF Progress, Told, AllSuffice, Good, Finishing
<1> QED
  BY <1>3, <1>4, <1>7, ClientStep

LEMMA FailsKeeps ==
  ASSUME SetupInv, NEW i \in Clients, Fails(i)
  PROVE  SetupInv'
<1>0. SetupTypeOK
  BY SetupParts
<1>1. End(i, "failed") /\ UNCHANGED <<running, configured, lowered, publication, trigger, at, needsRestart, needsManual>>
  BY DEF Fails, server
<1>2. SetupTypeOK'
  BY <1>0, <1>1 DEF SetupTypeOK, End, Enter
<1>3. Better /\ \A j \in Clients \ {i} : SameClient(j)
  BY <1>0, <1>1 DEF SetupTypeOK, End, Enter, SameClient, Better, Good
<1>4. pc'[i] = "idle" /\ outcome'[i] = "failed"
  BY <1>0, <1>1 DEF SetupTypeOK, End, Enter
<1> QED
  BY <1>2, <1>3, <1>4, EndStep

LEMMA SetManuallyKeeps ==
  ASSUME SetupInv, NEW p \in ParamNames, SetManually(p)
  PROVE  SetupInv'
<1>0. SetupTypeOK
  BY SetupParts
<1>1. /\ configured' = [configured EXCEPT ![p] = Target(p)]
      /\ UNCHANGED <<running, lowered, publication, trigger, pc, at, needsRestart, needsManual, outcome>>
  BY DEF SetManually
<1>2. /\ configured' \in SettingsType
      /\ \A q \in ParamNames : Good(q, configured[q]) => Good(q, configured'[q])
  BY <1>0, <1>1, WriteFacts DEF SetupTypeOK
<1>3. SetupTypeOK' /\ Better /\ \A j \in Clients : SameClient(j)
  BY <1>0, <1>1, <1>2 DEF SetupTypeOK, Better, SameClient
<1> QED
  BY <1>3, ServerStep

(* A restart runs what is configured, and only reports are left to come. *)
LEMMA RestartKeeps ==
  ASSUME SetupInv, Restart
  PROVE  SetupInv'
<1>0. SetupTypeOK /\ KeptAcrossRestart /\ \A i \in Clients : Progress(i) /\ Told(i)
  BY SetupParts
<1>1. /\ running' = configured
      /\ pc' = [i \in Clients |-> IF pc[i] \in Finishing THEN "report" ELSE "idle"]
      /\ outcome' = [i \in Clients |-> IF pc[i] \in Connected THEN "failed" ELSE outcome[i]]
      /\ UNCHANGED <<configured, lowered, publication, trigger, at, needsRestart, needsManual>>
  BY DEF Restart
<1>2. SetupTypeOK'
  BY <1>0, <1>1 DEF SetupTypeOK, Connected, Finishing
<1>3. KeptAcrossRestart'
  BY <1>1 DEF KeptAcrossRestart, Good
<1>4. ASSUME NEW i \in Clients PROVE Progress(i)' /\ Told(i)'
  <2>1. outcome'[i] = "failed" \/ outcome'[i] = outcome[i]
    BY <1>1
  <2>2. Told(i)'
    BY <1>0, <1>1, <2>1 DEF Told, KeptAcrossRestart, AllSuffice, Good
  <2>3. CASE pc[i] \in Finishing
    <3>1. pc'[i] = "report" /\ Through(i) = 3 /\ Through(i)' = 3
      BY <1>1, <2>3, ParamsFacts DEF Through, Finishing
    <3>2. publication /\ (i \notin needsManual => \A k \in 1 .. 3 : Good(Params[k], configured[Params[k]]))
      BY <1>0, <2>3, <3>1 DEF Progress, Finishing
    <3> QED
      BY <1>1, <2>2, <3>1, <3>2 DEF Progress, Good
  <2>4. CASE pc[i] \notin Finishing
    BY <1>1, <2>2, <2>4 DEF Progress, Finishing
  <2> QED
    BY <2>3, <2>4
<1> QED
  BY <1>2, <1>3, <1>4 DEF SetupInv, ReportsHold, ServedHolds, Told, Serves, AllSuffice, ParamNames, Good, Suffices

-----------------------------------------------------------------------------
LEMMA SetupInitHolds == SetupInit => SetupInv
<1>1. SUFFICES ASSUME SetupInit PROVE SetupInv
  OBVIOUS
<1>2. SetupTypeOK
  <2>1. /\ running \in SettingsType /\ configured \in SettingsType
        /\ publication \in BOOLEAN /\ trigger \in BOOLEAN
    BY <1>1 DEF SetupInit
  <2>2. /\ lowered \subseteq ParamNames
        /\ pc \in [Clients -> {"idle"} \cup Connected \cup Finishing]
        /\ outcome \in [Clients -> {"none", "failed", "manual", "restart", "ready", "refused", "served"}]
    BY <1>1 DEF SetupInit
  <2>3. at \in [Clients -> 1 .. Len(Params) + 1]
    BY <1>1, ParamsFacts DEF SetupInit
  <2>4. needsRestart \subseteq Clients /\ needsManual \subseteq Clients
    BY <1>1 DEF SetupInit
  <2> QED
    BY <2>1, <2>2, <2>3, <2>4 DEF SetupTypeOK
<1>3. KeptAcrossRestart
  BY <1>1 DEF SetupInit, KeptAcrossRestart, Good
<1>4. \A i \in Clients : Progress(i) /\ Told(i)
  BY <1>1 DEF SetupInit, Progress, Told, Finishing
<1> QED
  BY <1>2, <1>3, <1>4, SetupParts

LEMMA SetupNextKeeps == SetupInv /\ [SetupNext]_setupVars => SetupInv'
<1>1. SUFFICES ASSUME SetupInv, [SetupNext]_setupVars PROVE SetupInv'
  OBVIOUS
<1>2. CASE UNCHANGED setupVars
  <2>1. SetupTypeOK' /\ Better /\ \A j \in Clients : SameClient(j)
    BY <1>1, <1>2, SetupParts DEF SetupTypeOK, Better, SameClient, Good, setupVars
  <2> QED
    BY <1>1, <2>1, ServerStep
<1> QED
  BY <1>1, <1>2, PrepareKeeps, ApplySettingKeeps, FindPublicationKeeps, CreatePublicationKeeps, InstallTriggerKeeps,
     ReportKeeps, StartServeKeeps, PreflightKeeps, PreflightPublicationKeeps, FailsKeeps, SetManuallyKeeps, RestartKeeps
     DEF SetupNext

LEMMA SetupInvHolds == SetupSpec => []SetupInv
BY SetupInitHolds, SetupNextKeeps, PTL DEF SetupSpec

(* Every variable of the setup keeps its range. *)
THEOREM SetupTypeCorrect == SetupSpec => []SetupTypeOK
<1>1. SetupInv => SetupTypeOK
  BY DEF SetupInv
<1> QED
  BY <1>1, SetupInvHolds, PTL

(* What `pgpaw init` reports is so and stays so, for any number of         *)
(* operators, commands and restarts, also one between its last statement   *)
(* and the report, but for settings for which a lower value was waiting    *)
(* before.                                                                 *)
THEOREM InitReportsHold == SetupSpec => []ReportsHold
<1>1. SetupInv => ReportsHold
  BY DEF SetupInv
<1> QED
  BY <1>1, SetupInvHolds, PTL

(* A server that was found fit by the preflight of `pgpaw serve` stays so, *)
(* with the same exception.                                                *)
THEOREM ServedStaysFit == SetupSpec => []ServedHolds
<1>1. SetupInv => ServedHolds
  BY DEF SetupInv
<1> QED
  BY <1>1, SetupInvHolds, PTL

==============================================================================
