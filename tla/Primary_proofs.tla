--------------------------- MODULE Primary_proofs ----------------------------
(***************************************************************************)
(* A primary database.  Migrations take effect once, in order, and are     *)
(* truly reported, for any apps, files, contents, ledgers found and number *)
(* of calls.  Nodes on one data directory release what they took, keep     *)
(* their bindings above their source, and keep the contract of Migrations, *)
(* for any number of nodes, bindings, topologies and calls.  An observed   *)
(* write moves the versions of the queries on its table, for any tables,   *)
(* commits and order of notifications.                                     *)
(***************************************************************************)
EXTENDS PrimaryNode, PrimaryFeed, WellFoundedInduction, FiniteSetTheorems, TLAPS

(* Migrations *)

Fields == {"pc", "plan", "dir", "done", "tables"}

TaskShape == DOMAIN task = Appliers /\ \A t \in Appliers : DOMAIN task[t] = Fields

(* What ran is what the ledgers say, a row of the new one before a row of  *)
(* the legacy one.                                                         *)
Accounted ==
    /\ DOMAIN ran = Keys
    /\ \A k \in Keys :
          ran[k] = IF k \in DOMAIN ledger THEN <<ledger[k]>>
                   ELSE IF legacy # NoTable /\ k \in DOMAIN legacy THEN <<legacy[k]>>
                   ELSE <<>>

(* A transaction about to commit holds its key alone. *)
HoldsKey ==
    \A t \in Appliers : At(t, "commit") =>
        /\ HandedOver
        /\ Key(t) \notin DOMAIN ledger
        /\ \A u \in Appliers \ {t} : At(u, "commit") => Key(u) # Key(t)

MInv == TaskShape /\ Accounted /\ HoldsKey

(* One element appended to none. *)
LEMMA AppendEmpty == ASSUME NEW s PROVE Append(<<>>, s) = <<s>>
<1>1. <<>> \in Seq({s}) /\ s \in {s}
  OBVIOUS
<1> QED
  BY <1>1

(* The ledgers found are taken for what ran before. *)
LEMMA MigrationInitInv == MigrationInit => MInv
<1> SUFFICES ASSUME MigrationInit PROVE MInv OBVIOUS
<1>1. task = [t \in Appliers |-> Idle]
  BY DEF MigrationInit
<1>2. TaskShape
  BY <1>1 DEF TaskShape, Idle, Fields
<1>3. HoldsKey
  BY <1>1 DEF HoldsKey, At, Idle
<1>4. Accounted
  BY DEF MigrationInit, Accounted
<1> QED
  BY <1>2, <1>3, <1>4 DEF MInv

(* A call's step changes only that call: the record keeps its shape, and   *)
(* what the others are doing stays.                                        *)
OthersKept(t) == \A u \in Appliers \ {t} : task'[u] = task[u]

(* The key a call is at depends on that call only. *)
LEMMA KeyKept ==
  ASSUME NEW u, task'[u] = task[u]
  PROVE  Key(u)' = Key(u) /\ Checksum(u)' = Checksum(u)
<1>1. Todo(u)' = Todo(u) /\ App(u)' = App(u) /\ Files(u)' = Files(u)
  BY DEF App, Files, Todo
<1>2. Current(u)' = Current(u)
  BY <1>1 DEF Current
<1> QED
  BY <1>1, <1>2 DEF Key, Checksum

(* A step of one call that leaves the ledgers alone and does not arrive at *)
(* its commit keeps the invariant.                                         *)
LEMMA QuietStep ==
  ASSUME MInv, NEW t \in Appliers, TaskShape', OthersKept(t),
         UNCHANGED <<ledger, legacy, legacySchemas, ran>>,
         task'[t].pc # "commit"
  PROVE  MInv'
<1>2. Accounted'
  BY DEF MInv, Accounted
<1>3. \A u \in Appliers : At(u, "commit")' => u # t /\ task'[u] = task[u]
  BY DEF OthersKept, At
<1>4. \A u \in Appliers : At(u, "commit")' => At(u, "commit") /\ Key(u)' = Key(u)
  BY <1>3, KeyKept DEF At
<1>5. HandedOver' = HandedOver
  BY DEF HandedOver
<1>6. HoldsKey'
  BY <1>3, <1>4, <1>5 DEF MInv, HoldsKey
<1> QED
  BY <1>2, <1>6 DEF MInv

(* Assigning fields of one call's record keeps all shapes. *)
LEMMA SetPc ==
  ASSUME TaskShape, NEW t \in Appliers, NEW l, Goto(t, l)
  PROVE  /\ TaskShape' /\ OthersKept(t) /\ task'[t].pc = l
         /\ \A f \in Fields \ {"pc"} : task'[t][f] = task[t][f]
BY DEF TaskShape, OthersKept, Goto, Fields

(* An error puts one call back to its beginning. *)
LEMMA SetIdle ==
  ASSUME TaskShape, NEW t \in Appliers, Refuse(t)
  PROVE  TaskShape' /\ OthersKept(t) /\ task'[t] = Idle
BY DEF TaskShape, OthersKept, Refuse, Idle, Fields

(* The steps of a call other than its insert and its commit. *)
LEMMA QuietSteps ==
  ASSUME MInv, NEW t \in Appliers,
         \/ discover_migrations(t) \/ Start(t) \/ CheckLedger(t) \/ Recorded(t) \/ Begin(t) \/ Exec(t)
         \/ Reflect(t) \/ Record(t) \/ Return(t) \/ Fail(t)
  PROVE  MInv'
<1>0. TaskShape
  BY DEF MInv
<1>1. UNCHANGED <<ledger, legacy, legacySchemas, ran>>
  BY DEF discover_migrations, Start, CheckLedger, Recorded, Begin, Exec, Reflect, Record, Return, Fail, ledgers
<1>2. TaskShape' /\ OthersKept(t) /\ task'[t].pc # "commit"
  <2>1. CASE discover_migrations(t)
    BY <1>0, <2>1 DEF discover_migrations, TaskShape, OthersKept, Fields
  <2>2. CASE Start(t)
    BY <1>0, <2>2 DEF Start, TaskShape, OthersKept, Fields
  <2>3. CASE CheckLedger(t)
    BY <1>0, <2>3, SetPc, SetIdle DEF CheckLedger, Idle
  <2>4. CASE Recorded(t)
    <3>1. CASE Refuse(t)
      BY <1>0, <3>1, SetIdle DEF Idle
    <3>2. CASE task' = [task EXCEPT ![t].done = @ \cup {Current(t)}]
      BY <1>0, <2>4, <3>2 DEF Recorded, At, TaskShape, OthersKept, Fields
    <3> QED
      BY <2>4, <3>1, <3>2 DEF Recorded
  <2>5. CASE Begin(t)
    BY <1>0, <2>5, SetPc, SetIdle DEF Begin, Idle
  <2>6. CASE Exec(t)
    BY <1>0, <2>6, SetPc DEF Exec
  <2>7. CASE Reflect(t)
    BY <1>0, <2>7 DEF Reflect, TaskShape, OthersKept, Fields
  <2>8. CASE Record(t)
    BY <1>0, <2>8 DEF Record, TaskShape, OthersKept, Fields
  <2>9. CASE Return(t) \/ Fail(t)
    BY <1>0, <2>9, SetIdle DEF Return, Fail, Refuse, Idle
  <2> QED
    BY <2>1, <2>2, <2>3, <2>4, <2>5, <2>6, <2>7, <2>8, <2>9
<1> QED
  BY <1>1, <1>2, QuietStep

(* The insert waits for the key and finds it free, or fails. *)
LEMMA InsertInv ==
  ASSUME MInv, NEW t \in Appliers, HandedOver, Insert(t)
  PROVE  MInv'
<1>0. TaskShape /\ Accounted /\ HoldsKey
  BY DEF MInv
<1>1. UNCHANGED <<ledger, legacy, legacySchemas, ran>>
  BY DEF Insert, ledgers
<1>2. CASE Refuse(t)
  BY <1>0, <1>1, <1>2, SetIdle, QuietStep DEF Idle
<1>3. CASE Goto(t, "commit") /\ Key(t) \notin DOMAIN ledger
  <2>1. /\ TaskShape' /\ OthersKept(t)
        /\ \A f \in Fields \ {"pc"} : task'[t][f] = task[t][f]
    BY <1>0, <1>3, SetPc
  <2>2. Key(t)' = Key(t)
    <3>1. task'[t].plan = task[t].plan /\ task'[t].dir = task[t].dir /\ task'[t].done = task[t].done
      BY <2>1 DEF Fields
    <3>2. Todo(t)' = Todo(t) /\ App(t)' = App(t)
      BY <3>1 DEF App, Files, Todo
    <3>3. Current(t)' = Current(t)
      BY <3>2 DEF Current
    <3> QED
      BY <3>2, <3>3 DEF Key
  <2>3. \A u \in Appliers \ {t} : At(u, "commit")' => At(u, "commit") /\ Key(u)' = Key(u) /\ Key(u) # Key(t)
    BY <2>1, KeyKept DEF OthersKept, At, Insert
  <2>4. HandedOver'
    BY <1>1 DEF HandedOver
  <2>5. HoldsKey'
    BY <1>0, <1>1, <1>3, <2>2, <2>3, <2>4 DEF HoldsKey
  <2>6. Accounted'
    BY <1>0, <1>1 DEF Accounted
  <2> QED
    BY <2>1, <2>5, <2>6 DEF MInv
<1> QED
  BY <1>2, <1>3 DEF Insert

(* The commit adds its row to the ledger and to what ran. *)
LEMMA CommitInv ==
  ASSUME MInv, NEW t \in Appliers, HandedOver, Commit(t) \/ CommitUnknown(t)
  PROVE  MInv'
<1>0. TaskShape /\ Accounted /\ HoldsKey /\ At(t, "commit") /\ Committed(t)
  BY DEF MInv, Commit, CommitUnknown
<1>1. /\ TaskShape' /\ OthersKept(t) /\ task'[t].pc # "commit"
      /\ UNCHANGED <<legacy, legacySchemas>>
  <2>1. CASE Commit(t)
    BY <1>0, <2>1 DEF Commit, TaskShape, OthersKept, Fields
  <2>2. CASE CommitUnknown(t)
    BY <1>0, <2>2, SetIdle DEF CommitUnknown, Idle
  <2> QED
    BY <2>1, <2>2
<1> DEFINE K == Key(t)
           S == Checksum(t)
<1>2. K \notin DOMAIN ledger
  BY <1>0 DEF HoldsKey
<1>3. /\ DOMAIN ledger' = DOMAIN ledger \cup {K}
      /\ ledger'[K] = S
      /\ \A k \in DOMAIN ledger : ledger'[k] = ledger[k]
  BY <1>0, <1>2 DEF Committed, Merge
<1>4. ran' = [ran EXCEPT ![K] = Append(ran[K], S)]
  BY <1>0 DEF Committed
<1> HIDE DEF K, S
<1>5. Accounted'
  <2>1. \A k \in Keys : ran'[k] = IF k = K THEN Append(ran[k], S) ELSE ran[k]
    BY <1>0, <1>4 DEF Accounted
  <2>2. K \in Keys => ran[K] = <<>>
    BY <1>0, <1>2 DEF Accounted, HandedOver
  <2>3. K \in Keys => ran'[K] = <<S>>
    BY <2>1, <2>2, AppendEmpty
  <2>4. DOMAIN ran' = Keys
    BY <1>0, <1>4 DEF Accounted
  <2> QED
    BY <1>0, <1>1, <1>3, <2>1, <2>3, <2>4 DEF Accounted
<1>6. HoldsKey'
  <2>1. \A u \in Appliers : At(u, "commit")' => u # t /\ At(u, "commit") /\ Key(u)' = Key(u)
    BY <1>1, KeyKept DEF OthersKept, At
  <2>2. \A u \in Appliers \ {t} : At(u, "commit") => Key(u) # K
    BY <1>0 DEF HoldsKey, K
  <2>3. HandedOver'
    BY <1>1 DEF HandedOver
  <2> QED
    BY <1>0, <1>3, <2>1, <2>2, <2>3 DEF HoldsKey
<1> QED
  BY <1>1, <1>5, <1>6 DEF MInv

(* The handoff moves the legacy rows over without touching what ran; no    *)
(* call is at its commit before it.                                        *)
LEMMA HandOverInv == ASSUME MInv, HandOver PROVE MInv'
<1>0. TaskShape /\ Accounted /\ HoldsKey /\ UNCHANGED <<ran, task>> /\ HandedOver'
  BY DEF MInv, HandOver, HandedOver
<1>1. Accounted'
  <2>1. CASE legacy = NoTable
    BY <1>0, <2>1 DEF Accounted, HandOver
  <2>2. CASE legacy # NoTable
    BY <1>0, <2>2 DEF Accounted, HandOver, Merge
  <2> QED
    BY <2>1, <2>2
<1>2. \A u : Key(u)' = Key(u) /\ (At(u, "commit")' <=> At(u, "commit"))
  BY <1>0, KeyKept DEF At
<1>3. \A t \in Appliers : At(t, "commit") => ledger' = ledger
  BY <1>0 DEF HoldsKey, HandedOver, HandOver
<1>4. HoldsKey'
  BY <1>0, <1>2, <1>3 DEF HoldsKey
<1> QED
  BY <1>0, <1>1, <1>4 DEF MInv, TaskShape

(* Losing calls leaves the others as they are. *)
LEMMA LoseInv == ASSUME MInv, NEW gone \in SUBSET Appliers, Lose(gone) PROVE MInv'
<1>0. TaskShape /\ Accounted /\ HoldsKey /\ UNCHANGED <<ledger, legacy, legacySchemas, ran>>
  BY DEF MInv, Lose, ledgers
<1>1. TaskShape'
  BY <1>0 DEF Lose, TaskShape, Idle, Fields
<1>2. \A u \in Appliers : At(u, "commit")' => At(u, "commit") /\ task'[u] = task[u]
  BY DEF Lose, At, Idle
<1>3. \A u \in Appliers : At(u, "commit")' => At(u, "commit") /\ Key(u)' = Key(u)
  BY <1>2, KeyKept
<1>4. HoldsKey'
  BY <1>0, <1>3 DEF HoldsKey, HandedOver
<1> QED
  BY <1>0, <1>1, <1>4 DEF MInv, Accounted

(* Every step keeps the invariant. *)
LEMMA MigrationNextInv == MInv /\ [MigrationNext]_migrationVars => MInv'
<1> SUFFICES ASSUME MInv, [MigrationNext]_migrationVars PROVE MInv'
  OBVIOUS
<1>1. CASE Edit \/ UNCHANGED migrationVars
  <2>1. UNCHANGED <<ledger, legacy, legacySchemas, ran, task>>
    BY <1>1 DEF Edit, migrationVars, ledgers
  <2>2. \A u : Key(u)' = Key(u) /\ (At(u, "commit")' <=> At(u, "commit"))
    BY <2>1, KeyKept DEF At
  <2> QED
    BY <2>1, <2>2 DEF MInv, TaskShape, Accounted, HoldsKey, HandedOver
<1>2. CASE HandOver
  BY <1>2, HandOverInv
<1>3. CASE \E t \in Appliers : discover_migrations(t)
  BY <1>3, QuietSteps
<1>4. CASE \E t \in Appliers : HandedOver /\ Apply(t)
  BY <1>4, QuietSteps, InsertInv, CommitInv DEF Apply
<1>5. CASE \E gone \in SUBSET Appliers : Lose(gone)
  BY <1>5, LoseInv
<1> QED
  BY <1>1, <1>2, <1>3, <1>4, <1>5 DEF MigrationNext

(* The invariant says more than the property. *)
LEMMA InvAppliedOnce == MInv => AppliedOnce
<1>1. ASSUME NEW s PROVE Len(<<s>>) <= 1
  OBVIOUS
<1>2. Len(<<>>) <= 1
  OBVIOUS
<1> SUFFICES ASSUME MInv, NEW k \in Keys
             PROVE  /\ Len(ran[k]) <= 1
                    /\ k \in DOMAIN ledger => ran[k] = <<ledger[k]>>
                    /\ ran[k] # <<>> => k \in DOMAIN ledger \/ (legacy # NoTable /\ k \in DOMAIN legacy)
  BY DEF AppliedOnce
<1>3. CASE k \in DOMAIN ledger
  <2>1. ran[k] = <<ledger[k]>>
    BY <1>3 DEF MInv, Accounted
  <2> QED
    BY <1>1, <1>3, <2>1, Zenon
<1>4. CASE k \notin DOMAIN ledger /\ legacy # NoTable /\ k \in DOMAIN legacy
  <2>1. ran[k] = <<legacy[k]>>
    BY <1>4 DEF MInv, Accounted
  <2> QED
    BY <1>1, <1>4, <2>1, Zenon
<1>5. CASE k \notin DOMAIN ledger /\ ~(legacy # NoTable /\ k \in DOMAIN legacy)
  BY <1>2, <1>5 DEF MInv, Accounted
<1> QED
  BY <1>3, <1>4, <1>5

(* A migration's statements take effect at most once and the ledgers       *)
(* record exactly those that did, for every set of files, ledgers found    *)
(* and overlapping calls.                                                  *)
THEOREM MigrationsApplyOnce == MigrationSpec => []AppliedOnce
BY MigrationInitInv, MigrationNextInv, InvAppliedOnce, PTL DEF MigrationSpec

-----------------------------------------------------------------------------
(* The progress of a call.  Every file it is through with is recorded with *)
(* the content it discovered; a file is at hand while its transaction      *)
(* runs, and none is left when the chain is recorded.                      *)
Through(t, a, n) == <<a, n>> \in DOMAIN ledger /\ ledger[<<a, n>>] = task[t].plan[a][n]

ThroughTo(t, j) == \A i \in 1 .. j : \A n \in DOMAIN task[t].plan[Dirs[i]] : Through(t, Dirs[i], n)

Progress(t) ==
    /\ At(t, "idle") \/ At(t, "planned") => task[t].done = {}
    /\ ~At(t, "idle") => \A a \in Apps : DOMAIN task[t].plan[a] \subseteq DOMAIN Ordinal
    /\ task[t].pc \in Working =>
          /\ task[t].dir \in 1 .. Len(Dirs)
          /\ ThroughTo(t, task[t].dir - 1)
          /\ \A n \in task[t].done : Through(t, App(t), n)
    /\ task[t].pc \in {"exec", "insert", "commit"} => Todo(t) # {}
    /\ At(t, "record") => Todo(t) = {}
    /\ At(t, "done") => ThroughTo(t, Len(Dirs))

Chains == \A t \in Appliers : Progress(t)

LedgerGrows == \A k \in DOMAIN ledger : k \in DOMAIN ledger' /\ ledger'[k] = ledger[k]

(* A recorded migration is never forgotten nor changed. *)
LEMMA LedgerOnlyGrows == ASSUME MInv, [MigrationNext]_migrationVars PROVE LedgerGrows
<1>1. CASE UNCHANGED ledger
  BY <1>1 DEF LedgerGrows
<1>2. CASE HandOver
  BY <1>2 DEF HandOver, Merge, LedgerGrows
<1>3. ASSUME NEW t \in Appliers, Commit(t) \/ CommitUnknown(t) PROVE LedgerGrows
  <2>1. Committed(t) /\ Key(t) \notin DOMAIN ledger
    BY <1>3 DEF Commit, CommitUnknown, MInv, HoldsKey
  <2> QED
    BY <2>1 DEF Committed, Merge, LedgerGrows
<1>4. UNCHANGED ledger \/ HandOver \/ \E t \in Appliers : Commit(t) \/ CommitUnknown(t)
  BY DEF MigrationNext, Edit, discover_migrations, Apply, Start, CheckLedger, Recorded, Begin, Exec, Insert,
         Reflect, Record, Return, Fail, Lose, ledgers, migrationVars
<1> QED
  BY <1>1, <1>2, <1>3, <1>4

(* Where a call is in its files depends on these three fields. *)
SameFile(t) ==
    task'[t].plan = task[t].plan /\ task'[t].dir = task[t].dir /\ task'[t].done = task[t].done

(* A call that has moved no further is still through with what it was. *)
LEMMA ThroughKept ==
  ASSUME LedgerGrows, NEW t, task'[t].plan = task[t].plan
  PROVE  /\ \A a, n : Through(t, a, n) => Through(t, a, n)'
         /\ \A j : ThroughTo(t, j) => ThroughTo(t, j)'
<1>1. \A a, n : Through(t, a, n) => Through(t, a, n)'
  BY DEF LedgerGrows, Through
<1> QED
  BY <1>1 DEF ThroughTo

(* Another call's step, seen from this one. *)
LEMMA ProgressKept ==
  ASSUME LedgerGrows, NEW t, task'[t] = task[t], Progress(t)
  PROVE  Progress(t)'
<1>1. Todo(t)' = Todo(t) /\ App(t)' = App(t)
  BY DEF App, Files, Todo
<1> QED
  BY <1>1, ThroughKept DEF Progress, At

(* A call put back to its beginning has nothing to show. *)
LEMMA ProgressIdle == ASSUME NEW t, task'[t] = Idle PROVE Progress(t)'
BY DEF Progress, Idle, At, Working

(* A move within the same file. *)
LEMMA ProgressMoves ==
  ASSUME LedgerGrows, NEW t, Progress(t), SameFile(t), task[t].pc \in Working,
         task'[t].pc \in Working,
         task'[t].pc \in {"exec", "insert", "commit"} => Todo(t) # {},
         task'[t].pc = "record" => Todo(t) = {}
  PROVE  Progress(t)'
<1>1. Todo(t)' = Todo(t) /\ App(t)' = App(t)
  BY DEF App, Files, Todo, SameFile
<1>2. task'[t].pc \notin {"idle", "planned", "done"} /\ task[t].pc \notin {"idle", "planned", "done"}
  BY DEF Working
<1>3. /\ task[t].dir \in 1 .. Len(Dirs)
      /\ ThroughTo(t, task[t].dir - 1)
      /\ \A n \in task[t].done : Through(t, App(t), n)
      /\ \A a \in Apps : DOMAIN task[t].plan[a] \subseteq DOMAIN Ordinal
  BY <1>2 DEF Progress, At
<1>4. /\ ThroughTo(t, task[t].dir - 1)'
      /\ \A n \in task[t].done : Through(t, App(t), n)'
  BY <1>1, <1>3, ThroughKept DEF SameFile
<1> QED
  BY <1>1, <1>2, <1>3, <1>4 DEF Progress, At, SameFile

(* One more file of the chain is through. *)
LEMMA ProgressFile ==
  ASSUME LedgerGrows, NEW t, Progress(t), task[t].pc \in Working,
         Key(t) \in DOMAIN ledger', ledger'[Key(t)] = Checksum(t),
         task'[t].pc = "file", task'[t].plan = task[t].plan, task'[t].dir = task[t].dir,
         task'[t].done = task[t].done \cup {Current(t)}
  PROVE  Progress(t)'
<1>1. App(t)' = App(t)
  BY DEF App
<1>2. task[t].pc \notin {"idle", "planned", "done"} /\ "file" \in Working
  BY DEF Working
<1>3. /\ task[t].dir \in 1 .. Len(Dirs)
      /\ ThroughTo(t, task[t].dir - 1)
      /\ \A n \in task[t].done : Through(t, App(t), n)
      /\ \A a \in Apps : DOMAIN task[t].plan[a] \subseteq DOMAIN Ordinal
  BY <1>2 DEF Progress, At
<1>4. ThroughTo(t, task[t].dir - 1)'
  BY <1>3, ThroughKept
<1>5. \A n \in task[t].done : Through(t, App(t), n)'
  BY <1>1, <1>3, ThroughKept
<1>6. \A n \in task'[t].done : Through(t, App(t), n)'
  BY <1>1, <1>5 DEF Through, Key, Checksum, Files
<1> QED
  BY <1>1, <1>2, <1>3, <1>4, <1>6 DEF Progress, At

(* The steps of a call that go on in its files. *)
LEMMA ProgressSteps ==
  ASSUME MInv, NEW t \in Appliers, LedgerGrows, Progress(t), discover_migrations(t) \/ Apply(t)
  PROVE  Progress(t)'
<1>0. TaskShape
  BY DEF MInv
<1>1. CASE Refuse(t) \/ Return(t)
  BY <1>0, <1>1, SetIdle, ProgressIdle DEF Return, Refuse
<1>2. CASE discover_migrations(t)
  <2>1. /\ task'[t].pc = "planned" /\ task'[t].plan = disk /\ task'[t].done = task[t].done
        /\ task[t].pc = "idle"
    BY <1>0, <1>2 DEF discover_migrations, At, TaskShape, Fields
  <2> QED
    BY <1>2, <2>1 DEF discover_migrations, WellNumbered, Progress, At, Working
<1>3. CASE Start(t)
  <2>1. /\ task'[t].pc = "chain" /\ task'[t].dir = 1 /\ task'[t].plan = task[t].plan
        /\ task'[t].done = task[t].done /\ task[t].pc = "planned"
    BY <1>0, <1>3 DEF Start, At, TaskShape, Fields
  <2>2. task'[t].done = {}
    BY <2>1 DEF Progress, At
  <2>3. 1 \in 1 .. Len(Dirs) /\ \A i : i \notin 1 .. 1 - 1
    BY DirsAssumption
  <2>4. ThroughTo(t, task[t].dir - 1)'
    BY <2>1, <2>3 DEF ThroughTo
  <2> QED
    BY <2>1, <2>2, <2>3, <2>4 DEF Progress, At, Working
<1>4. CASE \E l \in Working : Goto(t, l) /\ (CheckLedger(t) \/ Begin(t) \/ Exec(t) \/ Insert(t))
  <2>1. PICK l \in Working : Goto(t, l) /\ (CheckLedger(t) \/ Begin(t) \/ Exec(t) \/ Insert(t))
    BY <1>4
  <2>2. task'[t].pc = l /\ SameFile(t)
    BY <1>0, <2>1, SetPc DEF SameFile, Fields
  <2>3. task[t].pc \in Working /\ (task'[t].pc \in {"exec", "insert", "commit"} => Todo(t) # {}) /\ task'[t].pc # "record"
    <3>1. CASE CheckLedger(t)
      BY <1>0, <3>1, SetPc, SetIdle DEF CheckLedger, At, Working, Idle
    <3>2. CASE Begin(t)
      BY <1>0, <3>2, SetPc, SetIdle DEF Begin, At, Working, Idle
    <3>3. CASE Exec(t)
      BY <1>0, <3>3, SetPc DEF Exec, At, Working, Progress
    <3>4. CASE Insert(t)
      BY <1>0, <3>4, SetPc, SetIdle DEF Insert, At, Working, Progress, Idle
    <3> QED
      BY <2>1, <3>1, <3>2, <3>3, <3>4
  <2> QED
    BY <2>2, <2>3, ProgressMoves
<1>5. CASE Recorded(t) /\ ~Refuse(t)
  <2>1. /\ task'[t].pc = "file" /\ task'[t].plan = task[t].plan /\ task'[t].dir = task[t].dir
        /\ task'[t].done = task[t].done \cup {Current(t)} /\ task[t].pc = "file"
    BY <1>0, <1>5 DEF Recorded, At, TaskShape, Fields
  <2>2. Key(t) \in DOMAIN ledger /\ ledger[Key(t)] = Checksum(t) /\ ledger' = ledger
    BY <1>5 DEF Recorded, ledgers
  <2> QED
    BY <2>1, <2>2, ProgressFile DEF Working
<1>6. CASE Commit(t)
  <2>1. /\ task'[t].pc = "file" /\ task'[t].plan = task[t].plan /\ task'[t].dir = task[t].dir
        /\ task'[t].done = task[t].done \cup {Current(t)} /\ task[t].pc = "commit"
    BY <1>0, <1>6 DEF Commit, At, TaskShape, Fields
  <2>2. Key(t) \in DOMAIN ledger' /\ ledger'[Key(t)] = Checksum(t)
    BY <1>6 DEF Commit, Committed, Merge
  <2> QED
    BY <2>1, <2>2, ProgressFile DEF Working
<1>7. CASE Reflect(t)
  <2>1. task'[t].pc = "record" /\ SameFile(t) /\ task[t].pc = "file" /\ Todo(t) = {}
    BY <1>0, <1>7 DEF Reflect, At, TaskShape, Fields, SameFile
  <2> QED
    BY <2>1, ProgressMoves DEF Working
<1>8. CASE Record(t)
  <2> DEFINE d == task[t].dir
  <2>1. /\ task[t].pc = "record" /\ task'[t].plan = task[t].plan /\ task'[t].done = {}
        /\ task'[t].pc = IF d < Len(Dirs) THEN "chain" ELSE "done"
        /\ task'[t].dir = IF d < Len(Dirs) THEN d + 1 ELSE d
    BY <1>0, <1>8 DEF Record, At, TaskShape, Fields
  <2>2. /\ d \in 1 .. Len(Dirs) /\ ThroughTo(t, d - 1) /\ Todo(t) = {}
        /\ \A n \in task[t].done : Through(t, App(t), n)
        /\ \A a \in Apps : DOMAIN task[t].plan[a] \subseteq DOMAIN Ordinal
    BY <2>1 DEF Progress, At, Working
  <2>3. Len(Dirs) \in Nat /\ d \in Nat
    BY <2>2, DirsAssumption
  <2>4. \A n \in DOMAIN task[t].plan[Dirs[d]] : Through(t, Dirs[d], n)
    BY <2>2 DEF Todo, Files, App
  <2>5. ThroughTo(t, d)
    <3>1. \A i \in 1 .. d : i \in 1 .. d - 1 \/ i = d
      BY <2>3
    <3> QED
      BY <2>2, <2>4, <3>1 DEF ThroughTo
  <2> QED
    <3> HIDE DEF d
    <3>1. CASE d < Len(Dirs)
      <4>1. task'[t].dir \in 1 .. Len(Dirs) /\ task'[t].dir - 1 = d
        BY <2>1, <2>2, <2>3, <3>1
      <4> QED
        BY <2>1, <2>2, <2>5, <3>1, <4>1, ThroughKept DEF Progress, At, Working
    <3>2. CASE ~(d < Len(Dirs))
      <4>1. d = Len(Dirs)
        BY <2>2, <2>3, <3>2
      <4> QED
        BY <2>1, <2>2, <2>5, <3>2, <4>1, ThroughKept DEF Progress, At, Working
    <3> QED
      BY <3>1, <3>2
<1>9. \/ Refuse(t) \/ Return(t) \/ discover_migrations(t) \/ Start(t) \/ Recorded(t) \/ Commit(t)
      \/ Reflect(t) \/ Record(t)
      \/ \E l \in Working : Goto(t, l) /\ (CheckLedger(t) \/ Begin(t) \/ Exec(t) \/ Insert(t))
  BY DEF Apply, Fail, CommitUnknown, CheckLedger, Begin, Exec, Insert, Working
<1> QED
  BY <1>1, <1>2, <1>3, <1>4, <1>5, <1>6, <1>7, <1>8, <1>9

(* Every step keeps the progress of every call. *)
LEMMA ChainsNext == MInv /\ Chains /\ [MigrationNext]_migrationVars => Chains'
<1> SUFFICES ASSUME MInv, Chains, [MigrationNext]_migrationVars, NEW u \in Appliers
             PROVE  Progress(u)'
  BY DEF Chains
<1>0. LedgerGrows /\ TaskShape /\ Progress(u)
  BY LedgerOnlyGrows DEF MInv, Chains
<1>1. CASE task'[u] = task[u]
  BY <1>0, <1>1, ProgressKept
<1>2. CASE task'[u] = Idle
  BY <1>2, ProgressIdle
<1>3. CASE discover_migrations(u) \/ Apply(u)
  BY <1>0, <1>3, ProgressSteps
<1>4. CASE Edit \/ HandOver \/ UNCHANGED migrationVars
  BY <1>1, <1>4 DEF Edit, HandOver, migrationVars
<1>5. CASE \E gone \in SUBSET Appliers : Lose(gone)
  BY <1>1, <1>2, <1>5 DEF Lose
<1>6. ASSUME NEW t \in Appliers, t # u, discover_migrations(t) \/ Apply(t) PROVE task'[u] = task[u]
  BY <1>0, <1>6 DEF TaskShape, discover_migrations, Apply, Start, CheckLedger, Recorded, Begin, Exec, Insert,
       Commit, CommitUnknown, Reflect, Record, Return, Fail, Refuse, Goto
<1> QED
  BY <1>1, <1>3, <1>4, <1>5, <1>6 DEF MigrationNext

(* A set of naturals has a least element. *)
LEMMA LeastOrdinal ==
  ASSUME NEW T, T \subseteq Nat, T # {}
  PROVE  \E x \in T : \A y \in T : x <= y
<1>1. \E x \in T : \A y \in T : ~ (<<y, x>> \in OpToRel(<, Nat))
  <2> HIDE DEF OpToRel
  <2> QED BY WFMin, NatLessThanWellFounded
<1>2. PICK x \in T : \A y \in T : ~ (<<y, x>> \in OpToRel(<, Nat))
  BY <1>1
<1>3. \A y \in T : ~ (y < x)
  BY <1>2 DEF OpToRel
<1> QED
  BY <1>3

(* The file at hand is the first of those to do. *)
LEMMA CurrentIsFirst ==
  ASSUME NEW t, Todo(t) # {}, Todo(t) \subseteq DOMAIN Ordinal
  PROVE  Current(t) \in Todo(t) /\ \A m \in Todo(t) : Ordinal[Current(t)] <= Ordinal[m]
<1> DEFINE T == {Ordinal[n] : n \in Todo(t)}
<1>1. T \subseteq Nat /\ T # {}
  BY OrdinalAssumption
<1>2. PICK x \in T : \A y \in T : x <= y
  BY <1>1, LeastOrdinal
<1>3. \E n \in Todo(t) : \A m \in Todo(t) : Ordinal[n] <= Ordinal[m]
  BY <1>2
<1> QED
  BY <1>3 DEF Current

(* Progress implies the order of execution. *)
LEMMA ChainsInOrder == Chains => InOrder
<1> SUFFICES ASSUME Chains, NEW t \in Appliers, task[t].pc \in {"exec", "insert", "commit"},
                    NEW n \in DOMAIN Files(t), Ordinal[n] < Ordinal[Current(t)]
             PROVE  <<App(t), n>> \in DOMAIN ledger
  BY DEF InOrder
<1>1. /\ task[t].dir \in 1 .. Len(Dirs) /\ Todo(t) # {}
      /\ \A m \in task[t].done : Through(t, App(t), m)
      /\ \A a \in Apps : DOMAIN task[t].plan[a] \subseteq DOMAIN Ordinal
  BY DEF Chains, Progress, At, Working
<1>2. App(t) \in Apps
  BY <1>1, DirsAssumption DEF App, Apps, Range
<1>3. DOMAIN Files(t) \subseteq DOMAIN Ordinal /\ Todo(t) \subseteq DOMAIN Ordinal
  BY <1>1, <1>2 DEF Files, Todo
<1>4. \A m \in Todo(t) : Ordinal[Current(t)] <= Ordinal[m] /\ Ordinal[m] \in Nat
  BY <1>1, <1>3, CurrentIsFirst, OrdinalAssumption
<1>5. Ordinal[Current(t)] \in Nat /\ Ordinal[n] \in Nat
  BY <1>1, <1>3, CurrentIsFirst, OrdinalAssumption
<1>6. n \notin Todo(t)
  BY <1>4, <1>5
<1> QED
  BY <1>1, <1>6 DEF Todo, Through

(* Progress implies true reports. *)
LEMMA ChainsReportTrue == Chains => ReportsTrue
<1> SUFFICES ASSUME Chains, NEW t \in Appliers, task[t].pc = "done", NEW a \in Apps,
                    NEW n \in DOMAIN task[t].plan[a]
             PROVE  Through(t, a, n)
  BY DEF ReportsTrue, Through
<1>1. PICK i \in 1 .. Len(Dirs) : Dirs[i] = a
  BY DirsAssumption DEF Apps, Range
<1>2. ThroughTo(t, Len(Dirs))
  BY DEF Chains, Progress, At
<1> QED
  BY <1>1, <1>2 DEF ThroughTo

(* No call has begun at first. *)
LEMMA MigrationInitChains == MigrationInit => Chains
BY DEF MigrationInit, Chains, Progress, At, Idle, Working

(* A file's statements run only after every file of lower ordinal is       *)
(* committed, whatever calls, failures and changes on disk there are.      *)
THEOREM MigrationsInOrder == MigrationSpec => []InOrder
BY MigrationInitInv, MigrationNextInv, MigrationInitChains, ChainsNext, ChainsInOrder, PTL DEF MigrationSpec

(* A call that returns a report has every file it discovered in the        *)
(* ledger, with the content it discovered.                                 *)
THEOREM MigrationReportsTrue == MigrationSpec => []ReportsTrue
BY MigrationInitInv, MigrationNextInv, MigrationInitChains, ChainsNext, ChainsReportTrue, PTL DEF MigrationSpec
-----------------------------------------------------------------------------
(* Ranges.  A call carries the files it discovered and works on one of     *)
(* them; the legacy tables hold rows like the new ones.                    *)
TaskTyped(t) ==
    /\ task[t].pc \in Working \cup {"idle", "planned", "done"}
    /\ ~At(t, "idle") => \A a \in Apps : AreFiles(task[t].plan[a])
    /\ task[t].pc \in Working => task[t].done \subseteq DOMAIN Files(t)
    /\ At(t, "record") => task[t].tables \subseteq Keys

StoresTyped ==
    /\ DOMAIN disk = Apps /\ \A a \in Apps : AreFiles(disk[a])
    /\ AreRows(ledger) /\ (legacy # NoTable => AreRows(legacy))
    /\ AreSchemas(schemas) /\ (legacySchemas # NoTable => AreSchemas(legacySchemas))

RangesInv == StoresTyped /\ \A t \in Appliers : TaskTyped(t)

LEMMA MigrationInitRanges == MigrationInit => RangesInv
<1> SUFFICES ASSUME MigrationInit PROVE RangesInv OBVIOUS
<1>1. StoresTyped
  BY OriginsAssumption DEF MigrationInit, StoresTyped
<1>2. \A t \in Appliers : TaskTyped(t)
  BY DEF MigrationInit, TaskTyped, At, Idle, Working
<1> QED
  BY <1>1, <1>2 DEF RangesInv

(* Rows of two tables, together. *)
LEMMA MergeRows == ASSUME NEW old, NEW new, AreRows(old), AreRows(new) PROVE AreRows(Merge(old, new))
BY DEF AreRows, Merge

LEMMA MergeSchemas == ASSUME NEW old, NEW new, AreSchemas(old), AreSchemas(new) PROVE AreSchemas(Merge(old, new))
BY DEF AreSchemas, Merge

LEMMA TypedKept == ASSUME NEW t, task'[t] = task[t], TaskTyped(t) PROVE TaskTyped(t)'
BY DEF TaskTyped, At, Files, App

LEMMA TypedIdle == ASSUME NEW t, task'[t] = Idle PROVE TaskTyped(t)'
BY DEF TaskTyped, At, Idle, Working

LEMMA TypedMoves ==
  ASSUME NEW t, TaskTyped(t), SameFile(t), task[t].pc \in Working, task'[t].pc \in Working \ {"record"}
  PROVE  TaskTyped(t)'
<1>1. Files(t)' = Files(t)
  BY DEF Files, App, SameFile
<1>2. task[t].pc # "idle" /\ task'[t].pc # "record"
  BY DEF Working
<1> QED
  BY <1>1, <1>2 DEF TaskTyped, At, SameFile

(* The file at hand is one of the chain's, with a content. *)
LEMMA FileAtHand ==
  ASSUME NEW t, Progress(t), TaskTyped(t), task[t].pc \in Working, Todo(t) # {}
  PROVE  Key(t) \in Keys /\ Checksum(t) \in Sums /\ Current(t) \in DOMAIN Files(t)
<1>1. task[t].dir \in 1 .. Len(Dirs) /\ \A a \in Apps : DOMAIN task[t].plan[a] \subseteq DOMAIN Ordinal
  BY DEF Progress, At, Working
<1>2. App(t) \in Apps
  BY <1>1, DirsAssumption DEF App, Apps, Range
<1>3. Todo(t) \subseteq DOMAIN Ordinal
  BY <1>1, <1>2 DEF Todo, Files
<1>4. Current(t) \in DOMAIN Files(t)
  BY <1>3, CurrentIsFirst DEF Todo
<1>5. AreFiles(Files(t))
  BY <1>2 DEF TaskTyped, At, Files, Working
<1> QED
  BY <1>2, <1>4, <1>5 DEF AreFiles, Keys, Key, Checksum

LEMMA TypedFile ==
  ASSUME NEW t, Progress(t), TaskTyped(t), task[t].pc \in Working, Todo(t) # {},
         task'[t].pc = "file", task'[t].plan = task[t].plan, task'[t].dir = task[t].dir,
         task'[t].done = task[t].done \cup {Current(t)}
  PROVE  TaskTyped(t)'
<1>1. Current(t) \in DOMAIN Files(t) /\ task[t].done \subseteq DOMAIN Files(t)
  BY FileAtHand DEF TaskTyped
<1>2. Files(t)' = Files(t) /\ task[t].pc # "idle"
  BY DEF Files, App, Working
<1> QED
  BY <1>1, <1>2 DEF TaskTyped, At, Working

LEMMA TypedSteps ==
  ASSUME MInv, StoresTyped, NEW t \in Appliers, Progress(t), TaskTyped(t), discover_migrations(t) \/ Apply(t)
  PROVE  TaskTyped(t)'
<1>0. TaskShape
  BY DEF MInv
<1>1. CASE Refuse(t) \/ Return(t)
  BY <1>0, <1>1, SetIdle, TypedIdle DEF Return, Refuse
<1>2. CASE discover_migrations(t)
  <2>1. task'[t].pc = "planned" /\ task'[t].plan = disk
    BY <1>0, <1>2 DEF discover_migrations, TaskShape, Fields
  <2> QED
    BY <2>1 DEF StoresTyped, TaskTyped, At, Working
<1>3. CASE Start(t)
  <2>1. /\ task'[t].pc = "chain" /\ task'[t].dir = 1 /\ task'[t].plan = task[t].plan
        /\ task'[t].done = task[t].done /\ task[t].pc = "planned"
    BY <1>0, <1>3 DEF Start, At, TaskShape, Fields
  <2>2. task'[t].done = {}
    BY <2>1 DEF Progress, At
  <2> QED
    BY <2>1, <2>2 DEF TaskTyped, At, Working
<1>4. ASSUME NEW l \in Working \ {"record"}, Goto(t, l), task[t].pc \in Working PROVE TaskTyped(t)'
  <2>1. task'[t].pc = l /\ SameFile(t)
    BY <1>0, <1>4, SetPc DEF SameFile, Fields
  <2> QED
    BY <1>4, <2>1, TypedMoves
<1>5. CASE CheckLedger(t) \/ Begin(t) \/ Exec(t) \/ Insert(t)
  BY <1>1, <1>4, <1>5 DEF CheckLedger, Begin, Exec, Insert, At, Working
<1>6. CASE Recorded(t) /\ ~Refuse(t)
  <2>1. /\ task'[t].pc = "file" /\ task'[t].plan = task[t].plan /\ task'[t].dir = task[t].dir
        /\ task'[t].done = task[t].done \cup {Current(t)} /\ task[t].pc = "file" /\ Todo(t) # {}
    BY <1>0, <1>6 DEF Recorded, At, TaskShape, Fields
  <2> QED
    BY <2>1, TypedFile DEF Working
<1>7. CASE Commit(t)
  <2>1. /\ task'[t].pc = "file" /\ task'[t].plan = task[t].plan /\ task'[t].dir = task[t].dir
        /\ task'[t].done = task[t].done \cup {Current(t)} /\ task[t].pc = "commit"
    BY <1>0, <1>7 DEF Commit, At, TaskShape, Fields
  <2>2. Todo(t) # {}
    BY <2>1 DEF Progress
  <2> QED
    BY <2>1, <2>2, TypedFile DEF Working
<1>8. CASE Reflect(t)
  <2>1. /\ task'[t].pc = "record" /\ SameFile(t) /\ task[t].pc = "file"
        /\ task'[t].tables = {k \in Keys : ran[k] # <<>>}
    BY <1>0, <1>8 DEF Reflect, At, TaskShape, Fields, SameFile
  <2>2. Files(t)' = Files(t)
    BY <2>1 DEF Files, App, SameFile
  <2> QED
    BY <2>1, <2>2 DEF TaskTyped, At, SameFile, Working
<1>9. CASE Record(t)
  <2>1. /\ task'[t].pc \in {"chain", "done"} /\ task'[t].plan = task[t].plan /\ task'[t].done = {}
        /\ task[t].pc = "record"
    BY <1>0, <1>9 DEF Record, At, TaskShape, Fields
  <2> QED
    BY <2>1 DEF TaskTyped, At, Working
<1>10. CASE CommitUnknown(t) \/ Fail(t)
  BY <1>1, <1>10 DEF CommitUnknown, Fail
<1> QED
  BY <1>1, <1>2, <1>3, <1>5, <1>6, <1>7, <1>8, <1>9, <1>10 DEF Apply

(* What a step writes to the stores. *)
LEMMA StoresStep ==
  ASSUME MInv, Chains, RangesInv, [MigrationNext]_migrationVars
  PROVE  StoresTyped'
<1>0. StoresTyped
  BY DEF RangesInv
<1>1. CASE UNCHANGED <<disk, ledgers>>
  BY <1>0, <1>1 DEF StoresTyped, ledgers
<1>2. CASE Edit
  <2>1. PICK c \in Changes : disk' = [disk EXCEPT ![c.app] = c.files]
    BY <1>2 DEF Edit
  <2>2. DOMAIN disk' = Apps /\ \A a \in Apps : disk'[a] = IF a = c.app THEN c.files ELSE disk[a]
    BY <1>0, <2>1 DEF StoresTyped
  <2>3. \A a \in Apps : AreFiles(disk'[a])
    BY <1>0, <2>2, ChangesAssumption DEF StoresTyped
  <2> QED
    BY <1>0, <1>2, <2>2, <2>3 DEF StoresTyped, Edit, ledgers
<1>3. CASE HandOver
  <2>1. AreRows(ledger') /\ AreSchemas(schemas')
    BY <1>0, <1>3, MergeRows, MergeSchemas DEF StoresTyped, HandOver
  <2> QED
    BY <1>0, <1>3, <2>1 DEF StoresTyped, HandOver
<1>4. ASSUME NEW t \in Appliers, Commit(t) \/ CommitUnknown(t) PROVE StoresTyped'
  <2>1. /\ ledger' = Merge([k \in {Key(t)} |-> Checksum(t)], ledger)
        /\ UNCHANGED <<disk, schemas, legacy, legacySchemas>> /\ task[t].pc = "commit"
    BY <1>4 DEF Commit, CommitUnknown, Committed, At
  <2>2. Key(t) \in Keys /\ Checksum(t) \in Sums
    <3>1. Progress(t) /\ TaskTyped(t) /\ Todo(t) # {}
      BY <2>1 DEF Chains, RangesInv, Progress
    <3> QED
      BY <2>1, <3>1, FileAtHand DEF Working
  <2>3. AreRows([k \in {Key(t)} |-> Checksum(t)])
    BY <2>2 DEF AreRows
  <2> QED
    BY <1>0, <2>1, <2>3, MergeRows DEF StoresTyped
<1>5. ASSUME NEW t \in Appliers, Record(t) PROVE StoresTyped'
  <2>1. /\ schemas' = Merge([a \in {App(t)} |-> task[t].tables], schemas)
        /\ UNCHANGED <<disk, ledger, legacy, legacySchemas>> /\ task[t].pc = "record"
    BY <1>5 DEF Record, At
  <2>2. task[t].tables \subseteq Keys /\ task[t].dir \in 1 .. Len(Dirs)
    BY <2>1 DEF RangesInv, TaskTyped, At, Chains, Progress, Working
  <2>3. App(t) \in Apps
    BY <2>2, DirsAssumption DEF App, Apps, Range
  <2>4. AreSchemas([a \in {App(t)} |-> task[t].tables])
    BY <2>2, <2>3 DEF AreSchemas
  <2> QED
    BY <1>0, <2>1, <2>4, MergeSchemas DEF StoresTyped
<1> QED
  BY <1>1, <1>2, <1>3, <1>4, <1>5 DEF MigrationNext, discover_migrations, Apply, Start, CheckLedger, Recorded, Begin,
         Exec, Insert, Reflect, Return, Fail, Lose, migrationVars

LEMMA RangesNext == MInv /\ Chains /\ RangesInv /\ [MigrationNext]_migrationVars => RangesInv'
<1> SUFFICES ASSUME MInv, Chains, RangesInv, [MigrationNext]_migrationVars, NEW u \in Appliers
             PROVE  TaskTyped(u)'
  BY StoresStep DEF RangesInv
<1>0. TaskShape /\ Progress(u) /\ TaskTyped(u) /\ StoresTyped
  BY DEF MInv, Chains, RangesInv
<1>1. CASE task'[u] = task[u]
  BY <1>0, <1>1, TypedKept
<1>2. CASE task'[u] = Idle
  BY <1>2, TypedIdle
<1>3. CASE discover_migrations(u) \/ Apply(u)
  BY <1>0, <1>3, TypedSteps
<1>4. CASE Edit \/ HandOver \/ UNCHANGED migrationVars
  BY <1>1, <1>4 DEF Edit, HandOver, migrationVars
<1>5. CASE \E gone \in SUBSET Appliers : Lose(gone)
  BY <1>1, <1>2, <1>5 DEF Lose
<1>6. ASSUME NEW t \in Appliers, t # u, discover_migrations(t) \/ Apply(t) PROVE task'[u] = task[u]
  BY <1>0, <1>6 DEF TaskShape, discover_migrations, Apply, Start, CheckLedger, Recorded, Begin, Exec, Insert,
       Commit, CommitUnknown, Reflect, Record, Return, Fail, Refuse, Goto
<1> QED
  BY <1>1, <1>3, <1>4, <1>5, <1>6 DEF MigrationNext

LEMMA RangesImply == Chains /\ RangesInv => MigrationTypeOK
<1> SUFFICES ASSUME Chains, RangesInv PROVE MigrationTypeOK OBVIOUS
<1>1. \A t \in Appliers : task[t].pc \in Working => task[t].dir \in DOMAIN Dirs
  BY DirsAssumption DEF Chains, Progress
<1> QED
  BY <1>1 DEF RangesInv, StoresTyped, TaskTyped, MigrationTypeOK

LEMMA MigrationTypes == MigrationSpec => []MigrationTypeOK
BY MigrationInitInv, MigrationNextInv, MigrationInitChains, ChainsNext, MigrationInitRanges, RangesNext, RangesImply,
   PTL DEF MigrationSpec

-----------------------------------------------------------------------------
(* Nodes and their migrations *)

(* The stages with an engine of the node's own, with an observer, and with *)
(* an address or topologies.                                               *)
Up == {"bootstrap", "prepare", "assemble", "observe", "replicate", "handoff", "bind", "topologies",
       "open", "stop_http", "stop_unb", "stop_source", "close"}
Observed == {"observe", "handoff", "bind", "topologies", "open", "stop_http", "stop_unb", "stop_source"}
Listening == {"topologies", "open", "stop_http"}
Bound == {"topologies", "open", "stop_http", "stop_unb"}

NodeShape ==
    /\ DOMAIN pc = Nodes /\ unb \in [Nodes -> Nat] /\ crashes \in Nat
    /\ orphans \subseteq engines /\ engines \subseteq Nodes

Holdings ==
    \A p \in Nodes :
        /\ pc[p] \in Up => p \in engines /\ p \notin orphans
        /\ pc[p] \notin Up => (p \in engines => p \in orphans)
        /\ p \in observing <=> pc[p] \in Observed
        /\ port = p => pc[p] \in Listening
        /\ unb[p] # 0 => pc[p] \in Bound

(* Without a lost process the lock file names the engine that runs, and    *)
(* nobody has judged it stale.                                             *)
LockTrue ==
    crashes = 0 =>
        /\ orphans = {}
        /\ pidfile = NoFile \/ pidfile \in engines
        /\ \A p \in engines : pidfile = p
        /\ \A p \in Nodes : pc[p] # "remove"

NodeInv == NodeShape /\ Holdings /\ LockTrue

(* Nothing runs at first. *)
LEMMA NodeInitInv == NodeInit => NodeInv
<1> SUFFICES ASSUME NodeInit PROVE NodeInv OBVIOUS
<1>1. NodeShape
  BY DEF NodeInit, NodeShape
<1>2. Holdings
  BY NodesAssumption DEF NodeInit, Holdings, Up, Observed, Listening, Bound
<1>3. LockTrue
  BY DEF NodeInit, LockTrue
<1> QED
  BY <1>1, <1>2, <1>3 DEF NodeInv

(* Opening the database. *)
LEMMA OpeningInv ==
  ASSUME NodeInv, NEW p \in Nodes,
         \/ Open(p) \/ OpenReplica(p) \/ ReadLock(p) \/ RemoveLock(p) \/ StartEngine(p) \/ StartFails(p)
         \/ EnsureDatabase(p)
  PROVE  NodeInv'
<1> USE DEF NodeInv, NodeShape, Holdings, LockTrue, Up, Observed, Listening, Bound, Stage, Enter, Close
<1>1. CASE Open(p)
  BY <1>1 DEF Open
<1>2. CASE OpenReplica(p)
  BY <1>2 DEF OpenReplica
<1>3. CASE ReadLock(p)
  BY <1>3 DEF ReadLock
<1>4. CASE RemoveLock(p)
  BY <1>4 DEF RemoveLock
<1>5. CASE StartEngine(p)
  BY <1>5, NodesAssumption DEF StartEngine
<1>6. CASE StartFails(p)
  BY <1>6 DEF StartFails
<1>7. CASE EnsureDatabase(p)
  BY <1>7, NodesAssumption DEF EnsureDatabase
<1> QED
  BY <1>1, <1>2, <1>3, <1>4, <1>5, <1>6, <1>7

(* Assembling the core, handing over and binding. *)
LEMMA AssemblingInv ==
  ASSUME NodeInv, NEW p \in Nodes,
         \/ PrepareDsn(p) \/ Assemble(p) \/ Observe(p) \/ Replicate(p) \/ AssembleFails(p)
         \/ HandoffOk(p) \/ HandoffFails(p)
         \/ BindHttp(p) \/ StartTopology(p) \/ BindingFails(p) \/ Opened(p)
  PROVE  NodeInv'
<1> USE DEF NodeInv, NodeShape, Holdings, LockTrue, Up, Observed, Listening, Bound, Stage, Enter, Close
<1>1. CASE PrepareDsn(p)
  BY <1>1 DEF PrepareDsn
<1>2. CASE Assemble(p)
  BY <1>2 DEF Assemble
<1>3. CASE Observe(p)
  BY <1>3 DEF Observe
<1>4. CASE Replicate(p)
  BY <1>4 DEF Replicate
<1>5. CASE AssembleFails(p)
  BY <1>5, NodesAssumption DEF AssembleFails
<1>6. CASE HandoffOk(p) \/ HandoffFails(p)
  BY <1>6 DEF HandoffOk, HandoffFails
<1>7. CASE BindHttp(p)
  BY <1>7 DEF BindHttp
<1>8. CASE StartTopology(p)
  BY <1>8 DEF StartTopology
<1>9. CASE BindingFails(p)
  BY <1>9 DEF BindingFails
<1>10. CASE Opened(p)
  BY <1>10 DEF Opened
<1> QED
  BY <1>1, <1>2, <1>3, <1>4, <1>5, <1>6, <1>7, <1>8, <1>9, <1>10

(* Serving and shutting down. *)
LEMMA ClosingInv ==
  ASSUME NodeInv, NEW p \in Nodes,
         \/ attach_unb(p) \/ HttpEnds(p) \/ Shutdown(p) \/ StopHttp(p) \/ StopTopology(p) \/ StopSource(p)
         \/ CloseDb(p)
  PROVE  NodeInv'
<1> USE DEF NodeInv, NodeShape, Holdings, LockTrue, Up, Observed, Listening, Bound, Stage, Enter, Close
<1>1. CASE attach_unb(p)
  BY <1>1 DEF attach_unb
<1>2. CASE HttpEnds(p)
  BY <1>2, NodesAssumption DEF HttpEnds
<1>3. CASE Shutdown(p)
  BY <1>3 DEF Shutdown
<1>4. CASE StopHttp(p)
  BY <1>4, NodesAssumption DEF StopHttp
<1>5. CASE StopTopology(p)
  BY <1>5 DEF StopTopology
<1>6. CASE StopSource(p)
  BY <1>6 DEF StopSource
<1>7. CASE CloseDb(p)
  BY <1>7, NodesAssumption DEF CloseDb
<1> QED
  BY <1>1, <1>2, <1>3, <1>4, <1>5, <1>6, <1>7

(* Losing a process, and the end of an engine that outlived one. *)
LEMMA LossInv == ASSUME NodeInv, NEW p \in Nodes, Crash(p) \/ OrphanExits(p) PROVE NodeInv'
<1> USE DEF NodeInv, NodeShape, Holdings, LockTrue, Up, Observed, Listening, Bound, Stage, Enter
<1>1. CASE Crash(p)
  <2>1. crashes' # 0
    BY <1>1 DEF Crash
  <2> QED
    BY <1>1, <2>1, NodesAssumption DEF Crash
<1>2. CASE OrphanExits(p)
  BY <1>2 DEF OrphanExits
<1> QED
  BY <1>1, <1>2

(* Every step keeps the invariant of the nodes. *)
LEMMA NodeNextInv == NodeInv /\ [Next]_vars => NodeInv'
<1> SUFFICES ASSUME NodeInv, [Next]_vars PROVE NodeInv'
  OBVIOUS
<1>1. CASE UNCHANGED nodeVars
  BY <1>1 DEF nodeVars, NodeInv, NodeShape, Holdings, LockTrue
<1>2. CASE \E p \in Nodes : NodeStep(p)
  BY <1>2, OpeningInv, AssemblingInv, ClosingInv, LossInv DEF NodeStep
<1>3. CASE \E p \in Nodes : Handoff(p)
  BY <1>3, AssemblingInv DEF Handoff
<1>4. CASE \E p \in Nodes : CloseDb(p) \/ Crash(p)
  BY <1>4, ClosingInv, LossInv
<1> QED
  BY <1>1, <1>2, <1>3, <1>4 DEF Next, vars

(* The invariant implies the three properties of the nodes. *)
LEMMA NodeInvImplies == NodeInv => Released /\ BindingsNeedSource /\ LockKept
<1> SUFFICES ASSUME NodeInv PROVE Released /\ BindingsNeedSource /\ LockKept
  OBVIOUS
<1>1. Released
  BY DEF NodeInv, Holdings, Released, Stage, Up, Observed, Listening, Bound
<1>2. BindingsNeedSource
  <2> SUFFICES ASSUME NEW p \in Nodes
               PROVE  /\ port = p \/ unb[p] > 0 => p \in observing
                      /\ p \in observing => p \in engines \ orphans
    BY DEF BindingsNeedSource
  <2>1. unb[p] > 0 => unb[p] # 0
    BY DEF NodeInv, NodeShape
  <2>2. /\ port = p \/ unb[p] # 0 => pc[p] \in Observed
        /\ pc[p] \in Observed => pc[p] \in Up
        /\ p \in observing <=> pc[p] \in Observed
        /\ pc[p] \in Up => p \in engines \ orphans
    BY DEF NodeInv, Holdings, Up, Observed, Listening, Bound
  <2> QED
    BY <2>1, <2>2
<1>3. LockKept
  BY DEF NodeInv, LockTrue, LockKept
<1> QED
  BY <1>1, <1>2, <1>3

(* A failed open and a finished shutdown leave nothing behind, for any     *)
(* number of nodes, bindings and topologies.                               *)
THEOREM NodesRelease == Spec => []Released
BY NodeInitInv, NodeNextInv, NodeInvImplies, PTL DEF Spec, Init

(* Bindings never outlive the source nor the source its engine. *)
THEOREM BindingsStayAboveSource == Spec => []BindingsNeedSource
BY NodeInitInv, NodeNextInv, NodeInvImplies, PTL DEF Spec, Init

(* Until a process is lost no opener removes the lock file of an engine    *)
(* that runs.                                                              *)
THEOREM LockIsKept == Spec => []LockKept
BY NodeInitInv, NodeNextInv, NodeInvImplies, PTL DEF Spec, Init

-----------------------------------------------------------------------------
(* The contract of Migrations.  A primary past its handoff, and a call     *)
(* that has begun, know that the legacy ledgers are gone; a replica makes  *)
(* no calls.                                                               *)
Ready ==
    /\ \A p \in Nodes : pc[p] \in {"start_replica", "replicate"} => p \in Replicas
    /\ \A p \in Nodes \ Replicas : pc[p] \in {"bind", "topologies", "open"} => HandedOver
    /\ \A t \in Appliers : task[t].pc \in Working \cup {"done"} => HandedOver

IInv == DOMAIN pc = Nodes /\ Ready /\ MInv

(* A call's step happens after a handoff. *)
LEMMA CallAfterHandoff == ASSUME IInv, NEW t \in Appliers, Call(t) PROVE HandedOver
<1>1. Host[t] \in Nodes \ Replicas
  BY HostAssumption
<1>2. CASE Stage(Host[t], "open")
  BY <1>1, <1>2 DEF IInv, Ready, Stage
<1>3. CASE ~Stage(Host[t], "open")
  <2>1. Apply(t) /\ ~At(t, "planned")
    BY <1>3 DEF Call
  <2>2. task[t].pc \in Working \cup {"done"}
    BY <2>1 DEF Apply, Start, CheckLedger, Recorded, Begin, Exec, Insert, Commit, CommitUnknown,
                Reflect, Record, Return, Fail, At, Working
  <2> QED
    BY <2>2 DEF IInv, Ready
<1> QED
  BY <1>2, <1>3

(* Every step is a step of Migrations, or leaves the database alone. *)
LEMMA StepKeepsContract == ASSUME IInv, [Next]_vars PROVE [MigrationNext]_migrationVars
<1>1. CASE UNCHANGED migrationVars
  BY <1>1
<1>2. CASE \E p \in Nodes : Handoff(p)
  BY <1>2 DEF Handoff, MigrationNext
<1>3. CASE \E p \in Nodes : Lose(Hosted(p))
  BY <1>3 DEF Hosted, MigrationNext
<1>4. CASE \E t \in Appliers : discover_migrations(t) \/ Call(t)
  BY <1>4, CallAfterHandoff DEF Call, MigrationNext
<1>5. CASE Edit
  BY <1>5 DEF MigrationNext
<1> QED
  BY <1>1, <1>2, <1>3, <1>4, <1>5 DEF Next, vars

(* Once handed over, always handed over. *)
LEMMA HandedOverStays == ASSUME HandedOver, [MigrationNext]_migrationVars PROVE HandedOver'
BY DEF HandedOver, MigrationNext, Edit, HandOver, discover_migrations, Apply, Start, CheckLedger, Recorded,
       Begin, Exec, Insert, Commit, CommitUnknown, Reflect, Record, Return, Fail, Lose, ledgers, migrationVars

(* A step takes a call no further than it may be. *)
LEMMA WorkingStays ==
  ASSUME MInv, [MigrationNext]_migrationVars, NEW u \in Appliers, task'[u].pc \in Working \cup {"done"}
  PROVE  task[u].pc \in Working \cup {"done"} \/ HandedOver
<1>0. TaskShape
  BY DEF MInv
<1>1. CASE task'[u] = task[u]
  BY <1>1
<1>2. CASE task'[u] = Idle
  BY <1>2 DEF Idle, Working
<1>3. CASE Edit \/ HandOver \/ UNCHANGED migrationVars
  BY <1>1, <1>3 DEF Edit, HandOver, migrationVars
<1>4. CASE \E gone \in SUBSET Appliers : Lose(gone)
  BY <1>1, <1>2, <1>4 DEF Lose
<1>5. CASE \E t \in Appliers : discover_migrations(t)
  BY <1>0, <1>5 DEF discover_migrations, TaskShape, Fields, Working
<1> QED
  BY <1>3, <1>4, <1>5 DEF MigrationNext

(* The stages a step of a node may lead to. *)
LEMMA StagesStep ==
  ASSUME DOMAIN pc = Nodes, [Next]_vars, NEW q \in Nodes
  PROVE  /\ DOMAIN pc' = Nodes
         /\ pc'[q] \in {"start_replica", "replicate"} =>
               pc[q] \in {"start_replica", "replicate"} \/ q \in Replicas
         /\ pc'[q] \in {"bind", "topologies", "open"} =>
               \/ pc[q] \in {"bind", "topologies", "open", "replicate"}
               \/ HandedOver'
<1> USE DEF Stage, Enter
<1>1. CASE UNCHANGED nodeVars
  BY <1>1 DEF nodeVars
<1>2. ASSUME NEW p \in Nodes, Handoff(p)
      PROVE  /\ DOMAIN pc' = Nodes
             /\ pc'[q] = pc[q] \/ pc'[q] = "stop_http" \/ (pc'[q] = "bind" /\ HandedOver')
  BY <1>2 DEF Handoff, HandoffOk, HandoffFails, HandOver, HandedOver
<1>3. ASSUME NEW p \in Nodes, CloseDb(p) \/ Crash(p) PROVE DOMAIN pc' = Nodes /\ pc'[q] \in {pc[q], "idle"}
  BY <1>3 DEF CloseDb, Crash
<1>4. ASSUME NEW p \in Nodes, NodeStep(p)
      PROVE  /\ DOMAIN pc' = Nodes
             /\ pc'[q] \in {"start_replica", "replicate"} =>
                   pc[q] \in {"start_replica", "replicate"} \/ q \in Replicas
             /\ pc'[q] \in {"bind", "topologies", "open"} =>
                   pc[q] \in {"bind", "topologies", "open", "replicate"}
  <2>1. CASE Open(p) \/ OpenReplica(p) \/ ReadLock(p) \/ RemoveLock(p) \/ StartFails(p) \/ EnsureDatabase(p)
    BY <2>1 DEF Open, OpenReplica, ReadLock, RemoveLock, StartFails, EnsureDatabase
  <2>2. CASE StartEngine(p)
    BY <2>2 DEF StartEngine
  <2>3. CASE PrepareDsn(p) \/ Assemble(p) \/ Observe(p) \/ Replicate(p) \/ AssembleFails(p)
    BY <2>3 DEF PrepareDsn, Assemble, Observe, Replicate, AssembleFails
  <2>4. CASE BindHttp(p) \/ StartTopology(p) \/ BindingFails(p) \/ Opened(p)
    BY <2>4 DEF BindHttp, StartTopology, BindingFails, Opened
  <2>5. CASE attach_unb(p) \/ HttpEnds(p) \/ Shutdown(p) \/ StopHttp(p) \/ StopTopology(p)
             \/ StopSource(p) \/ OrphanExits(p)
    BY <2>5 DEF attach_unb, HttpEnds, Shutdown, StopHttp, StopTopology, StopSource, OrphanExits
  <2> QED
    BY <1>4, <2>1, <2>2, <2>3, <2>4, <2>5 DEF NodeStep
<1> QED
  BY <1>1, <1>2, <1>3, <1>4 DEF Next, vars

(* Every step keeps the invariant. *)
LEMMA NextInv == IInv /\ [Next]_vars => IInv'
<1> SUFFICES ASSUME IInv, [Next]_vars PROVE IInv'
  OBVIOUS
<1>0. [MigrationNext]_migrationVars /\ MInv /\ DOMAIN pc = Nodes /\ Ready
  BY StepKeepsContract DEF IInv
<1>1. MInv'
  BY <1>0, MigrationNextInv
<1>2. DOMAIN pc' = Nodes
  <2>1. CASE Nodes = {}
    BY <1>0, <2>1 DEF Next, vars, nodeVars, Edit
  <2>2. CASE Nodes # {}
    <3>1. PICK q \in Nodes : TRUE
      BY <2>2
    <3> QED
      BY <1>0, <3>1, StagesStep
  <2> QED
    BY <2>1, <2>2
<1>3. HandedOver => HandedOver'
  BY <1>0, HandedOverStays
<1>4. \A p \in Nodes : pc'[p] \in {"start_replica", "replicate"} => p \in Replicas
  BY <1>0, StagesStep DEF Ready
<1>5. \A p \in Nodes \ Replicas : pc'[p] \in {"bind", "topologies", "open"} => HandedOver'
  BY <1>0, <1>3, StagesStep DEF Ready
<1>6. \A t \in Appliers : task'[t].pc \in Working \cup {"done"} => HandedOver'
  BY <1>0, <1>3, WorkingStays DEF Ready
<1> QED
  BY <1>1, <1>2, <1>4, <1>5, <1>6 DEF IInv, Ready

(* No node is open and no call has begun at first. *)
LEMMA InitInv == Init => IInv
<1> SUFFICES ASSUME Init PROVE IInv OBVIOUS
<1>1. MInv
  BY MigrationInitInv DEF Init
<1>2. pc = [p \in Nodes |-> "idle"] /\ task = [t \in Appliers |-> Idle]
  BY DEF Init, NodeInit, MigrationInit
<1> QED
  BY <1>1, <1>2 DEF IInv, Ready, Idle, Working

(* Nodes that open, fail, shut down and crash implement the contract of    *)
(* Migrations: no call works on a database whose legacy ledgers were not   *)
(* handed over.                                                            *)
THEOREM NodesKeepContract == Spec => KeepsContract
<1>1. Init => MigrationInit
  BY DEF Init
<1>2. IInv /\ [Next]_vars => [MigrationNext]_migrationVars
  BY StepKeepsContract
<1> QED
  BY <1>1, <1>2, InitInv, NextInv, PTL DEF Spec, KeepsContract, MigrationSpec

(* What Migrations promises holds of the whole: migrations take effect     *)
(* once, in order, and are truly reported.                                 *)
THEOREM NodesApplyOnce == Spec => [](AppliedOnce /\ InOrder /\ ReportsTrue)
BY NodesKeepContract, MigrationsApplyOnce, MigrationsInOrder, MigrationReportsTrue, PTL DEF KeepsContract
-----------------------------------------------------------------------------
(* The ranges of a node. *)
LEMMA NodeRangesStep == NodeInv /\ NodeTypeOK /\ [Next]_vars => NodeTypeOK'
<1> SUFFICES ASSUME NodeInv, NodeTypeOK, [Next]_vars PROVE NodeTypeOK'
  OBVIOUS
<1>0. (orphans \subseteq engines)' /\ unb' \in [Nodes -> Nat]
  BY NodeNextInv DEF NodeInv, NodeShape
<1> USE DEF NodeTypeOK, Stage, Enter, Close
<1>1. CASE UNCHANGED nodeVars
  BY <1>1 DEF nodeVars
<1>2. ASSUME NEW p \in Nodes, NodeStep(p) PROVE NodeTypeOK'
  <2>1. CASE Open(p) \/ OpenReplica(p) \/ ReadLock(p) \/ RemoveLock(p) \/ StartFails(p)
    BY <1>0, <2>1 DEF Open, OpenReplica, ReadLock, RemoveLock, StartFails
  <2>2. CASE StartEngine(p)
    BY <1>0, <2>2 DEF StartEngine
  <2>3. CASE EnsureDatabase(p)
    BY <1>0, <2>3 DEF EnsureDatabase
  <2>4. CASE PrepareDsn(p) \/ Assemble(p) \/ Observe(p) \/ Replicate(p) \/ AssembleFails(p)
    BY <1>0, <2>4 DEF PrepareDsn, Assemble, Observe, Replicate, AssembleFails
  <2>5. CASE BindHttp(p) \/ StartTopology(p) \/ BindingFails(p) \/ Opened(p)
    BY <1>0, <2>5 DEF BindHttp, StartTopology, BindingFails, Opened
  <2>6. CASE attach_unb(p) \/ HttpEnds(p) \/ Shutdown(p) \/ StopHttp(p) \/ StopTopology(p) \/ StopSource(p)
    BY <1>0, <2>6 DEF attach_unb, HttpEnds, Shutdown, StopHttp, StopTopology, StopSource
  <2>7. CASE OrphanExits(p)
    BY <1>0, <2>7 DEF OrphanExits
  <2> QED
    BY <1>2, <2>1, <2>2, <2>3, <2>4, <2>5, <2>6, <2>7 DEF NodeStep
<1>3. ASSUME NEW p \in Nodes, Handoff(p) PROVE NodeTypeOK'
  BY <1>0, <1>3 DEF Handoff, HandoffOk, HandoffFails
<1>4. ASSUME NEW p \in Nodes, CloseDb(p) PROVE NodeTypeOK'
  BY <1>0, <1>4 DEF CloseDb
<1>5. ASSUME NEW p \in Nodes, Crash(p) PROVE NodeTypeOK'
  BY <1>0, <1>5 DEF Crash
<1> QED
  BY <1>1, <1>2, <1>3, <1>4, <1>5 DEF Next, vars

LEMMA NodeInitRanges == NodeInit => NodeTypeOK
BY DEF NodeInit, NodeTypeOK

(* Stages, ledgers and calls stay in range, and a call works on a file of  *)
(* the chain it is at.                                                     *)
THEOREM NodesTypeCorrect == Spec => []TypeOK
<1>1. Spec => []NodeTypeOK
  BY NodeInitInv, NodeNextInv, NodeInitRanges, NodeRangesStep, PTL DEF Spec, Init
<1>2. Spec => []MigrationTypeOK
  BY NodesKeepContract, MigrationTypes, PTL DEF KeepsContract
<1>3. NodeTypeOK /\ MigrationTypeOK => TypeOK
  BY DEF TypeOK
<1> QED
  BY <1>1, <1>2, <1>3, PTL

-----------------------------------------------------------------------------
(* The observer *)

(* Why WatchedWriteMoves holds: an open node's tables have their trigger   *)
(* or were created anew; transaction ids rise along the notifications, so  *)
(* none that is still to be numbered comes after one that is dropped; and  *)
(* the position of a write that counts is past all earlier ones wherever   *)
(* it is on its way.                                                       *)
Watched ==
    state = "open" => \A t \in Tables : t \in triggers \/ \E m \in DOMAIN log : t \in log[m].recreated

NoticesInOrder ==
    \A i \in DOMAIN notices :
        /\ notices[i][1] < NextXid
        /\ \A j \in 1 .. i : notices[j][1] <= notices[i][1]

OnItsWay(t, before) ==
    \/ stamp[t] > before
    \/ \E i \in DOMAIN input : input[i][2] = t /\ input[i][3] > before
    \/ \E i \in DOMAIN notices : notices[i][2] = t /\ notices[i][1] < XidLimit /\ counter + i > before

Counts(n, t) ==
    /\ log[n].served /\ log[n].xid < XidLimit /\ t \in log[n].named
    /\ \A m \in 1 .. n : t \notin log[m].recreated

NothingLost ==
    state # "stopped" => \A n \in DOMAIN log, t \in Tables : Counts(n, t) => OnItsWay(t, log[n].before)

FeedInv == FeedTypeOK /\ Watched /\ NoticesInOrder /\ NothingLost

-----------------------------------------------------------------------------
(* The notifications of a commit name every table it wrote that has a      *)
(* trigger, in any order.                                                  *)
LEMMA EveryTableNotified ==
  ASSUME NEW S, IsFiniteSet(S), NEW order \in SetToSeqs(S), NEW t \in S
  PROVE  \E i \in DOMAIN order : order[i] = t
<1> DEFINE n == Cardinality(S)
<1>1. n \in Nat /\ order \in [1 .. n -> S] /\ \A i, j \in 1 .. n : i # j => order[i] # order[j]
  BY FS_CardinalityType DEF SetToSeqs
<1>2. SUFFICES ASSUME \A i \in 1 .. n : order[i] # t PROVE FALSE
  BY <1>1
<1>3. order \in [1 .. n -> S \ {t}]
  BY <1>1, <1>2
<1>4. IsFiniteSet(S \ {t}) /\ Cardinality(S \ {t}) = n - 1
  BY FS_RemoveElement
<1>5. IsFiniteSet(1 .. n) /\ Cardinality(1 .. n) = n
  <2>1. 1 \in Int /\ n \in Int
    BY <1>1
  <2>2. IsFiniteSet(1 .. n) /\ Cardinality(1 .. n) = IF 1 > n THEN 0 ELSE n - 1 + 1
    BY <2>1, FS_Interval
  <2> QED
    BY <1>1, <2>2
<1> HIDE DEF n
<1>6. \E x, y \in 1 .. n : x # y /\ order[x] = order[y]
  BY <1>1, <1>3, <1>4, <1>5, FS_PigeonHole
<1> QED
  BY <1>1, <1>6

LEMMA OrderFacts ==
  ASSUME NEW S, IsFiniteSet(S), NEW order \in SetToSeqs(S), NEW x
  PROVE  /\ Len([i \in DOMAIN order |-> <<x, order[i]>>]) \in Nat
         /\ DOMAIN order = 1 .. Len([i \in DOMAIN order |-> <<x, order[i]>>])
         /\ [i \in DOMAIN order |-> <<x, order[i]>>] \in Seq({x} \X S)
<1> DEFINE n == Cardinality(S)
           ns == [i \in DOMAIN order |-> <<x, order[i]>>]
<1>1. n \in Nat /\ order \in [1 .. n -> S]
  BY FS_CardinalityType DEF SetToSeqs
<1>2. ns \in [1 .. n -> {x} \X S]
  BY <1>1
<1>3. Len(ns) = n /\ ns \in Seq({x} \X S)
  BY <1>1, <1>2
<1> QED
  BY <1>1, <1>3

(* As long as no id has reached the limit, every notification on its way   *)
(* will be given a position.                                               *)
LEMMA AllIssued ==
  ASSUME FeedTypeOK
  PROVE  /\ Issued \in Nat
         /\ (\A i \in DOMAIN notices : notices[i][1] < XidLimit) => Issued = counter + Len(notices)
<1>1. Len(notices) \in Nat /\ DOMAIN notices = 1 .. Len(notices) /\ counter \in Nat
  BY DEF FeedTypeOK
<1>2. IsFiniteSet(1 .. Len(notices)) /\ Cardinality(1 .. Len(notices)) = Len(notices)
  <2>1. 1 \in Int /\ Len(notices) \in Int
    BY <1>1
  <2>2. IsFiniteSet(1 .. Len(notices))
        /\ Cardinality(1 .. Len(notices)) = IF 1 > Len(notices) THEN 0 ELSE Len(notices) - 1 + 1
    BY <2>1, FS_Interval
  <2> QED
    BY <1>1, <2>2
<1> DEFINE V == {i \in DOMAIN notices : notices[i][1] < XidLimit}
<1>3. IsFiniteSet(V)
  BY <1>1, <1>2, FS_Subset
<1>4. Cardinality(V) \in Nat
  BY <1>3, FS_CardinalityType
<1>5. (\A i \in DOMAIN notices : notices[i][1] < XidLimit) => V = 1 .. Len(notices)
  BY <1>1
<1>6. Issued = counter + Cardinality(V)
  BY DEF Issued
<1> HIDE DEF V
<1> QED
  BY <1>1, <1>2, <1>4, <1>5, <1>6

LEMMA FeedInitHolds == FeedInit => FeedInv
<1> SUFFICES ASSUME FeedInit PROVE FeedInv
  OBVIOUS
<1>1. FeedTypeOK
  BY FeedAssumption DEF FeedInit, FeedTypeOK
<1>2. Watched /\ NoticesInOrder /\ NothingLost
  BY DEF FeedInit, Watched, NoticesInOrder, NothingLost
<1> QED
  BY <1>1, <1>2 DEF FeedInv

(* Starting the observer: nothing that was written before counts. *)
LEMMA StartingKeeps ==
  ASSUME FeedInv, Listen \/ Install \/ InstallFails
  PROVE  FeedInv'
<1>0. FeedTypeOK /\ Watched /\ NoticesInOrder /\ NothingLost
  BY DEF FeedInv
<1>1. /\ UNCHANGED <<log, notices, counter, input, stamp>>
      /\ state \notin {"open", "stopped"} /\ state' \in {"closed", "listening", "open"}
      /\ triggers' \in {triggers, Tables} /\ (state' = "open" => triggers' = Tables)
  BY DEF Listen, Install, InstallFails
<1>2. FeedTypeOK'
  BY <1>0, <1>1 DEF FeedTypeOK
<1>3. Watched'
  BY <1>1 DEF Watched
<1>4. NoticesInOrder'
  BY <1>0, <1>1 DEF NoticesInOrder, NextXid
<1>5. NothingLost'
  BY <1>0, <1>1 DEF NothingLost, Counts, OnItsWay
<1> QED
  BY <1>2, <1>3, <1>4, <1>5 DEF FeedInv

LEMMA StoppingKeeps ==
  ASSUME FeedInv, ObserverShutdown
  PROVE  FeedInv'
<1>0. FeedTypeOK
  BY DEF FeedInv
<1>1. /\ UNCHANGED <<triggers, log, counter, stamp>> /\ state' = "stopped"
      /\ notices' = <<>> /\ input' = <<>>
  BY DEF ObserverShutdown
<1>2. FeedTypeOK'
  BY <1>0, <1>1 DEF FeedTypeOK
<1>3. Watched' /\ NoticesInOrder' /\ NothingLost'
  BY <1>1 DEF Watched, NoticesInOrder, NothingLost
<1> QED
  BY <1>2, <1>3 DEF FeedInv

LEMMA EntryTyped ==
  ASSUME FeedTypeOK, NEW named \in SUBSET Tables, NEW recreated \in SUBSET Tables
  PROVE  Entry(named, recreated) \in EntryType
<1>1. NextXid \in Nat /\ Issued \in Nat /\ (state = "open") \in BOOLEAN
  BY FeedAssumption, AllIssued DEF FeedTypeOK, NextXid
<1> QED
  BY <1>1 DEF Entry, EntryType

LEMMA NoticesTyped ==
  ASSUME FeedTypeOK
  PROVE  \A i \in DOMAIN notices : notices[i][1] \in Nat /\ notices[i][2] \in Tables
<1>1. \A i \in DOMAIN notices : notices[i] \in Nat \X Tables
  BY DEF FeedTypeOK
<1> QED
  BY <1>1

LEMMA LogTyped ==
  ASSUME FeedTypeOK
  PROVE  \A n \in DOMAIN log : log[n].before \in Nat
<1>1. \A n \in DOMAIN log : log[n] \in EntryType
  BY DEF FeedTypeOK
<1> QED
  BY <1>1 DEF EntryType

LEMMA EntryFacts ==
  ASSUME NEW named, NEW recreated
  PROVE  /\ Entry(named, recreated).before = Issued /\ Entry(named, recreated).xid = NextXid
         /\ Entry(named, recreated).named = named /\ Entry(named, recreated).recreated = recreated
         /\ Entry(named, recreated).served <=> state = "open"
BY DEF Entry

(* A write by name: its notifications come after all others. *)
LEMMA WriteKeeps ==
  ASSUME FeedInv, NEW T \in (SUBSET Tables) \ {{}}, Write(T)
  PROVE  FeedInv'
<1>0. FeedTypeOK /\ Watched /\ NoticesInOrder /\ NothingLost
  BY DEF FeedInv
<1> DEFINE S == T \cap triggers
<1>1. IsFiniteSet(S)
  BY FeedAssumption, FS_Subset
<1>2. PICK order \in SetToSeqs(S) : notices' = notices \o [i \in DOMAIN order |-> <<NextXid, order[i]>>]
  BY DEF Write
<1> DEFINE ns == [i \in DOMAIN order |-> <<NextXid, order[i]>>]
<1>3. Len(ns) \in Nat /\ DOMAIN order = 1 .. Len(ns) /\ ns \in Seq({NextXid} \X S)
  BY <1>1, OrderFacts
<1>4. /\ Len(log) \in Nat /\ Len(notices) \in Nat /\ counter \in Nat /\ NextXid \in Nat /\ Len(log) < MaxCommits
      /\ log' = Append(log, Entry(T, {})) /\ state # "stopped"
      /\ UNCHANGED <<state, triggers, counter, input, stamp>>
  BY <1>0, FeedAssumption DEF Write, FeedTypeOK, NextXid
<1>5. /\ Len(log') = Len(log) + 1 /\ log'[Len(log) + 1] = Entry(T, {})
      /\ \A n \in 1 .. Len(log) : log'[n] = log[n]
  BY <1>0, <1>4 DEF FeedTypeOK
<1>6. ns \in Seq(Nat \X Tables)
  <2>1. {NextXid} \X S \subseteq Nat \X Tables
    BY <1>4
  <2> QED
    BY <1>3, <2>1
<1>7. /\ Len(notices') = Len(notices) + Len(ns)
      /\ \A i \in 1 .. Len(notices) : notices'[i] = notices[i]
      /\ \A i \in 1 .. Len(ns) : notices'[Len(notices) + i] = <<NextXid, order[i]>>
      /\ notices' \in Seq(Nat \X Tables)
  <2>0. ns \in Seq(Nat \X Tables) /\ notices \in Seq(Nat \X Tables) /\ notices' = notices \o ns
    BY <1>0, <1>2, <1>6 DEF FeedTypeOK
  <2>1. \A i \in 1 .. Len(ns) : ns[i] = <<NextXid, order[i]>>
    BY <1>3
  <2> HIDE DEF ns
  <2>2. \A i \in 1 .. Len(ns) : (notices \o ns)[Len(notices) + i] = ns[i]
    BY <2>0
  <2>3. \A i \in 1 .. Len(notices) : (notices \o ns)[i] = notices[i]
    BY <2>0
  <2>4. notices \o ns \in Seq(Nat \X Tables) /\ Len(notices \o ns) = Len(notices) + Len(ns)
    BY <2>0
  <2> QED
    BY <2>0, <2>1, <2>2, <2>3, <2>4
<1> HIDE DEF ns
<1>8. FeedTypeOK'
  <2>1. log' \in Seq(EntryType) /\ Len(log') <= MaxCommits
    <3>1. Entry(T, {}) \in EntryType
      BY <1>0, EntryTyped
    <3>2. log \in Seq(EntryType)
      BY <1>0 DEF FeedTypeOK
    <3>3. log' \in Seq(EntryType)
      BY <1>4, <3>1, <3>2
    <3> QED
      BY <1>4, <1>5, <3>3, FeedAssumption
  <2> QED
    BY <1>0, <1>4, <1>7, <2>1 DEF FeedTypeOK
<1>9. DOMAIN log = 1 .. Len(log) /\ DOMAIN log' = 1 .. Len(log) + 1
      /\ DOMAIN notices = 1 .. Len(notices) /\ DOMAIN notices' = 1 .. Len(notices) + Len(ns)
  BY <1>0, <1>5, <1>7, <1>8 DEF FeedTypeOK
<1>10. Watched'
  BY <1>0, <1>4, <1>5, <1>9 DEF Watched
<1>11. NoticesInOrder'
  <2>1. NextXid' = NextXid + 1
    BY <1>4, <1>5, FeedAssumption DEF NextXid
  <2>2. \A i \in DOMAIN notices' : notices'[i][1] \in Nat /\ notices'[i][1] <= NextXid
    <3>1. \A i \in 1 .. Len(notices) : notices'[i][1] \in Nat /\ notices'[i][1] <= NextXid
      BY <1>0, <1>4, <1>7, <1>9, NoticesTyped DEF NoticesInOrder
    <3>2. \A i \in 1 .. Len(notices) + Len(ns) : i \in 1 .. Len(notices) \/ \E k \in 1 .. Len(ns) : i = Len(notices) + k
      <4>1. \A i \in 1 .. Len(notices) + Len(ns) : i \notin 1 .. Len(notices) =>
               i - Len(notices) \in 1 .. Len(ns) /\ i = Len(notices) + (i - Len(notices))
        BY <1>3, <1>4
      <4> QED
        BY <4>1
    <3> QED
      BY <1>4, <1>7, <1>9, <3>1, <3>2
  <2>3. ASSUME NEW i \in DOMAIN notices', NEW j \in 1 .. i PROVE notices'[j][1] <= notices'[i][1]
    <3>1. CASE i \in 1 .. Len(notices)
      <4>1. j \in 1 .. Len(notices)
        BY <1>4, <2>3, <3>1
      <4> QED
        BY <1>0, <1>7, <1>9, <2>3, <3>1, <4>1 DEF NoticesInOrder
    <3>2. CASE i \notin 1 .. Len(notices)
      <4>1. i - Len(notices) \in 1 .. Len(ns) /\ i = Len(notices) + (i - Len(notices)) /\ j \in DOMAIN notices'
        BY <1>3, <1>4, <1>9, <2>3, <3>2
      <4>2. notices'[i][1] = NextXid
        BY <1>7, <4>1
      <4> QED
        BY <2>2, <4>1, <4>2
    <3> QED
      BY <3>1, <3>2
  <2> QED
    BY <1>4, <2>1, <2>2, <2>3 DEF NoticesInOrder
<1>12. NothingLost'
  <2>1. SUFFICES ASSUME NEW n \in DOMAIN log', NEW t \in Tables, Counts(n, t)'
                 PROVE  OnItsWay(t, log[n].before)'
    BY DEF NothingLost
  <2>2. CASE n \in 1 .. Len(log)
    <3>1. Counts(n, t)
      <4>1. \A m \in 1 .. n : log'[m] = log[m]
        BY <1>4, <1>5, <2>2
      <4> QED
        BY <1>5, <2>1, <2>2, <4>1 DEF Counts
    <3>2. OnItsWay(t, log[n].before)
      BY <1>0, <1>4, <1>9, <2>1, <2>2, <3>1 DEF NothingLost
    <3>3. \A i \in DOMAIN notices : i \in DOMAIN notices' /\ notices'[i] = notices[i]
      BY <1>3, <1>4, <1>7, <1>9
    <3> QED
      BY <1>4, <1>5, <2>2, <3>2, <3>3 DEF OnItsWay
  <2>3. CASE n = Len(log) + 1
    <3>1. /\ log'[n].before = Issued /\ state = "open" /\ NextXid < XidLimit /\ t \in T
          /\ \A m \in 1 .. Len(log) : t \notin log[m].recreated
      <4>1. /\ log'[n] = Entry(T, {}) /\ log'[n].served /\ log'[n].xid < XidLimit /\ t \in log'[n].named
            /\ \A m \in 1 .. n : t \notin log'[m].recreated
        BY <1>5, <2>1, <2>3 DEF Counts
      <4>2. \A m \in 1 .. Len(log) : m \in 1 .. n /\ log'[m] = log[m]
        BY <1>4, <1>5, <2>3
      <4> QED
        BY <4>1, <4>2, EntryFacts
    <3>2. t \in S
      BY <1>0, <1>9, <2>1, <3>1 DEF Watched
    <3>3. PICK i \in DOMAIN order : order[i] = t
      BY <1>1, <3>2, EveryTableNotified
    <3>4. Issued = counter + Len(notices)
      <4>1. \A k \in DOMAIN notices : notices[k][1] < XidLimit
        BY <1>0, <1>4, <3>1, NoticesTyped, FeedAssumption DEF NoticesInOrder
      <4> QED
        BY <1>0, <4>1, AllIssued
    <3>5. i \in 1 .. Len(ns) /\ Len(notices) + i \in DOMAIN notices' /\ notices'[Len(notices) + i] = <<NextXid, t>>
          /\ counter + (Len(notices) + i) > Issued
      <4>1. i \in 1 .. Len(ns)
        BY <1>3, <3>3
      <4>2. i \in Nat /\ i >= 1 /\ i <= Len(ns)
        BY <1>3, <4>1
      <4>3. Len(notices) + i \in 1 .. Len(notices) + Len(ns)
        BY <1>3, <1>4, <4>2
      <4>4. counter + (Len(notices) + i) > Issued
        BY <1>4, <3>4, <4>2
      <4>5. notices'[Len(notices) + i] = <<NextXid, order[i]>>
        BY <1>7, <4>1
      <4> QED
        BY <1>9, <3>3, <4>1, <4>3, <4>4, <4>5
    <3> QED
      <4>1. PICK k \in DOMAIN notices' : notices'[k] = <<NextXid, t>> /\ counter + k > Issued
        BY <3>5
      <4>2. notices'[k][2] = t /\ notices'[k][1] = NextXid
        BY <4>1
      <4> QED
        BY <1>4, <3>1, <4>1, <4>2 DEF OnItsWay
  <2> QED
    BY <1>4, <1>9, <2>1, <2>2, <2>3
<1> QED
  BY <1>8, <1>10, <1>11, <1>12 DEF FeedInv

(* A table that is created anew is out of the observer's sight. *)
LEMMA RecreateKeeps ==
  ASSUME FeedInv, NEW t \in Recreated, Recreate(t)
  PROVE  FeedInv'
<1>0. FeedTypeOK /\ Watched /\ NoticesInOrder /\ NothingLost
  BY DEF FeedInv
<1>1. /\ Len(log) \in Nat /\ NextXid \in Nat /\ Len(log) < MaxCommits
      /\ log' = Append(log, Entry({}, {t})) /\ triggers' = triggers \ {t} /\ state = "open" /\ t \in Tables
      /\ UNCHANGED <<state, notices, counter, input, stamp>>
  BY <1>0, FeedAssumption DEF Recreate, FeedTypeOK, NextXid
<1>2. /\ Len(log') = Len(log) + 1 /\ log'[Len(log) + 1] = Entry({}, {t})
      /\ \A n \in 1 .. Len(log) : log'[n] = log[n]
      /\ DOMAIN log = 1 .. Len(log)
  BY <1>0, <1>1 DEF FeedTypeOK
<1>3. FeedTypeOK'
  <2>1. log' \in Seq(EntryType) /\ Len(log') <= MaxCommits
    <3>1. Entry({}, {t}) \in EntryType
      BY <1>0, <1>1, EntryTyped
    <3>2. log \in Seq(EntryType)
      BY <1>0 DEF FeedTypeOK
    <3>3. log' \in Seq(EntryType)
      BY <1>1, <3>1, <3>2
    <3> QED
      BY <1>1, <1>2, <3>3, FeedAssumption
  <2> QED
    BY <1>0, <1>1, <2>1 DEF FeedTypeOK
<1>4. DOMAIN log' = 1 .. Len(log) + 1
  BY <1>2, <1>3 DEF FeedTypeOK
<1>5. Watched'
  <2>1. SUFFICES ASSUME NEW s \in Tables, s \notin triggers' PROVE \E m \in DOMAIN log' : s \in log'[m].recreated
    BY DEF Watched
  <2>2. CASE s = t
    BY <1>1, <1>2, <1>4, <2>2 DEF Entry
  <2>3. CASE s # t
    <3>1. PICK m \in DOMAIN log : s \in log[m].recreated
      BY <1>0, <1>1, <2>1, <2>3 DEF Watched
    <3> QED
      BY <1>1, <1>2, <1>4, <3>1
  <2> QED
    BY <2>2, <2>3
<1>6. NoticesInOrder'
  <2>1. NextXid' = NextXid + 1
    BY <1>1, <1>2, FeedAssumption DEF NextXid
  <2> QED
    BY <1>0, <1>1, <2>1 DEF NoticesInOrder, FeedTypeOK
<1>7. NothingLost'
  <2>1. SUFFICES ASSUME NEW n \in DOMAIN log', NEW s \in Tables, Counts(n, s)'
                 PROVE  OnItsWay(s, log'[n].before)
    BY <1>1 DEF NothingLost, OnItsWay
  <2>2. n # Len(log) + 1
    BY <1>2, <2>1 DEF Counts, Entry
  <2>3. n \in 1 .. Len(log)
    BY <1>1, <1>4, <2>2
  <2>4. \A m \in 1 .. n : log'[m] = log[m]
    BY <1>1, <1>2, <2>3
  <2>5. Counts(n, s)
    BY <1>2, <2>1, <2>3, <2>4 DEF Counts
  <2> QED
    BY <1>0, <1>1, <1>2, <2>3, <2>5 DEF NothingLost
<1> QED
  BY <1>3, <1>5, <1>6, <1>7 DEF FeedInv

LEMMA TailFacts ==
  ASSUME NEW S, NEW s \in Seq(S), s # <<>>
  PROVE  /\ Len(s) \in Nat \ {0} /\ DOMAIN s = 1 .. Len(s) /\ Head(s) = s[1] /\ s[1] \in S
         /\ Tail(s) \in Seq(S) /\ Len(Tail(s)) = Len(s) - 1 /\ DOMAIN Tail(s) = 1 .. Len(s) - 1
         /\ \A i \in 1 .. Len(s) - 1 : Tail(s)[i] = s[i + 1]
OBVIOUS

(* The listener numbers a notification or drops it; none it drops comes    *)
(* before one it numbers.                                                  *)
LEMMA CallbackKeeps ==
  ASSUME FeedInv, Callback
  PROVE  FeedInv'
<1>0. FeedTypeOK /\ Watched /\ NoticesInOrder /\ NothingLost
  BY DEF FeedInv
<1>1. /\ notices \in Seq(Nat \X Tables) /\ notices # <<>> /\ notices' = Tail(notices)
      /\ counter \in Nat /\ UNCHANGED <<state, triggers, log, stamp>>
      /\ input \in Seq((0 .. XidLimit - 1) \X Tables \X (1 .. counter))
  BY <1>0 DEF Callback, FeedTypeOK
<1>2. /\ Len(notices) \in Nat \ {0} /\ DOMAIN notices = 1 .. Len(notices) /\ Head(notices) = notices[1]
      /\ notices[1] \in Nat \X Tables
      /\ notices' \in Seq(Nat \X Tables) /\ DOMAIN notices' = 1 .. Len(notices) - 1
      /\ \A i \in 1 .. Len(notices) - 1 : notices'[i] = notices[i + 1]
  BY <1>1, TailFacts
<1> DEFINE x == notices[1][1]
           t1 == notices[1][2]
<1>3. x \in Nat /\ t1 \in Tables
  BY <1>2
<1>4. NoticesInOrder'
  <2>1. \A i \in 1 .. Len(notices) - 1 : i + 1 \in DOMAIN notices /\ \A j \in 1 .. i : j + 1 \in 1 .. i + 1 /\ j \in 1 .. Len(notices) - 1
    BY <1>2
  <2> QED
    <3>1. \A i \in DOMAIN notices' : notices'[i][1] < NextXid
      BY <1>0, <1>2, <2>1 DEF NoticesInOrder
    <3>2. ASSUME NEW i \in DOMAIN notices', NEW j \in 1 .. i
          PROVE  notices'[j][1] <= notices'[i][1]
      <4>1. i \in 1 .. Len(notices) - 1
        BY <1>2
      <4>2. i + 1 \in DOMAIN notices /\ j + 1 \in 1 .. i + 1 /\ j \in 1 .. Len(notices) - 1
        BY <2>1, <4>1
      <4>3. notices[j + 1][1] <= notices[i + 1][1]
        BY <1>0, <4>2 DEF NoticesInOrder
      <4>4. notices'[i] = notices[i + 1] /\ notices'[j] = notices[j + 1]
        BY <1>2, <4>1, <4>2
      <4> QED
        BY <4>3, <4>4
    <3> QED
      BY <1>1, <3>1, <3>2 DEF NoticesInOrder, NextXid
<1>5. Watched'
  BY <1>0, <1>1 DEF Watched
<1>6. CASE x < XidLimit
  <2>1. counter' = counter + 1 /\ input' = Append(input, <<x, t1, counter + 1>>)
    BY <1>2, <1>6 DEF Callback
  <2>2. /\ Len(input) \in Nat /\ DOMAIN input = 1 .. Len(input) /\ DOMAIN input' = 1 .. Len(input) + 1
        /\ \A i \in 1 .. Len(input) : input'[i] = input[i]
        /\ input'[Len(input) + 1] = <<x, t1, counter + 1>>
    BY <1>1, <2>1
  <2>3. FeedTypeOK'
    <3>1. input' \in Seq((0 .. XidLimit - 1) \X Tables \X (1 .. counter'))
      <4> DEFINE Old == (0 .. XidLimit - 1) \X Tables \X (1 .. counter)
                 New == (0 .. XidLimit - 1) \X Tables \X (1 .. counter')
      <4>1. Old \subseteq New /\ <<x, t1, counter + 1>> \in New
        BY <1>1, <1>3, <1>6, <2>1, FeedAssumption
      <4>2. input \in Seq(Old)
        BY <1>1
      <4> HIDE DEF Old, New
      <4>3. input \in Seq(New)
        BY <4>1, <4>2
      <4>4. input' \in Seq(New)
        BY <2>1, <4>1, <4>3
      <4> QED
        BY <4>4 DEF New
    <3>2. stamp' \in [Tables -> 0 .. counter']
      BY <1>0, <1>1, <2>1 DEF FeedTypeOK
    <3>3. counter' \in Nat
      BY <1>1, <2>1
    <3> QED
      BY <1>0, <1>1, <1>2, <3>1, <3>2, <3>3 DEF FeedTypeOK
  <2>4. NothingLost'
    <3>1. SUFFICES ASSUME state # "stopped", NEW n \in DOMAIN log, NEW t \in Tables, Counts(n, t)
                   PROVE  OnItsWay(t, log[n].before)'
      BY <1>1 DEF NothingLost, Counts
    <3>2. OnItsWay(t, log[n].before) /\ log[n].before \in Nat
      BY <1>0, <3>1, LogTyped DEF NothingLost
    <3>3. CASE stamp[t] > log[n].before
      BY <1>1, <3>3 DEF OnItsWay
    <3>4. CASE \E i \in DOMAIN input : input[i][2] = t /\ input[i][3] > log[n].before
      BY <1>1, <2>2, <3>4 DEF OnItsWay
    <3>5. ASSUME NEW i \in DOMAIN notices, notices[i][2] = t, notices[i][1] < XidLimit, counter + i > log[n].before
          PROVE  OnItsWay(t, log[n].before)'
      <4>1. CASE i = 1
        <5>1. Len(input) + 1 \in DOMAIN input' /\ input'[Len(input) + 1][2] = t /\ input'[Len(input) + 1][3] > log[n].before
          BY <2>2, <3>5, <4>1
        <5> QED
          BY <1>1, <5>1 DEF OnItsWay
      <4>2. CASE i # 1
        <5>1. i - 1 \in DOMAIN notices' /\ notices'[i - 1] = notices[i] /\ counter' + (i - 1) > log[n].before
          <6>1. i \in Nat /\ i - 1 \in 1 .. Len(notices) - 1 /\ (i - 1) + 1 = i
            BY <1>2, <3>5, <4>2
          <6>2. counter' + (i - 1) = counter + i
            BY <1>1, <2>1, <6>1
          <6>3. notices'[i - 1] = notices[(i - 1) + 1]
            BY <1>2, <6>1
          <6> QED
            BY <1>2, <3>5, <6>1, <6>2, <6>3
        <5> QED
          BY <1>1, <3>5, <5>1 DEF OnItsWay
      <4> QED
        BY <4>1, <4>2
    <3> QED
      BY <3>2, <3>3, <3>4, <3>5 DEF OnItsWay
  <2> QED
    BY <1>4, <1>5, <2>3, <2>4 DEF FeedInv
<1>7. CASE ~(x < XidLimit)
  <2>1. UNCHANGED <<counter, input>>
    BY <1>2, <1>7 DEF Callback
  <2>2. FeedTypeOK'
    BY <1>0, <1>1, <1>2, <2>1 DEF FeedTypeOK
  <2>3. \A i \in DOMAIN notices : ~(notices[i][1] < XidLimit)
    <3>1. \A i \in DOMAIN notices : x <= notices[i][1] /\ notices[i][1] \in Nat
      BY <1>0, <1>1, <1>2 DEF NoticesInOrder
    <3> QED
      BY <1>3, <1>7, <3>1, FeedAssumption
  <2>4. NothingLost'
    BY <1>0, <1>1, <2>1, <2>3 DEF NothingLost, Counts, OnItsWay
  <2> QED
    BY <1>4, <1>5, <2>2, <2>4 DEF FeedInv
<1> QED
  BY <1>6, <1>7

(* The index keeps the higher of two positions. *)
LEMMA AdvanceKeeps ==
  ASSUME FeedInv, Advance
  PROVE  FeedInv'
<1>0. FeedTypeOK /\ Watched /\ NoticesInOrder /\ NothingLost
  BY DEF FeedInv
<1> DEFINE In == (0 .. XidLimit - 1) \X Tables \X (1 .. counter)
<1>1. /\ input \in Seq(In) /\ input # <<>> /\ input' = Tail(input)
      /\ counter \in Nat /\ UNCHANGED <<state, triggers, log, notices, counter>>
      /\ stamp \in [Tables -> 0 .. counter]
      /\ stamp' = [stamp EXCEPT ![Head(input)[2]] = IF Head(input)[3] > @ THEN Head(input)[3] ELSE @]
  BY <1>0 DEF Advance, FeedTypeOK
<1>2. /\ Len(input) \in Nat \ {0} /\ DOMAIN input = 1 .. Len(input) /\ Head(input) = input[1]
      /\ input[1] \in In
      /\ input' \in Seq(In) /\ DOMAIN input' = 1 .. Len(input) - 1
      /\ \A i \in 1 .. Len(input) - 1 : input'[i] = input[i + 1]
  <2> HIDE DEF In
  <2> QED
    BY <1>1, TailFacts
<1>3. input[1][2] \in Tables /\ input[1][3] \in 1 .. counter
  BY <1>2
<1>4. stamp' \in [Tables -> 0 .. counter]
      /\ \A t \in Tables : stamp'[t] >= stamp[t] /\ (t = input[1][2] => stamp'[t] >= input[1][3])
  BY <1>1, <1>2, <1>3
<1>5. FeedTypeOK'
  BY <1>0, <1>1, <1>2, <1>4 DEF FeedTypeOK
<1>6. Watched' /\ NoticesInOrder'
  BY <1>0, <1>1 DEF Watched, NoticesInOrder, NextXid
<1>7. NothingLost'
  <2>1. SUFFICES ASSUME state # "stopped", NEW n \in DOMAIN log, NEW t \in Tables, Counts(n, t)
                 PROVE  OnItsWay(t, log[n].before)'
    BY <1>1 DEF NothingLost, Counts
  <2>2. OnItsWay(t, log[n].before) /\ log[n].before \in Nat /\ stamp[t] \in Nat /\ stamp'[t] \in Nat
    BY <1>0, <1>1, <1>4, <2>1, LogTyped DEF NothingLost
  <2>3. CASE stamp[t] > log[n].before
    BY <1>1, <1>4, <2>2, <2>3 DEF OnItsWay
  <2>4. ASSUME NEW i \in DOMAIN input, input[i][2] = t, input[i][3] > log[n].before
        PROVE  OnItsWay(t, log[n].before)'
    <3>1. CASE i = 1
      <4>1. stamp'[t] > log[n].before
        BY <1>1, <1>3, <1>4, <2>2, <2>4, <3>1
      <4> QED
        BY <1>1, <4>1 DEF OnItsWay
    <3>2. CASE i # 1
      <4>1. i - 1 \in DOMAIN input' /\ input'[i - 1] = input[i]
        BY <1>2, <2>4, <3>2
      <4> QED
        BY <1>1, <2>4, <4>1 DEF OnItsWay
    <3> QED
      BY <3>1, <3>2
  <2>5. CASE \E i \in DOMAIN notices : notices[i][2] = t /\ notices[i][1] < XidLimit /\ counter + i > log[n].before
    BY <1>1, <2>5 DEF OnItsWay
  <2> QED
    BY <2>2, <2>3, <2>4, <2>5 DEF OnItsWay
<1> QED
  BY <1>5, <1>6, <1>7 DEF FeedInv

LEMMA FeedStep == FeedInv /\ [FeedNext]_feedVars => FeedInv'
<1> SUFFICES ASSUME FeedInv, [FeedNext]_feedVars PROVE FeedInv'
  OBVIOUS
<1>1. CASE UNCHANGED feedVars
  BY <1>1 DEF feedVars, FeedInv, FeedTypeOK, Watched, NoticesInOrder, NothingLost, Counts, OnItsWay, NextXid
<1> QED
  BY <1>1, StartingKeeps, StoppingKeeps, WriteKeeps, RecreateKeeps, CallbackKeeps, AdvanceKeeps DEF FeedNext

LEMMA FeedInvHolds == FeedSpec => []FeedInv
BY FeedInitHolds, FeedStep, PTL DEF FeedSpec

(* Every variable of the feed keeps its range. *)
THEOREM FeedTypeCorrect == FeedSpec => []FeedTypeOK
<1>1. FeedInv => FeedTypeOK
  BY DEF FeedInv
<1> QED
  BY <1>1, FeedInvHolds, PTL

(* For any tables, queries and commits: with nothing on the way, a write   *)
(* the observer could see has moved the version of every query that names  *)
(* its table past all positions given before.                              *)
THEOREM WatchedWritesMove == FeedSpec => []WatchedWriteMoves
<1>1. FeedInv => WatchedWriteMoves
  <2>1. SUFFICES ASSUME FeedInv, state # "stopped", notices = <<>>, input = <<>>,
                        NEW n \in DOMAIN log, NEW q \in Queries, Observable(q, n)
                 PROVE  Moved(q, n)
    BY DEF WatchedWriteMoves
  <2>2. PICK t \in log[n].named \cap q : \A m \in 1 .. n : t \notin log[m].recreated
    BY <2>1 DEF Observable
  <2>3. t \in Tables
    BY <2>1, <2>2, FeedAssumption
  <2>4. Counts(n, t)
    BY <2>1, <2>2 DEF Observable, Counts
  <2>5. OnItsWay(t, log[n].before)
    BY <2>1, <2>3, <2>4 DEF FeedInv, NothingLost
  <2>6. stamp[t] > log[n].before
    BY <2>1, <2>5 DEF OnItsWay
  <2> QED
    BY <2>1, <2>2, <2>6 DEF Moved
<1> QED
  BY <1>1, FeedInvHolds, PTL

==============================================================================
