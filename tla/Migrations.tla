----------------------------- MODULE Migrations -----------------------------
(***************************************************************************)
(* schema/mod.rs: the migrations of an embedded primary.  Files are        *)
(* discovered on disk, then applied in the order of their ordinals, each   *)
(* in a transaction that also writes its row of the ledger                 *)
(* pgpaw_applied_migrations.  Several calls of apply_migrations may run at *)
(* once over one pool, each with the files it found, and the process may   *)
(* die between any two steps.  Every open hands the ledgers of an older    *)
(* program over first.                                                     *)
(*                                                                         *)
(* A content is told apart by its checksum; the table a migration creates  *)
(* is named after the migration.                                           *)
(***************************************************************************)
EXTENDS Naturals, Sequences, Functions

CONSTANTS
    Dirs,            \* the apps with a migrations directory, in listing order
    Names,           \* file names ending in .sql
    Ordinal,         \* the ordinal a name starts with, for those that have one
    Sums,            \* contents
    Unacknowledged,  \* destructive contents without the acknowledging comment
    Appliers,        \* calls of apply_migrations
    Origins,         \* the files and ledgers there may be at first
    Changes,         \* what an app's files may become
    NoTable,
    MaxEdits         \* bound: changes on disk

ASSUME OrdinalAssumption == Ordinal \in [DOMAIN Ordinal -> Nat]

ASSUME DirsAssumption == Dirs \in Seq(Range(Dirs)) /\ Len(Dirs) > 0

Apps == Range(Dirs)

Keys == Apps \X Names

(* Files with their contents, the rows of a ledger, an app's tables. *)
AreFiles(files) == files \in [DOMAIN files -> Sums] /\ DOMAIN files \subseteq Names

AreRows(rows) == rows \in [DOMAIN rows -> Sums] /\ DOMAIN rows \subseteq Keys

AreSchemas(rows) == rows \in [DOMAIN rows -> SUBSET Keys] /\ DOMAIN rows \subseteq Apps

ASSUME OriginsAssumption ==
    \A o \in Origins :
        /\ DOMAIN o.disk = Apps /\ \A a \in Apps : AreFiles(o.disk[a])
        /\ AreRows(o.ledger) /\ (o.legacy # NoTable => AreRows(o.legacy))
        /\ AreSchemas(o.schemas) /\ (o.legacySchemas # NoTable => AreSchemas(o.legacySchemas))

ASSUME ChangesAssumption == \A c \in Changes : c.app \in Apps /\ AreFiles(c.files)

VARIABLES
    disk,           \* app -> file name -> content
    ledger,         \* pgpaw_applied_migrations: key -> checksum
    schemas,        \* pgpaw_app_schemas: app -> tables
    legacy,         \* applied_app_migrations, NoTable once handed over
    legacySchemas,  \* app_schemas
    ran,            \* history: the contents executed for each key
    task,           \* the state of each call
    edits

ledgers == <<ledger, schemas, legacy, legacySchemas, ran>>
migrationVars == <<disk, ledgers, task, edits>>

Idle == [pc |-> "idle", plan |-> <<>>, dir |-> 0, done |-> {}, tables |-> {}]

Working == {"chain", "file", "exec", "insert", "commit", "record"}

(* A row of new never replaces a row of old: ON CONFLICT DO NOTHING. *)
Merge(old, new) ==
    [k \in DOMAIN old \cup DOMAIN new |-> IF k \in DOMAIN old THEN old[k] ELSE new[k]]

-----------------------------------------------------------------------------
(* An app's files change: written, edited, renamed, deleted. *)
Edit ==
    /\ edits < MaxEdits
    /\ edits' = edits + 1
    /\ \E c \in Changes : disk' = [disk EXCEPT ![c.app] = c.files]
    /\ UNCHANGED <<ledgers, task>>

(* discover_migrations refuses a name without an ordinal and two names *)
(* with the same one.                                                   *)
WellNumbered(files) ==
    /\ DOMAIN files \subseteq DOMAIN Ordinal
    /\ \A m, n \in DOMAIN files : Ordinal[m] = Ordinal[n] => m = n

discover_migrations(t) ==
    /\ task[t].pc = "idle"
    /\ \A a \in Apps : WellNumbered(disk[a])
    /\ task' = [task EXCEPT ![t].pc = "planned", ![t].plan = disk]
    /\ UNCHANGED <<disk, ledgers, edits>>

-----------------------------------------------------------------------------
(* handoff_legacy_ledgers: one transaction over both legacy tables. *)

Disagree(old, new) == \E k \in DOMAIN old \cap DOMAIN new : old[k] # new[k]

Conflict ==
    \/ legacy # NoTable /\ Disagree(ledger, legacy)
    \/ legacySchemas # NoTable /\ Disagree(schemas, legacySchemas)

HandedOver == legacy = NoTable /\ legacySchemas = NoTable

(* The definitions named ...Fault are deliberate faults; the model does    *)
(* not use them.  Each stands for a slip in the definition that follows it *)
(* and is put in its place to see that a property notices.                 *)

(* Fault: no conflict check, and the legacy row wins. *)
HandOverFault ==
    /\ ledger' = IF legacy = NoTable THEN ledger ELSE Merge(legacy, ledger)
    /\ schemas' = IF legacySchemas = NoTable THEN schemas ELSE Merge(legacySchemas, schemas)
    /\ legacy' = NoTable /\ legacySchemas' = NoTable
    /\ UNCHANGED <<disk, ran, task, edits>>

HandOver ==
    /\ ~Conflict
    /\ ledger' = IF legacy = NoTable THEN ledger ELSE Merge(ledger, legacy)
    /\ schemas' = IF legacySchemas = NoTable THEN schemas ELSE Merge(schemas, legacySchemas)
    /\ legacy' = NoTable /\ legacySchemas' = NoTable
    /\ UNCHANGED <<disk, ran, task, edits>>

-----------------------------------------------------------------------------
(* apply_migrations *)

App(t) == Dirs[task[t].dir]

Files(t) == task[t].plan[App(t)]

Todo(t) == DOMAIN Files(t) \ task[t].done

(* Fault: the files are taken from the end. *)
CurrentFault(t) == CHOOSE n \in Todo(t) : \A m \in Todo(t) : Ordinal[n] >= Ordinal[m]

(* Files are sorted by ordinal. *)
Current(t) == CHOOSE n \in Todo(t) : \A m \in Todo(t) : Ordinal[n] <= Ordinal[m]

Key(t) == <<App(t), Current(t)>>

Checksum(t) == Files(t)[Current(t)]

Goto(t, label) == task' = [task EXCEPT ![t].pc = label]

At(t, label) == task[t].pc = label

(* The call returns an error; an open transaction is rolled back. *)
Refuse(t) == task' = [task EXCEPT ![t] = Idle]

(* Any database call may fail. *)
Fail(t) ==
    /\ task[t].pc \in Working
    /\ Refuse(t)
    /\ UNCHANGED <<disk, ledgers, edits>>

Start(t) ==
    /\ At(t, "planned")
    /\ task' = [task EXCEPT ![t].pc = "chain", ![t].dir = 1]
    /\ UNCHANGED <<disk, ledgers, edits>>

(* Every row of the app's ledger has its file, or the call is refused. *)
CheckLedger(t) ==
    /\ At(t, "chain")
    /\ IF \A n \in Names : <<App(t), n>> \in DOMAIN ledger => n \in DOMAIN Files(t)
       THEN Goto(t, "file") ELSE Refuse(t)
    /\ UNCHANGED <<disk, ledgers, edits>>

(* Fault: the recorded checksum is not compared. *)
RecordedFault(t) ==
    /\ At(t, "file") /\ Todo(t) # {} /\ Key(t) \in DOMAIN ledger
    /\ task' = [task EXCEPT ![t].done = @ \cup {Current(t)}]
    /\ UNCHANGED <<disk, ledgers, edits>>

(* The file is recorded: the same content is skipped, another refused. *)
Recorded(t) ==
    /\ At(t, "file") /\ Todo(t) # {} /\ Key(t) \in DOMAIN ledger
    /\ IF ledger[Key(t)] = Checksum(t)
       THEN task' = [task EXCEPT ![t].done = @ \cup {Current(t)}]
       ELSE Refuse(t)
    /\ UNCHANGED <<disk, ledgers, edits>>

(* It is not: unless destructive and unacknowledged, a transaction begins. *)
Begin(t) ==
    /\ At(t, "file") /\ Todo(t) # {} /\ Key(t) \notin DOMAIN ledger
    /\ IF Checksum(t) \in Unacknowledged THEN Refuse(t) ELSE Goto(t, "exec")
    /\ UNCHANGED <<disk, ledgers, edits>>

(* The statements run, seen by this transaction only. *)
Exec(t) ==
    /\ At(t, "exec")
    /\ Goto(t, "insert")
    /\ UNCHANGED <<disk, ledgers, edits>>

(* Fault: the row is written without the primary key. *)
InsertFault(t) ==
    /\ At(t, "insert")
    /\ Goto(t, "commit")
    /\ UNCHANGED <<disk, ledgers, edits>>

(* The ledger row: it waits for another transaction's row of the same key  *)
(* and fails if that one committed.                                        *)
Insert(t) ==
    /\ At(t, "insert")
    /\ ~ \E u \in Appliers : At(u, "commit") /\ Key(u) = Key(t)
    /\ IF Key(t) \in DOMAIN ledger THEN Refuse(t) ELSE Goto(t, "commit")
    /\ UNCHANGED <<disk, ledgers, edits>>

Committed(t) ==
    /\ ledger' = Merge([k \in {Key(t)} |-> Checksum(t)], ledger)
    /\ ran' = [ran EXCEPT ![Key(t)] = Append(@, Checksum(t))]

Commit(t) ==
    /\ At(t, "commit")
    /\ Committed(t)
    /\ task' = [task EXCEPT ![t].pc = "file", ![t].done = @ \cup {Current(t)}]
    /\ UNCHANGED <<disk, schemas, legacy, legacySchemas, edits>>

(* The commit takes effect and its answer is lost. *)
CommitUnknown(t) ==
    /\ At(t, "commit")
    /\ Committed(t)
    /\ Refuse(t)
    /\ UNCHANGED <<disk, schemas, legacy, legacySchemas, edits>>

(* The chain is through: reflected_table_names, over all of the schema. *)
Reflect(t) ==
    /\ At(t, "file") /\ Todo(t) = {}
    /\ task' = [task EXCEPT ![t].pc = "record", ![t].tables = {k \in Keys : ran[k] # <<>>}]
    /\ UNCHANGED <<disk, ledgers, edits>>

(* Fault: one chain too many. *)
RecordFault(t) ==
    /\ At(t, "record")
    /\ schemas' = Merge([a \in {App(t)} |-> task[t].tables], schemas)
    /\ task' = [task EXCEPT ![t].pc = IF task[t].dir <= Len(Dirs) THEN "chain" ELSE "done",
                            ![t].dir = @ + 1,
                            ![t].done = {}, ![t].tables = {}]
    /\ UNCHANGED <<disk, ledger, legacy, legacySchemas, ran, edits>>

(* The app's row of pgpaw_app_schemas, then the next chain. *)
Record(t) ==
    /\ At(t, "record")
    /\ schemas' = Merge([a \in {App(t)} |-> task[t].tables], schemas)
    /\ task' = [task EXCEPT ![t].pc = IF task[t].dir < Len(Dirs) THEN "chain" ELSE "done",
                            ![t].dir = IF @ < Len(Dirs) THEN @ + 1 ELSE @,
                            ![t].done = {}, ![t].tables = {}]
    /\ UNCHANGED <<disk, ledger, legacy, legacySchemas, ran, edits>>

(* The report is returned; the caller may call again. *)
Return(t) ==
    /\ At(t, "done")
    /\ task' = [task EXCEPT ![t] = Idle]
    /\ UNCHANGED <<disk, ledgers, edits>>

(* The process ends, or its database is closed: calls under way are lost. *)
Lose(gone) ==
    /\ task' = [t \in Appliers |-> IF t \in gone THEN Idle ELSE task[t]]
    /\ UNCHANGED <<disk, ledgers, edits>>

Apply(t) ==
    \/ Start(t) \/ CheckLedger(t) \/ Recorded(t) \/ Begin(t) \/ Exec(t) \/ Insert(t)
    \/ Commit(t) \/ CommitUnknown(t) \/ Reflect(t) \/ Record(t) \/ Return(t) \/ Fail(t)

MigrationInit ==
    /\ \E o \in Origins :
          /\ disk = o.disk
          /\ ledger = o.ledger /\ legacy = o.legacy
          /\ schemas = o.schemas /\ legacySchemas = o.legacySchemas
          /\ ran = [k \in Keys |->
                      IF k \in DOMAIN o.ledger THEN <<o.ledger[k]>>
                      ELSE IF o.legacy # NoTable /\ k \in DOMAIN o.legacy THEN <<o.legacy[k]>>
                      ELSE <<>>]
    /\ task = [t \in Appliers |-> Idle]
    /\ edits = 0

(* The calls are made on a node that has opened, so after a handoff. *)
MigrationNext ==
    \/ Edit \/ HandOver
    \/ \E t \in Appliers : discover_migrations(t) \/ (HandedOver /\ Apply(t))
    \/ \E gone \in SUBSET Appliers : Lose(gone)

MigrationSpec == MigrationInit /\ [][MigrationNext]_migrationVars

-----------------------------------------------------------------------------
MigrationTypeOK ==
    /\ \A a \in Apps : AreFiles(disk[a])
    /\ AreRows(ledger) /\ AreSchemas(schemas)
    /\ \A t \in Appliers :
          /\ task[t].pc \in Working \cup {"idle", "planned", "done"}
          /\ task[t].pc \in Working => task[t].dir \in DOMAIN Dirs /\ task[t].done \subseteq DOMAIN Files(t)

(* "applied statements never re-execute" (the message of the missing-file  *)
(* check): the statements of a migration take effect at most once, however *)
(* calls overlap, fail, lose a commit's answer or die, and the ledgers     *)
(* together record exactly the ones that did, with the content that ran    *)
(* ("migrations are immutable once applied"), across every handoff.        *)
AppliedOnce ==
    \A k \in Keys :
        /\ Len(ran[k]) <= 1
        /\ k \in DOMAIN ledger => ran[k] = <<ledger[k]>>
        /\ ran[k] # <<>> => k \in DOMAIN ledger \/ (legacy # NoTable /\ k \in DOMAIN legacy)

(* A file's statements run only when every file of its chain with a lower  *)
(* ordinal has been committed.                                             *)
InOrder ==
    \A t \in Appliers : task[t].pc \in {"exec", "insert", "commit"} =>
        \A n \in DOMAIN Files(t) :
            Ordinal[n] < Ordinal[Current(t)] => <<App(t), n>> \in DOMAIN ledger

(* A call that reports success found or made a row of the ledger for every *)
(* file it had discovered, with that file's content.                       *)
ReportsTrue ==
    \A t \in Appliers : task[t].pc = "done" =>
        \A a \in Apps : \A n \in DOMAIN task[t].plan[a] :
            <<a, n>> \in DOMAIN ledger /\ ledger[<<a, n>>] = task[t].plan[a][n]
=============================================================================
