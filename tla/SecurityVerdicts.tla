-------------------------- MODULE SecurityVerdicts --------------------------
(***************************************************************************)
(* ReadOperations::is_private (capability/read.rs): whether a query is     *)
(* access-controlled, decided per table from the local catalog and cached  *)
(* under the replica's security version.  Reading the version, looking     *)
(* into the cache, reading the catalog and storing the verdicts are        *)
(* separate steps of concurrent requests, while the catalog changes.       *)
(*                                                                         *)
(* catalog[n + 1] is the catalog after change n, and n is what             *)
(* Replica::security_version answers then.                                 *)
(***************************************************************************)
EXTENDS Naturals, Sequences

CONSTANTS
    Tables,
    Requests,
    MaxChanges  \* bound: catalog changes

(* Of a table: readable by everyone, access-controlled (also a name found  *)
(* in two schemas), or not in the catalog.                                 *)
Kinds == {"public", "private", "missing"}

VARIABLES
    catalog,
    cached,    \* the version the cache is for
    verdicts,  \* its map, "missing" where it has no entry
    req

vars == <<catalog, cached, verdicts, req>>

Version == Len(catalog) - 1

Step(pc, tables, since, v, found) ==
    [pc |-> pc, tables |-> tables, since |-> since, v |-> v, found |-> found]

NoVerdicts == [t \in Tables |-> "missing"]

Goto(r, pc, v, found) ==
    req' = [req EXCEPT ![r] = Step(pc, req[r].tables, req[r].since, v, found)]

(* A grant, a revoke or a policy reaches the replica, or a table goes. *)
Alter(t, kind) ==
    /\ Version < MaxChanges
    /\ catalog[Len(catalog)][t] # kind
    /\ catalog' = Append(catalog, [catalog[Len(catalog)] EXCEPT ![t] = kind])
    /\ UNCHANGED <<cached, verdicts, req>>

-----------------------------------------------------------------------------
Start(r, tables) ==
    /\ req[r].pc \in {"idle", "done"}
    /\ req' = [req EXCEPT ![r] = Step("version", tables, Version, 0, NoVerdicts)]
    /\ UNCHANGED <<catalog, cached, verdicts>>

(* The definitions named ...Fault are deliberate faults; the model does    *)
(* not use them.  Each stands for a slip in the definition that follows it *)
(* and is put in its place to see that a property notices.                 *)

ReadVersion(r) ==
    /\ req[r].pc = "version"
    /\ Goto(r, "lookup", Version, NoVerdicts)
    /\ UNCHANGED <<catalog, cached, verdicts>>

(* Fault: the version the cache is for is not compared. *)
HitFault(r) == \A t \in req[r].tables : verdicts[t] # "missing"

(* The cache answers only for its version and when it has every table. *)
Hit(r) ==
    /\ cached = req[r].v
    /\ \A t \in req[r].tables : verdicts[t] # "missing"

(* The answer, in found, is what merge_verdicts looks at. *)
Lookup(r) ==
    /\ req[r].pc = "lookup"
    /\ IF Hit(r) THEN Goto(r, "done", req[r].v, verdicts)
                 ELSE Goto(r, "classify", req[r].v, NoVerdicts)
    /\ UNCHANGED <<catalog, cached, verdicts>>

(* classify_security: the catalog of now, for the query's tables. *)
Classify(r) ==
    /\ req[r].pc = "classify"
    /\ Goto(r, "store", req[r].v,
            [t \in Tables |-> IF t \in req[r].tables THEN catalog[Len(catalog)][t] ELSE "missing"])
    /\ UNCHANGED <<catalog, cached, verdicts>>

(* A query to the catalog fails: the request ends in an error. *)
Fail(r) ==
    /\ req[r].pc \in {"version", "classify"}
    /\ Goto(r, "idle", 0, NoVerdicts)
    /\ UNCHANGED <<catalog, cached, verdicts>>

(* Fault: a reader with another version leaves the old entries in. *)
StoreFault(r) ==
    /\ req[r].pc = "store"
    /\ cached' = req[r].v
    /\ verdicts' = [t \in Tables |->
                      IF req[r].found[t] # "missing" THEN req[r].found[t] ELSE verdicts[t]]
    /\ Goto(r, "done", req[r].v, req[r].found)
    /\ UNCHANGED catalog

(* Under the lock: another version empties the cache, the verdicts found   *)
(* go in, and the request is answered from them.                           *)
Store(r) ==
    /\ req[r].pc = "store"
    /\ cached' = req[r].v
    /\ verdicts' = [t \in Tables |->
                      IF req[r].found[t] # "missing" THEN req[r].found[t]
                      ELSE IF cached = req[r].v THEN verdicts[t] ELSE "missing"]
    /\ Goto(r, "done", req[r].v, req[r].found)
    /\ UNCHANGED catalog

(* merge_verdicts: fail closed. *)
MergeVerdicts(tables, found) == \E t \in tables : found[t] # "public"

IsPrivate(r) == MergeVerdicts(req[r].tables, req[r].found)

-----------------------------------------------------------------------------
Init ==
    /\ \E c \in [Tables -> Kinds] : catalog = <<c>>
    /\ cached = 0 /\ verdicts = NoVerdicts
    /\ req = [r \in Requests |-> Step("idle", {}, 0, 0, NoVerdicts)]

Next ==
    \/ \E t \in Tables, kind \in Kinds : Alter(t, kind)
    \/ \E r \in Requests :
         \/ \E tables \in SUBSET Tables : Start(r, tables)
         \/ ReadVersion(r) \/ Lookup(r) \/ Classify(r) \/ Fail(r) \/ Store(r)

Spec == Init /\ [][Next]_vars

-----------------------------------------------------------------------------
Positions == 0 .. Version

(* Versions and positions never run ahead of the catalog. *)
TypeOK ==
    /\ catalog \in Seq([Tables -> Kinds]) /\ Len(catalog) >= 1
    /\ cached \in Positions
    /\ verdicts \in [Tables -> Kinds]
    /\ req \in [Requests -> [pc : {"idle", "version", "lookup", "classify", "store", "done"},
                             tables : SUBSET Tables, since : Positions, v : Positions,
                             found : [Tables -> Kinds]]]

(* t was of this kind at some moment not before change n. *)
WasSince(t, kind, n) == \E p \in Positions : p >= n /\ catalog[p + 1][t] = kind

(* .dev/changes/jwt-access-control/specs/access-control/spec.md:53, "the   *)
(* next classification ... returns access-controlled, and the stale public *)
(* verdict is discarded": a query is only found public if each of its      *)
(* tables was public at some moment after the request began, however       *)
(* readers of different versions empty and refill the one cache.           *)
PublicIsCurrent ==
    \A r \in Requests : req[r].pc = "done" /\ ~IsPrivate(r) =>
        \A t \in req[r].tables : WasSince(t, "public", req[r].since)

(* An entry is at least as new as the version it is filed under: a slow    *)
(* reader may file newer verdicts under its old version, never older ones  *)
(* under a newer version.                                                  *)
EntriesNotOlder ==
    \A t \in Tables : verdicts[t] # "missing" => WasSince(t, verdicts[t], cached)

-----------------------------------------------------------------------------
(* Why PublicIsCurrent holds: the version a request read, and what it      *)
(* found, are not older than the request.                                  *)
RequestsCurrent ==
    \A r \in Requests :
        /\ req[r].pc \in {"lookup", "classify", "store"} => req[r].since <= req[r].v
        /\ req[r].pc = "store" => \A t \in Tables :
              req[r].found[t] # "missing" => WasSince(t, req[r].found[t], req[r].v)
        /\ req[r].pc = "done" => \A t \in req[r].tables :
              req[r].found[t] # "missing" => WasSince(t, req[r].found[t], req[r].since)

IInv == TypeOK /\ EntriesNotOlder /\ RequestsCurrent

=============================================================================
