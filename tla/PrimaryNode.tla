---------------------------- MODULE PrimaryNode ----------------------------
(***************************************************************************)
(* Embedded primaries over one data directory (DataNode) with the          *)
(* migrations of its database (Migrations): a node hands the legacy        *)
(* ledgers over while it opens, calls of apply_migrations run on an open   *)
(* node, and closing the database or losing the process ends them.         *)
(***************************************************************************)
EXTENDS DataNode, Migrations

CONSTANT Host  \* the primary each call is made on

ASSUME HostAssumption == Host \in [Appliers -> Nodes \ Replicas]

vars == <<nodeVars, migrationVars>>

Hosted(p) == {t \in Appliers : Host[t] = p}

(* handoff_legacy_ledgers within open; a commit whose answer is lost fails *)
(* the open although the ledgers moved.                                    *)
Handoff(p) ==
    \/ HandoffOk(p) /\ HandOver
    \/ HandoffFails(p) /\ (UNCHANGED migrationVars \/ HandOver)

(* A call starts on an open node and may still run while it shuts down. *)
Call(t) ==
    /\ \/ Stage(Host[t], "open")
       \/ pc[Host[t]] \in {"stop_http", "stop_unb", "stop_source", "close"} /\ ~At(t, "planned")
    /\ Apply(t)

Init == NodeInit /\ MigrationInit

Next ==
    \/ \E p \in Nodes : NodeStep(p) /\ UNCHANGED migrationVars
    \/ \E p \in Nodes : Handoff(p)
    \/ \E p \in Nodes : (CloseDb(p) \/ Crash(p)) /\ Lose(Hosted(p))
    \/ \E t \in Appliers : (discover_migrations(t) \/ Call(t)) /\ UNCHANGED nodeVars
    \/ Edit /\ UNCHANGED nodeVars

Spec == Init /\ [][Next]_vars

(* Node and ledger states are in range. *)
TypeOK == NodeTypeOK /\ MigrationTypeOK

(* Seen from the database, nodes that come and go are the contract of      *)
(* Migrations: above all, no call works before the legacy ledgers are      *)
(* handed over, whichever node did it and whatever failed since.           *)
KeepsContract == MigrationSpec
=============================================================================
