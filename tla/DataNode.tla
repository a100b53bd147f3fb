------------------------------ MODULE DataNode ------------------------------
(***************************************************************************)
(* The life of PgPaw instances that are pointed at one data directory and  *)
(* one HTTP address, as embedded primaries or as replicas:                 *)
(* PgPawBuilder::open with open_primary_db, build_primary_core and         *)
(* build_replica_core, serving, PgPaw::shutdown, and the loss of a         *)
(* process.  An engine (the postmaster, external) is named after the       *)
(* instance that started it; its lock file postmaster.pid holds that name. *)
(***************************************************************************)
EXTENDS Naturals

CONSTANTS
    Nodes,
    Replicas,    \* nodes that may be opened as replicas
    Named,       \* nodes whose database is not "postgres"
    Http,        \* nodes with an HTTP binding
    Topologies,  \* unb topologies configured per node
    NoFile,
    Free,
    MaxAttached, \* bound: topologies attached to each node once open
    MaxCrashes   \* bound: lost processes

VARIABLES
    pc,          \* where each node is in open or shutdown
    engines,     \* the nodes whose engine runs on the directory
    pidfile,     \* whose engine postmaster.pid names
    observing,   \* nodes with bridge, hub, and observer or replication
    port,        \* the node bound to the HTTP address
    unb,         \* the number of topologies running
    orphans,     \* engines that outlived their process
    crashes

nodeVars == <<pc, engines, pidfile, observing, port, unb, orphans, crashes>>

ASSUME NodesAssumption == NoFile \notin Nodes /\ Free \notin Nodes /\ Topologies \in [Nodes -> Nat]

Stage(p, label) == pc[p] = label

Enter(p, label) == pc' = [pc EXCEPT ![p] = label]

(* PGlite::close: the engine stops and takes its lock file along. *)
Close(p) ==
    /\ engines' = engines \ {p}
    /\ pidfile' = IF pidfile = p THEN NoFile ELSE pidfile

-----------------------------------------------------------------------------
(* open_primary_db *)

Open(p) ==
    /\ Stage(p, "idle")
    /\ Enter(p, "recover")
    /\ UNCHANGED <<engines, pidfile, observing, port, unb, orphans, crashes>>

(* A replica passes the upstream's preflight and leaves the lock file to   *)
(* the engine.                                                             *)
OpenReplica(p) ==
    /\ p \in Replicas /\ Stage(p, "idle")
    /\ Enter(p, "start_replica")
    /\ UNCHANGED <<engines, pidfile, observing, port, unb, orphans, crashes>>

(* The definitions named ...Fault are deliberate faults; the model does    *)
(* not use them.  Each stands for a slip in the definition that follows it *)
(* and is put in its place to see that a property notices.                 *)

(* Fault: whether the owner lives is not asked. *)
ReadLockFault(p) ==
    /\ Stage(p, "recover")
    /\ Enter(p, IF pidfile = NoFile THEN "start" ELSE "remove")
    /\ UNCHANGED <<engines, pidfile, observing, port, unb, orphans, crashes>>

(* recover_primary reads the lock file: its owner lives and the directory  *)
(* is busy, there is none, or it is left from a process that is gone.      *)
ReadLock(p) ==
    /\ Stage(p, "recover")
    /\ Enter(p, IF pidfile = NoFile THEN "start"
               ELSE IF pidfile \in engines THEN "idle" ELSE "remove")
    /\ UNCHANGED <<engines, pidfile, observing, port, unb, orphans, crashes>>

RemoveLock(p) ==
    /\ Stage(p, "remove")
    /\ pidfile' = NoFile
    /\ Enter(p, "start")
    /\ UNCHANGED <<engines, observing, port, unb, orphans, crashes>>

(* The postmaster takes the directory unless another one runs on it. *)
StartEngine(p) ==
    /\ pc[p] \in {"start", "reopen", "start_replica"}
    /\ engines = {}
    /\ engines' = {p} /\ pidfile' = p
    /\ Enter(p, CASE Stage(p, "start_replica") -> "replicate"
                  [] Stage(p, "start") /\ p \in Named -> "bootstrap"
                  [] OTHER -> "prepare")
    /\ UNCHANGED <<observing, port, unb, orphans, crashes>>

(* The file system or the postmaster refuses. *)
StartFails(p) ==
    /\ pc[p] \in {"recover", "remove", "start", "reopen", "start_replica"}
    /\ Enter(p, "idle")
    /\ UNCHANGED <<engines, pidfile, observing, port, unb, orphans, crashes>>

(* A named database is created through a first engine, which is closed. *)
EnsureDatabase(p) ==
    /\ Stage(p, "bootstrap")
    /\ Close(p)
    /\ pc' \in {[pc EXCEPT ![p] = "reopen"], [pc EXCEPT ![p] = "idle"]}
    /\ UNCHANGED <<observing, port, unb, orphans, crashes>>

-----------------------------------------------------------------------------
(* The two cores and the rest of PgPawBuilder::open *)

(* The dsn is made of the engine's connection uri. *)
PrepareDsn(p) ==
    /\ Stage(p, "prepare")
    /\ Enter(p, "assemble")
    /\ UNCHANGED <<engines, pidfile, observing, port, unb, orphans, crashes>>

(* Roles, schema scan, bridge, hub, verifier. *)
Assemble(p) ==
    /\ Stage(p, "assemble")
    /\ observing' = observing \cup {p}
    /\ Enter(p, "observe")
    /\ UNCHANGED <<engines, pidfile, port, unb, orphans, crashes>>

(* PrimaryObserver::start: LISTEN, then a trigger on every table. *)
Observe(p) ==
    /\ Stage(p, "observe")
    /\ Enter(p, "handoff")
    /\ UNCHANGED <<engines, pidfile, observing, port, unb, orphans, crashes>>

(* Replica::start, schema scan, bridge, hub, verifier. *)
Replicate(p) ==
    /\ Stage(p, "replicate")
    /\ observing' = observing \cup {p}
    /\ Enter(p, "bind")
    /\ UNCHANGED <<engines, pidfile, port, unb, orphans, crashes>>

(* One of them fails: what was started is dropped or stopped, the database *)
(* closed.                                                                 *)
AssembleFails(p) ==
    /\ pc[p] \in {"prepare", "assemble", "observe", "replicate"}
    /\ Close(p)
    /\ observing' = observing \ {p}
    /\ Enter(p, "idle")
    /\ UNCHANGED <<port, unb, orphans, crashes>>

HandoffOk(p) ==
    /\ Stage(p, "handoff")
    /\ Enter(p, "bind")
    /\ UNCHANGED <<engines, pidfile, observing, port, unb, orphans, crashes>>

(* Fault: the error is logged and the open goes on. *)
HandoffFailsFault(p) ==
    /\ Stage(p, "handoff")
    /\ Enter(p, "bind")
    /\ UNCHANGED <<engines, pidfile, observing, port, unb, orphans, crashes>>

(* From here on every failure is abort_open: a whole shutdown. *)
HandoffFails(p) ==
    /\ Stage(p, "handoff")
    /\ Enter(p, "stop_http")
    /\ UNCHANGED <<engines, pidfile, observing, port, unb, orphans, crashes>>

BindHttp(p) ==
    /\ Stage(p, "bind")
    /\ IF p \in Http THEN port = Free /\ port' = p ELSE UNCHANGED port
    /\ Enter(p, "topologies")
    /\ UNCHANGED <<engines, pidfile, observing, unb, orphans, crashes>>

StartTopology(p) ==
    /\ Stage(p, "topologies") /\ unb[p] < Topologies[p]
    /\ unb' = [unb EXCEPT ![p] = @ + 1]
    /\ UNCHANGED <<pc, engines, pidfile, observing, port, orphans, crashes>>

(* Fault: the error of a topology is returned with `?`. *)
BindingFailsFault(p) ==
    \/ /\ Stage(p, "bind") /\ p \in Http
       /\ Enter(p, "stop_http")
       /\ UNCHANGED <<engines, pidfile, observing, port, unb, orphans, crashes>>
    \/ /\ Stage(p, "topologies") /\ unb[p] < Topologies[p]
       /\ Close(p)
       /\ Enter(p, "idle")
       /\ UNCHANGED <<observing, port, unb, orphans, crashes>>

(* The address is taken or a topology does not start. *)
BindingFails(p) ==
    /\ \/ Stage(p, "bind") /\ p \in Http
       \/ Stage(p, "topologies") /\ unb[p] < Topologies[p]
    /\ Enter(p, "stop_http")
    /\ UNCHANGED <<engines, pidfile, observing, port, unb, orphans, crashes>>

Opened(p) ==
    /\ Stage(p, "topologies") /\ unb[p] = Topologies[p]
    /\ Enter(p, "open")
    /\ UNCHANGED <<engines, pidfile, observing, port, unb, orphans, crashes>>

-----------------------------------------------------------------------------
(* Serving: wait returns when a binding ends, and run_pgpaw shuts down. *)

attach_unb(p) ==
    /\ Stage(p, "open") /\ unb[p] < Topologies[p] + MaxAttached[p]
    /\ unb' = [unb EXCEPT ![p] = @ + 1]
    /\ UNCHANGED <<pc, engines, pidfile, observing, port, orphans, crashes>>

HttpEnds(p) ==
    /\ Stage(p, "open") /\ port = p
    /\ port' = Free
    /\ Enter(p, "stop_http")
    /\ UNCHANGED <<engines, pidfile, observing, unb, orphans, crashes>>

(* A signal, the end of a topology (which stays to be shut down), or the   *)
(* caller.                                                                 *)
Shutdown(p) ==
    /\ Stage(p, "open")
    /\ Enter(p, "stop_http")
    /\ UNCHANGED <<engines, pidfile, observing, port, unb, orphans, crashes>>

(* PgPaw::shutdown; errors are kept and the steps go on. *)
StopHttp(p) ==
    /\ Stage(p, "stop_http")
    /\ port' = IF port = p THEN Free ELSE port
    /\ Enter(p, "stop_unb")
    /\ UNCHANGED <<engines, pidfile, observing, unb, orphans, crashes>>

(* Fault: the observer and the database go before the topologies. *)
StopTopologyFault(p) ==
    /\ Stage(p, "stop_unb")
    /\ observing' = observing \ {p}
    /\ Enter(p, "close")
    /\ unb' = [unb EXCEPT ![p] = IF @ > 0 THEN @ - 1 ELSE @]
    /\ UNCHANGED <<engines, pidfile, port, orphans, crashes>>

StopTopology(p) ==
    /\ Stage(p, "stop_unb")
    /\ IF unb[p] > 0
       THEN unb' = [unb EXCEPT ![p] = @ - 1] /\ UNCHANGED pc
       ELSE Enter(p, "stop_source") /\ UNCHANGED unb
    /\ UNCHANGED <<engines, pidfile, observing, port, orphans, crashes>>

(* The primary's observer, or the replica and its bridge. *)
StopSource(p) ==
    /\ Stage(p, "stop_source")
    /\ observing' = observing \ {p}
    /\ Enter(p, "close")
    /\ UNCHANGED <<engines, pidfile, port, unb, orphans, crashes>>

CloseDb(p) ==
    /\ Stage(p, "close")
    /\ Close(p)
    /\ Enter(p, "idle")
    /\ UNCHANGED <<observing, port, unb, orphans, crashes>>

-----------------------------------------------------------------------------
(* The process is lost, or ends without shutdown as `pgpaw migrate` does   *)
(* when a migration is refused.  Its engine dies with it and leaves the    *)
(* lock file, or lives on for a while.                                     *)
Crash(p) ==
    /\ ~Stage(p, "idle") /\ crashes < MaxCrashes
    /\ crashes' = crashes + 1
    /\ Enter(p, "idle")
    /\ \/ engines' = engines \ ({p} \ orphans) /\ UNCHANGED orphans
       \/ p \in engines /\ orphans' = orphans \cup {p} /\ UNCHANGED engines
    /\ observing' = observing \ {p}
    /\ port' = IF port = p THEN Free ELSE port
    /\ unb' = [unb EXCEPT ![p] = 0]
    /\ UNCHANGED pidfile

OrphanExits(p) ==
    /\ p \in orphans
    /\ orphans' = orphans \ {p}
    /\ engines' = engines \ {p}
    /\ pidfile' \in {pidfile, IF pidfile = p THEN NoFile ELSE pidfile}
    /\ UNCHANGED <<pc, observing, port, unb, crashes>>

-----------------------------------------------------------------------------
NodeInit ==
    /\ pc = [p \in Nodes |-> "idle"]
    /\ engines = {} /\ pidfile = NoFile
    /\ observing = {} /\ port = Free
    /\ unb = [p \in Nodes |-> 0]
    /\ orphans = {} /\ crashes = 0

(* The steps that leave the database alone. *)
NodeStep(p) ==
    \/ Open(p) \/ OpenReplica(p) \/ ReadLock(p) \/ RemoveLock(p) \/ StartEngine(p) \/ StartFails(p)
    \/ EnsureDatabase(p) \/ PrepareDsn(p) \/ Assemble(p) \/ Observe(p) \/ Replicate(p)
    \/ AssembleFails(p)
    \/ BindHttp(p) \/ StartTopology(p) \/ BindingFails(p) \/ Opened(p)
    \/ attach_unb(p) \/ HttpEnds(p) \/ Shutdown(p) \/ StopHttp(p) \/ StopTopology(p) \/ StopSource(p)
    \/ OrphanExits(p)

-----------------------------------------------------------------------------
NodeTypeOK ==
    /\ pc \in [Nodes -> {"idle", "recover", "remove", "start", "start_replica", "bootstrap",
                        "reopen", "prepare", "assemble", "observe", "replicate", "handoff",
                        "bind", "topologies", "open",
                        "stop_http", "stop_unb", "stop_source", "close"}]
    /\ engines \subseteq Nodes /\ observing \subseteq Nodes /\ orphans \subseteq engines
    /\ pidfile \in Nodes \cup {NoFile} /\ port \in Nodes \cup {Free}
    /\ unb \in [Nodes -> Nat]

(* An open that failed at any step and a shutdown that ran through leave   *)
(* nothing behind: no engine, no observer, no address, no topology.        *)
(* (abort_open and the error arms of the two cores and open_primary_db)    *)
Released ==
    \A p \in Nodes : Stage(p, "idle") =>
        /\ p \in engines => p \in orphans
        /\ p \notin observing /\ port # p /\ unb[p] = 0

(* Bindings stop before the source and the source before the database, and *)
(* start in the opposite order: whatever still takes requests or observes  *)
(* has an engine of its own process under it.                              *)
BindingsNeedSource ==
    \A p \in Nodes :
        /\ port = p \/ unb[p] > 0 => p \in observing
        /\ p \in observing => p \in engines \ orphans

(* Until a process is lost, opening the directory again never disturbs the *)
(* instance that holds it: a running engine keeps its lock file.           *)
LockKept == crashes = 0 => \A p \in engines : pidfile = p
=============================================================================
