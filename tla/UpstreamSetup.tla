--------------------------- MODULE UpstreamSetup ---------------------------
(***************************************************************************)
(* `pgpaw init` (prepare and apply of db/setup.rs) and the preflight of    *)
(* `pgpaw serve` against one upstream server.  ALTER SYSTEM writes the     *)
(* configuration file; current_setting reads what the server was started   *)
(* with; a restart makes the one the other and breaks every connection.    *)
(* Commands of several operators may overlap, and each of their statements *)
(* may fail.                                                               *)
(***************************************************************************)
EXTENDS Naturals, Sequences

CONSTANTS
    Clients,      \* operators' commands
    Levels,       \* wal_level values
    Counts,       \* values of the two limits
    MaxCommands,  \* bound: commands begun
    MaxRestarts   \* bound: restarts of the server

VARIABLES
    running,      \* the settings the server was started with
    configured,   \* the settings it will be started with
    lowered,      \* history: the settings that were found to suffice while a
                  \* value that does not was waiting for the next start
    publication,  \* the publication exists
    trigger,      \* the DDL event trigger exists
    pc,           \* where a client's command is
    at,           \* the setting it looks at next
    needsRestart, \* clients whose init has changed a setting
    needsManual,  \* clients whose init could not change one
    outcome,      \* outcome[i]: how the last command of i ended
    commands,
    restarts

setupVars == <<running, configured, lowered, publication, trigger, pc, at, needsRestart, needsManual, outcome,
               commands, restarts>>

server == <<running, configured, lowered, publication, trigger>>

(* The settings in the order in which both commands read them. *)
Params == <<"wal_level", "max_wal_senders", "max_replication_slots">>

ParamNames == {"wal_level", "max_wal_senders", "max_replication_slots"}

SettingsType == [wal_level : Levels, max_wal_senders : Counts, max_replication_slots : Counts]

ASSUME SetupAssumption ==
    /\ "logical" \in Levels /\ 10 \in Counts /\ Counts \subseteq Nat
    /\ MaxCommands \in Nat /\ MaxRestarts \in Nat

(* The definitions named ...Fault are deliberate faults; the model does    *)
(* not use them.                                                           *)

(* Fault: a zero too many. *)
TargetFault(p) == IF p = "wal_level" THEN "logical" ELSE 100

(* What init brings about, and what serve insists on. *)
Target(p) == IF p = "wal_level" THEN "logical" ELSE 10

Enough(p, v) == IF p = "wal_level" THEN v = "logical" ELSE v >= 10

(* Fault: the slots are not asked for. *)
SufficesFault(p, v) ==
    CASE p = "wal_level" -> v = "logical"
      [] p = "max_wal_senders" -> v >= 1
      [] OTHER -> TRUE

Suffices(p, v) == IF p = "wal_level" THEN v = "logical" ELSE v >= 1

(* Where a statement that fails, or a lost connection, ends the command... *)
Connected == {"apply", "publication", "create", "preflight", "find_publication"}

(* ... and where init goes on to its report all the same.                  *)
Finishing == {"trigger", "report"}

Enter(i, label) == pc' = [pc EXCEPT ![i] = label]

End(i, how) ==
    /\ Enter(i, "idle")
    /\ outcome' = [outcome EXCEPT ![i] = how]

SetupInit ==
    /\ running \in SettingsType
    /\ configured \in SettingsType
    /\ lowered = {p \in ParamNames : Suffices(p, running[p]) /\ ~Suffices(p, configured[p])}
    /\ publication \in BOOLEAN
    /\ trigger = FALSE
    /\ pc = [i \in Clients |-> "idle"]
    /\ at = [i \in Clients |-> 1]
    /\ needsRestart = {} /\ needsManual = {}
    /\ outcome = [i \in Clients |-> "none"]
    /\ commands = 0 /\ restarts = 0

-----------------------------------------------------------------------------
(* pgpaw init *)

(* The operator says yes and the server is reached; or the command ends    *)
(* before it has changed anything.                                         *)
prepare(i) ==
    /\ pc[i] = "idle" /\ commands < MaxCommands
    /\ commands' = commands + 1
    /\ \/ Enter(i, "apply") /\ outcome' = [outcome EXCEPT ![i] = "none"]
       \/ End(i, "failed")
    /\ at' = [at EXCEPT ![i] = 1]
    /\ needsRestart' = needsRestart \ {i} /\ needsManual' = needsManual \ {i}
    /\ UNCHANGED <<server, restarts>>

(* One setting: enough as it is, changed for the next start, or refused. *)
ApplySetting(i) ==
    /\ pc[i] = "apply"
    /\ LET p == Params[at[i]]
       IN  \/ Enough(p, running[p]) /\ UNCHANGED <<configured, needsRestart, needsManual>>
           \/ /\ ~Enough(p, running[p])
              /\ configured' = [configured EXCEPT ![p] = Target(p)]
              /\ needsRestart' = needsRestart \cup {i}
              /\ UNCHANGED needsManual
           \/ /\ ~Enough(p, running[p])
              /\ needsManual' = needsManual \cup {i}
              /\ UNCHANGED <<configured, needsRestart>>
    /\ at' = [at EXCEPT ![i] = @ + 1]
    /\ Enter(i, IF at[i] = Len(Params) THEN "publication" ELSE "apply")
    /\ UNCHANGED <<running, lowered, publication, trigger, outcome, commands, restarts>>

FindPublication(i) ==
    /\ pc[i] = "publication"
    /\ Enter(i, IF publication THEN "trigger" ELSE "create")
    /\ UNCHANGED <<server, at, needsRestart, needsManual, outcome, commands, restarts>>

(* Another init may have been faster, or the answer is lost after the      *)
(* publication was created; then this one ends in an error.                *)
CreatePublication(i) ==
    /\ pc[i] = "create"
    /\ \/ ~publication /\ Enter(i, "trigger") /\ UNCHANGED outcome
       \/ End(i, "failed")
    /\ publication' = TRUE
    /\ UNCHANGED <<running, configured, lowered, trigger, at, needsRestart, needsManual, commands, restarts>>

(* Fault: a setting that could not be changed is forgotten. *)
VerdictFault(i) == IF i \in needsRestart THEN "restart" ELSE "ready"

Verdict(i) ==
    IF i \in needsManual THEN "manual" ELSE IF i \in needsRestart THEN "restart" ELSE "ready"

(* The trigger is installed, or it is not, for whatever reason: the error  *)
(* is printed, and init goes on.                                           *)
InstallTrigger(i) ==
    /\ pc[i] = "trigger"
    /\ trigger' \in {trigger, TRUE}
    /\ Enter(i, "report")
    /\ UNCHANGED <<running, configured, lowered, publication, at, needsRestart, needsManual, outcome, commands, restarts>>

(* The report needs no connection. *)
Report(i) ==
    /\ pc[i] = "report"
    /\ End(i, Verdict(i))
    /\ UNCHANGED <<server, at, needsRestart, needsManual, commands, restarts>>

-----------------------------------------------------------------------------
(* pgpaw serve *)

StartServe(i) ==
    /\ pc[i] = "idle" /\ commands < MaxCommands
    /\ commands' = commands + 1
    /\ \/ Enter(i, "preflight") /\ outcome' = [outcome EXCEPT ![i] = "none"]
       \/ End(i, "failed")
    /\ at' = [at EXCEPT ![i] = 1]
    /\ UNCHANGED <<server, needsRestart, needsManual, restarts>>

preflight(i) ==
    /\ pc[i] = "preflight"
    /\ LET p == Params[at[i]]
       IN  IF Suffices(p, running[p])
           THEN Enter(i, IF at[i] = Len(Params) THEN "find_publication" ELSE "preflight") /\ UNCHANGED outcome
           ELSE End(i, "refused")
    /\ at' = [at EXCEPT ![i] = @ + 1]
    /\ UNCHANGED <<server, needsRestart, needsManual, commands, restarts>>

PreflightPublication(i) ==
    /\ pc[i] = "find_publication"
    /\ End(i, IF publication THEN "served" ELSE "refused")
    /\ UNCHANGED <<server, at, needsRestart, needsManual, commands, restarts>>

-----------------------------------------------------------------------------
(* The world around *)

(* A statement fails or the connection is lost: `?` ends the command.      *)
(* Installing the trigger is the one statement without `?`.                *)
Fails(i) ==
    /\ pc[i] \in Connected
    /\ End(i, "failed")
    /\ UNCHANGED <<server, at, needsRestart, needsManual, commands, restarts>>

(* Somebody applies a statement that init has printed. *)
SetManually(p) ==
    /\ needsManual # {}
    /\ configured' = [configured EXCEPT ![p] = Target(p)]
    /\ UNCHANGED <<running, lowered, publication, trigger, pc, at, needsRestart, needsManual, outcome, commands, restarts>>

(* Every connection breaks.  An init that has come to the trigger reports  *)
(* without it, of the server as it was.                                    *)
Restart ==
    /\ restarts < MaxRestarts
    /\ restarts' = restarts + 1
    /\ running' = configured
    /\ pc' = [i \in Clients |-> IF pc[i] \in Finishing THEN "report" ELSE "idle"]
    /\ outcome' = [i \in Clients |-> IF pc[i] \in Connected THEN "failed" ELSE outcome[i]]
    /\ UNCHANGED <<configured, lowered, publication, trigger, at, needsRestart, needsManual, commands>>

SetupNext ==
    \/ \E i \in Clients :
         \/ prepare(i) \/ ApplySetting(i) \/ FindPublication(i) \/ CreatePublication(i)
         \/ InstallTrigger(i) \/ Report(i) \/ StartServe(i) \/ preflight(i) \/ PreflightPublication(i) \/ Fails(i)
    \/ \E p \in ParamNames : SetManually(p)
    \/ Restart

SetupSpec == SetupInit /\ [][SetupNext]_setupVars

-----------------------------------------------------------------------------
(* Properties *)

(* Every variable is in its range. *)
SetupTypeOK ==
    /\ running \in SettingsType /\ configured \in SettingsType
    /\ lowered \subseteq ParamNames
    /\ publication \in BOOLEAN /\ trigger \in BOOLEAN
    /\ pc \in [Clients -> {"idle"} \cup Connected \cup Finishing]
    /\ at \in [Clients -> 1 .. Len(Params) + 1]
    /\ needsRestart \subseteq Clients /\ needsManual \subseteq Clients
    /\ outcome \in [Clients -> {"none", "failed", "manual", "restart", "ready", "refused", "served"}]

(* What preflight insists on, but for what was found waiting to be lowered. *)
Serves(settings) ==
    /\ "wal_level" \in lowered \/ settings["wal_level"] = "logical"
    /\ "max_wal_senders" \in lowered \/ settings["max_wal_senders"] >= 1
    /\ "max_replication_slots" \in lowered \/ settings["max_replication_slots"] >= 1
    /\ publication

(* What init reports is so, and remains so whatever other commands and     *)
(* restarts follow, also one that comes between its last look at the       *)
(* server and the report: after "Run `pgpaw serve`" (setup.rs:206) the     *)
(* server as it runs passes serve's preflight, and after "Restart Postgres *)
(* before running `pgpaw serve`" (setup.rs:200) the server as it will      *)
(* start does.  Not for a setting in lowered: init reads what the server   *)
(* runs with (setup.rs:227) and never sees what is waiting for its next    *)
(* start, so either report may be followed by a refusal.                   *)
ReportsHold ==
    \A i \in Clients :
        /\ outcome[i] = "ready" => Serves(running) /\ Serves(configured)
        /\ outcome[i] = "restart" => Serves(configured)

(* A replica that has passed preflight replicates from a server that       *)
(* passes it as a whole: what it read one by one is one server's           *)
(* configuration, and no later init or restart takes it away, unless a     *)
(* lower value was waiting before.                                         *)
ServedHolds == \A i \in Clients : outcome[i] = "served" => Serves(running) /\ Serves(configured)

=============================================================================
