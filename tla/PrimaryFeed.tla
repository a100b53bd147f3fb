---------------------------- MODULE PrimaryFeed ----------------------------
(***************************************************************************)
(* How writes to an embedded primary reach the version index: statement    *)
(* triggers on the tables found at open notify a channel, a listener turns *)
(* each notification into a transaction with a counter for its position,   *)
(* and the bridge's thread advances the index over it.  Writers come by    *)
(* any session of the database; a migration may drop a table and create it *)
(* again.  Notifications arrive in commit order (PostgreSQL, external).    *)
(***************************************************************************)
EXTENDS Naturals, Sequences, FiniteSets, SequencesExt

CONSTANTS
    Tables,      \* the tables scan_schema finds at open
    Queries,     \* the queries served, each the set of tables it names
    Recreated,   \* the tables a migration drops and creates again
    XidLimit,    \* the first transaction id that is no u32
    FirstXid,    \* the transaction id the database has reached at open
    MaxCommits   \* bound: commits

ASSUME FeedAssumption ==
    /\ IsFiniteSet(Tables) /\ Recreated \subseteq Tables
    /\ Queries \subseteq (SUBSET Tables) \ {{}}
    /\ XidLimit \in Nat /\ FirstXid \in Nat /\ MaxCommits \in Nat

VARIABLES
    state,     \* "closed", "listening", "open", "stopped"
    triggers,  \* the tables with the observer's trigger
    log,       \* the commits of the database
    notices,   \* notifications on their way: <<txid, table>>
    counter,   \* security_version
    input,     \* the bridge's channel: <<xid, table, lsn>>
    stamp      \* stamp[t]: the structural version of t in the index

feedVars == <<state, triggers, log, notices, counter, input, stamp>>

FeedInit ==
    /\ state = "closed"
    /\ triggers = {}
    /\ log = <<>>
    /\ notices = <<>> /\ input = <<>>
    /\ counter = 0
    /\ stamp = [t \in Tables |-> 0]

-----------------------------------------------------------------------------
(* PrimaryObserver::start and shutdown *)

Listen ==
    /\ state = "closed"
    /\ state' = "listening"
    /\ UNCHANGED <<triggers, log, notices, counter, input, stamp>>

(* One transaction puts a trigger on every table that was scanned; it      *)
(* waits for the writers that have the tables open.                        *)
Install ==
    /\ state = "listening"
    /\ triggers' = Tables
    /\ state' = "open"
    /\ UNCHANGED <<log, notices, counter, input, stamp>>

(* One table has gone since the scan: nothing is installed, unlisten. *)
InstallFails ==
    /\ state = "listening"
    /\ state' = "closed"
    /\ UNCHANGED <<triggers, log, notices, counter, input, stamp>>

(* The bridge's thread stops at the next transaction; what is on the way   *)
(* is lost with it.                                                        *)
ObserverShutdown ==
    /\ state = "open"
    /\ state' = "stopped"
    /\ notices' = <<>> /\ input' = <<>>
    /\ UNCHANGED <<triggers, log, counter, stamp>>

-----------------------------------------------------------------------------
(* Writers *)

NextXid == FirstXid + Len(log)

(* The highest position that commits so far have been given or will be. *)
Issued == counter + Cardinality({i \in DOMAIN notices : notices[i][1] < XidLimit})

(* What the history keeps of a commit: the tables its statements name, the *)
(* tables it creates anew, whether the node was open, and the positions    *)
(* given before it.                                                        *)
Entry(named, recreated) ==
    [xid |-> NextXid, named |-> named, recreated |-> recreated,
     served |-> state = "open", before |-> Issued]

(* A commit that writes the tables T by name; the triggers of T notify, in *)
(* the order of the statements.                                            *)
Write(T) ==
    /\ state # "stopped" /\ Len(log) < MaxCommits
    /\ log' = Append(log, Entry(T, {}))
    /\ \E order \in SetToSeqs(T \cap triggers) :
         notices' = notices \o [i \in DOMAIN order |-> <<NextXid, order[i]>>]
    /\ UNCHANGED <<state, triggers, counter, input, stamp>>

(* A migration drops t and creates it again, empty and without a trigger. *)
Recreate(t) ==
    /\ state = "open" /\ Len(log) < MaxCommits
    /\ log' = Append(log, Entry({}, {t}))
    /\ triggers' = triggers \ {t}
    /\ UNCHANGED <<state, notices, counter, input, stamp>>

-----------------------------------------------------------------------------
(* The listener and the bridge *)

(* The definitions named ...Fault are deliberate faults; the model does    *)
(* not use them.                                                           *)

(* Fault: the position is what the counter was. *)
CallbackFault ==
    /\ notices # <<>>
    /\ notices' = Tail(notices)
    /\ LET notice == Head(notices)
       IN  IF notice[1] < XidLimit
           THEN /\ counter' = counter + 1
                /\ input' = Append(input, <<notice[1], notice[2], counter>>)
           ELSE UNCHANGED <<counter, input>>
    /\ UNCHANGED <<state, triggers, log, stamp>>

(* Fault: a transaction that was already published is not published again. *)
CallbackOnceFault ==
    /\ notices # <<>>
    /\ notices' = Tail(notices)
    /\ LET notice == Head(notices)
       IN  IF notice[1] < XidLimit /\ (input = <<>> \/ Last(input)[1] # notice[1])
           THEN /\ counter' = counter + 1
                /\ input' = Append(input, <<notice[1], notice[2], counter + 1>>)
           ELSE UNCHANGED <<counter, input>>
    /\ UNCHANGED <<state, triggers, log, stamp>>

(* The listener's callback: a txid that is no u32 ends it silently. *)
Callback ==
    /\ notices # <<>>
    /\ notices' = Tail(notices)
    /\ LET notice == Head(notices)
       IN  IF notice[1] < XidLimit
           THEN /\ counter' = counter + 1
                /\ input' = Append(input, <<notice[1], notice[2], counter + 1>>)
           ELSE UNCHANGED <<counter, input>>
    /\ UNCHANGED <<state, triggers, log, stamp>>

(* Fault: the thread wakes up for two transactions at a time. *)
AdvanceFault ==
    /\ Len(input) > 1
    /\ input' = Tail(input)
    /\ stamp' = [stamp EXCEPT ![Head(input)[2]] = Head(input)[3]]
    /\ UNCHANGED <<state, triggers, log, notices, counter>>

(* VersionIndex::advance over a truncation: the structural version of the  *)
(* table, which every query that names it takes into account.              *)
Advance ==
    /\ input # <<>>
    /\ input' = Tail(input)
    /\ stamp' = [stamp EXCEPT ![Head(input)[2]] = IF Head(input)[3] > @ THEN Head(input)[3] ELSE @]
    /\ UNCHANGED <<state, triggers, log, notices, counter>>

FeedNext ==
    \/ Listen \/ Install \/ InstallFails \/ ObserverShutdown
    \/ \E T \in (SUBSET Tables) \ {{}} : Write(T)
    \/ \E t \in Recreated : Recreate(t)
    \/ Callback \/ Advance

FeedSpec == FeedInit /\ [][FeedNext]_feedVars

(* The listener's task and the bridge's thread run while the node is open. *)
FairFeedSpec == FeedSpec /\ WF_feedVars(Callback) /\ WF_feedVars(Advance)

-----------------------------------------------------------------------------
(* Properties *)

EntryType ==
    [xid : Nat, named : SUBSET Tables, recreated : SUBSET Tables, served : BOOLEAN, before : Nat]

(* Every variable is in its range. *)
FeedTypeOK ==
    /\ state \in {"closed", "listening", "open", "stopped"}
    /\ triggers \subseteq Tables
    /\ log \in Seq(EntryType) /\ Len(log) <= MaxCommits
    /\ notices \in Seq(Nat \X Tables)
    /\ input \in Seq((0 .. XidLimit - 1) \X Tables \X (1 .. counter))
    /\ counter \in Nat
    /\ stamp \in [Tables -> 0 .. counter]

(* The version of q is past every position an earlier commit was given, so *)
(* no cursor from before the commit names its result any more.             *)
Moved(q, n) == n \in DOMAIN log /\ \E t \in q : stamp[t] > log[n].before

(* Commit n writes a table of q while the node is open, under the name q   *)
(* has for it, on a table that was there at open and was not created anew  *)
(* since, with an id that fits into 32 bits.                               *)
Observable(q, n) ==
    /\ n \in DOMAIN log /\ log[n].served /\ log[n].xid < XidLimit
    /\ \E t \in log[n].named \cap q : \A m \in 1 .. n : t \notin log[m].recreated

(* README.md:569 "A relevant upstream write produces a new cursor", as far *)
(* as the observer's design carries: such a write moves the version of the *)
(* query past all earlier positions, once what is on the way has arrived;  *)
(* also if it wrote several tables, whose notifications are separate       *)
(* transactions to the index (primary.rs:240), or lies beside commits that *)
(* were not noticed or were discarded.                                     *)
WatchedWriteMoves ==
    (state # "stopped" /\ notices = <<>> /\ input = <<>>) =>
        \A n \in DOMAIN log, q \in Queries : Observable(q, n) => Moved(q, n)

(* The same in time: such a write is seen unless the node stops. *)
EveryWatchedWriteSeen ==
    \A n \in 1 .. MaxCommits, q \in Queries :
        Observable(q, n) ~> (state = "stopped" \/ Moved(q, n))

=============================================================================
