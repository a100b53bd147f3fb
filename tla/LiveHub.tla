------------------------------- MODULE LiveHub -------------------------------
(***************************************************************************)
(* Live queries: the CDC thread (capability/cdc.rs), the broadcast channel *)
(* behind it, the worker task of LiveHub (capability/live.rs), and clients *)
(* that subscribe (ReadOperations::subscribe, scoped path) and disconnect. *)
(*                                                                         *)
(* Transactions are numbered in commit order, the order of their LSNs.     *)
(* What a stream names is the xid, which upstream draws at a transaction's *)
(* first write: two that overlap may commit in the other order.            *)
(* hist[n + 1] is the database after commit n.  The sequence of frames a   *)
(* subscription was sent is held as what it means to its reader:           *)
(* stream[id].view is the result after the snapshot and all delta cycles,  *)
(* .txid the last up-to-date, .reset whether a reset ended it.             *)
(*                                                                         *)
(* The feed is that of a replica, each of whose transactions has an xid of *)
(* its own; how a primary's comes about is PrimaryFeed's.                  *)
(***************************************************************************)
EXTENDS Naturals, Sequences, RowDiff

CONSTANTS
    Tables, Keys, Vals,
    NoRow,
    Txns,        \* the transactions considered: sets of <<table, key, value or NoRow>>
    Queries,     \* [tables, pk]: pk tells that rows are keyed by primary key
    Clients,
    NoSub,
    Xid,         \* Xid[n]: the xid of commit n, in no order
    Capacity,    \* broadcast::channel(1024)
    MaxCommits,  \* bound: transactions
    MaxIds       \* bound: subscriptions opened

ASSUME CapacityAssumption == Capacity \in Nat \ {0}
ASSUME MaxIdsAssumption == MaxIds \in Nat
ASSUME TxnsAssumption == Txns \subseteq SUBSET (Tables \X Keys \X (Vals \cup {NoRow}))
ASSUME XidAssumption ==
    /\ MaxCommits \in Nat
    /\ Xid \in [1 .. MaxCommits -> Nat \ {0}]
    /\ \A m, n \in 1 .. MaxCommits : Xid[m] = Xid[n] => m = n
ASSUME QueriesAssumption == \A q \in Queries : q.tables \subseteq Tables /\ (q.pk => q.tables # {})

VARIABLES
    hist, log,   \* the database after each commit; the tables each commit wrote
    fed,         \* transactions the CDC thread has sent to the broadcast
    stop,        \* CdcBridge.stop
    recvd,       \* the worker's position in the broadcast
    worker,      \* the worker task between two awaits
    subs,        \* LiveHub.subs
    nextId,
    stream,      \* the channel of each subscription
    conn         \* each client's request

db == hist[Len(hist)]
feed == <<hist, log, fed, stop>>
vars == <<feed, recvd, worker, subs, nextId, stream, conn>>

Ids == 1 .. MaxIds

(* An entry of the hub, and the stream its receiver reads. *)
Subscription(q, last, gap) == [q |-> q, last |-> last, gap |-> gap]

Stream(q, view, txid, reset, open) ==
    [q |-> q, view |-> view, txid |-> txid, reset |-> reset, open |-> open]

Receiving == [pc |-> "recv"]
Off == [pc |-> "off"]

-----------------------------------------------------------------------------
(* keyed_map over the query's result: keyed by the primary key of a single *)
(* table, by a hash of the row otherwise.                                  *)
Rows(q, d) == {<<x[1], x[2], d[x[1]][x[2]]>> : x \in {y \in q.tables \X Keys : d[y[1]][y[2]] # NoRow}}

KeyedMap(q, d) ==
    IF q.pk THEN LET t == CHOOSE t \in q.tables : TRUE
                 IN  [k \in {x \in Keys : d[t][x] # NoRow} |-> <<t, k, d[t][k]>>]
            ELSE [r \in Rows(q, d) |-> r]

Writes(txn) == {w[1] : w \in txn}

(* The definitions named ...Fault are deliberate faults; the model does    *)
(* not use them.  Each stands for a slip in the definition that follows it *)
(* and is put in its place to see that a property notices.                 *)

(* Fault: all of the query's tables must have changed. *)
MatchesFault(q, n) == q.tables \subseteq log[n]

Matches(q, n) == q.tables \cap log[n] # {}

(* The replica applies a transaction to the local database and queues it   *)
(* for the CDC thread.                                                     *)
Commit(txn) ==
    /\ Len(log) < MaxCommits
    /\ hist' = Append(hist, [t \in Tables |-> [k \in Keys |->
                  IF \E w \in txn : w[1] = t /\ w[2] = k
                  THEN (CHOOSE w \in txn : w[1] = t /\ w[2] = k)[3]
                  ELSE db[t][k]]])
    /\ log' = Append(log, Writes(txn))
    /\ UNCHANGED <<fed, stop, recvd, worker, subs, nextId, stream, conn>>

(* The CDC thread takes the next transaction; once stop is set it takes    *)
(* one more, drops it and ends.                                            *)
Feed ==
    /\ fed < Len(log) /\ ~stop
    /\ fed' = fed + 1
    /\ UNCHANGED <<hist, log, stop, recvd, worker, subs, nextId, stream, conn>>

Stop ==
    /\ ~stop
    /\ stop' = TRUE
    /\ UNCHANGED <<hist, log, fed, recvd, worker, subs, nextId, stream, conn>>

-----------------------------------------------------------------------------
(* A client opens a live query.  Its body is read, and only later, after   *)
(* the await, is the subscription registered.  (A read that fails is       *)
(* answered with an error and leaves no trace.)                            *)
ReadBody(c, q) ==
    /\ conn[c].pc = "off"
    /\ conn' = [conn EXCEPT ![c] = [pc |-> "register", q |-> q,
                                    body |-> KeyedMap(q, db), at |-> Len(log)]]
    /\ UNCHANGED <<feed, recvd, worker, subs, nextId, stream>>

(* LiveHub::subscribe: the snapshot is sent, the id drawn, the             *)
(* subscription inserted.  `gap` records whether the worker has already    *)
(* passed a matching transaction that the body does not show.              *)
Register(c) ==
    /\ conn[c].pc = "register" /\ nextId <= MaxIds
    /\ LET q == conn[c].q
           body == conn[c].body
           gap == \E n \in (conn[c].at + 1) .. recvd : Matches(q, n)
       IN  /\ stream' = [stream EXCEPT ![nextId] =
                            Stream(q, body, 0, FALSE, TRUE)]
           /\ subs' = [subs EXCEPT ![nextId] = Subscription(q, body, gap)]
    /\ conn' = [conn EXCEPT ![c] = [pc |-> "open", id |-> nextId]]
    /\ nextId' = nextId + 1
    /\ UNCHANGED <<feed, recvd, worker>>

(* Fault: Drop leaves the entry to the sweep. *)
DropEntryFault(c) ==
    /\ conn[c].pc = "open"
    /\ conn' = [conn EXCEPT ![c] = [pc |-> "dropping", id |-> conn[c].id]]
    /\ UNCHANGED <<feed, recvd, worker, subs, nextId, stream>>

(* The stream is dropped: Drop removes the entry, then the receiver goes. *)
DropEntry(c) ==
    /\ conn[c].pc = "open"
    /\ subs' = [subs EXCEPT ![conn[c].id] = NoSub]
    /\ conn' = [conn EXCEPT ![c] = [pc |-> "dropping", id |-> conn[c].id]]
    /\ UNCHANGED <<feed, recvd, worker, nextId, stream>>

DropReceiver(c) ==
    /\ conn[c].pc = "dropping"
    /\ stream' = [stream EXCEPT ![conn[c].id] = Stream(@.q, @.view, @.txid, @.reset, FALSE)]
    /\ conn' = [conn EXCEPT ![c] = Off]
    /\ UNCHANGED <<feed, recvd, worker, subs, nextId>>

-----------------------------------------------------------------------------
(* The worker: receiver.recv() *)

Lagging == fed - recvd > Capacity

(* on_commit up to its first await: the jobs are copied under the lock. *)
Take ==
    /\ worker.pc = "recv" /\ recvd < fed /\ ~Lagging
    /\ recvd' = recvd + 1
    /\ worker' = [pc |-> "jobs", txid |-> Xid[recvd + 1],
                  jobs |-> [id \in {i \in Ids : subs[i] # NoSub /\ Matches(subs[i].q, recvd + 1)}
                              |-> subs[id].last]]
    /\ UNCHANGED <<feed, subs, nextId, stream, conn>>

SendReset(ids) ==
    stream' = [id \in Ids |->
        IF id \in ids /\ stream[id].open
        THEN Stream(stream[id].q, stream[id].view, stream[id].txid, TRUE, TRUE)
        ELSE stream[id]]

(* RecvError::Lagged: the receiver moves to the oldest retained            *)
(* transaction and reset_all empties the hub.                              *)
Lagged ==
    /\ worker.pc = "recv" /\ Lagging
    /\ recvd' = fed - Capacity
    /\ SendReset({id \in Ids : subs[id] # NoSub})
    /\ subs' = [id \in Ids |-> NoSub]
    /\ UNCHANGED <<feed, worker, nextId, conn>>

Without(jobs, id) == [i \in DOMAIN jobs \ {id} |-> jobs[i]]

(* Fault: the query sees the database as it was before the commit. *)
RequeryFault(id) ==
    /\ worker.pc = "jobs" /\ id \in DOMAIN worker.jobs
    /\ worker' = [pc |-> "deliver", txid |-> worker.txid, jobs |-> Without(worker.jobs, id),
                  id |-> id, last |-> worker.jobs[id],
                  next |-> KeyedMap(stream[id].q, hist[recvd])]
    /\ UNCHANGED <<feed, recvd, subs, nextId, stream, conn>>

(* One job's query runs again (the await), ... *)
Requery(id) ==
    /\ worker.pc = "jobs" /\ id \in DOMAIN worker.jobs
    /\ worker' = [pc |-> "deliver", txid |-> worker.txid, jobs |-> Without(worker.jobs, id),
                  id |-> id, last |-> worker.jobs[id], next |-> KeyedMap(stream[id].q, db)]
    /\ UNCHANGED <<feed, recvd, subs, nextId, stream, conn>>

(* Fault: the reset is sent but the subscription stays. *)
RequeryFailsFault(id) ==
    /\ worker.pc = "jobs" /\ id \in DOMAIN worker.jobs
    /\ worker' = [pc |-> "jobs", txid |-> worker.txid, jobs |-> Without(worker.jobs, id)]
    /\ SendReset({id} \cap {i \in Ids : subs[i] # NoSub})
    /\ UNCHANGED <<feed, recvd, subs, nextId, conn>>

(* ... or fails: the subscription, if it is still there, is reset. *)
RequeryFails(id) ==
    /\ worker.pc = "jobs" /\ id \in DOMAIN worker.jobs
    /\ worker' = [pc |-> "jobs", txid |-> worker.txid, jobs |-> Without(worker.jobs, id)]
    /\ SendReset({id} \cap {i \in Ids : subs[i] # NoSub})
    /\ subs' = [subs EXCEPT ![id] = NoSub]
    /\ UNCHANGED <<feed, recvd, nextId, conn>>

(* Fault: `last` stays what it was when the jobs were copied. *)
DeliverFault ==
    /\ worker.pc = "deliver"
    /\ LET id == worker.id
           deltas == Diff(worker.last, worker.next)
           alive == subs[id] # NoSub /\ (stream[id].open \/ deltas = {})
       IN  /\ stream' = IF alive /\ stream[id].open
                        THEN [stream EXCEPT ![id] =
                                  Stream(@.q, ApplyDeltas(@.view, deltas), worker.txid, @.reset, TRUE)]
                        ELSE stream
    /\ worker' = [pc |-> "jobs", txid |-> worker.txid, jobs |-> worker.jobs]
    /\ UNCHANGED <<feed, recvd, subs, nextId, conn>>

(* Fault: without deltas there is no up-to-date either. *)
DeliverQuietFault ==
    /\ worker.pc = "deliver"
    /\ LET id == worker.id
           deltas == Diff(worker.last, worker.next)
           alive == subs[id] # NoSub /\ stream[id].open /\ deltas # {}
       IN  /\ subs' = IF alive
                      THEN [subs EXCEPT ![id] = Subscription(@.q, worker.next, FALSE)]
                      ELSE subs
           /\ stream' = IF alive
                        THEN [stream EXCEPT ![id] =
                                  Stream(@.q, ApplyDeltas(@.view, deltas), worker.txid, @.reset, TRUE)]
                        ELSE stream
    /\ worker' = [pc |-> "jobs", txid |-> worker.txid, jobs |-> worker.jobs]
    /\ UNCHANGED <<feed, recvd, nextId, conn>>

(* The deltas and up-to-date are sent under the lock if the subscription   *)
(* is still there; a delta that cannot be sent leaves `last` alone.        *)
Deliver ==
    /\ worker.pc = "deliver"
    /\ LET id == worker.id
           deltas == Diff(worker.last, worker.next)
           alive == subs[id] # NoSub /\ (stream[id].open \/ deltas = {})
       IN  /\ subs' = IF alive
                      THEN [subs EXCEPT ![id] = Subscription(@.q, worker.next, FALSE)]
                      ELSE subs
           /\ stream' = IF alive /\ stream[id].open
                        THEN [stream EXCEPT ![id] =
                                  Stream(@.q, ApplyDeltas(@.view, deltas), worker.txid, @.reset, TRUE)]
                        ELSE stream
    /\ worker' = [pc |-> "jobs", txid |-> worker.txid, jobs |-> worker.jobs]
    /\ UNCHANGED <<feed, recvd, nextId, conn>>

(* All jobs done: subscriptions whose receiver is gone are swept. *)
Sweep ==
    /\ worker.pc = "jobs" /\ DOMAIN worker.jobs = {}
    /\ subs' = [id \in Ids |->
                   IF subs[id] # NoSub /\ ~stream[id].open THEN NoSub ELSE subs[id]]
    /\ worker' = Receiving
    /\ UNCHANGED <<feed, recvd, nextId, stream, conn>>

-----------------------------------------------------------------------------
NoStream == [open |-> FALSE, reset |-> FALSE, txid |-> 0]

Init ==
    /\ hist = <<[t \in Tables |-> [k \in Keys |-> NoRow]]>>
    /\ log = <<>> /\ fed = 0 /\ stop = FALSE
    /\ recvd = 0 /\ worker = Receiving
    /\ subs = [id \in Ids |-> NoSub] /\ nextId = 1
    /\ stream = [id \in Ids |-> NoStream]
    /\ conn = [c \in Clients |-> Off]

Client(c) ==
    \/ \E q \in Queries : ReadBody(c, q)
    \/ Register(c) \/ DropEntry(c) \/ DropReceiver(c)

Worker ==
    \/ Take \/ Lagged \/ Deliver \/ Sweep
    \/ \E id \in Ids : Requery(id) \/ RequeryFails(id)

Next ==
    \/ \E txn \in Txns : Commit(txn)
    \/ Feed \/ Stop
    \/ \E c \in Clients : Client(c)
    \/ Worker

Spec == Init /\ [][Next]_vars

(* The CDC thread and the worker task are always scheduled again, and a    *)
(* query the worker waits for returns, with rows or with an error.         *)
FairSpec == Spec /\ WF_vars(Feed) /\ WF_vars(Worker)

-----------------------------------------------------------------------------
Registered(id) == subs[id] # NoSub

(* Positions are ordered, and only drawn ids are in use. *)
TypeOK ==
    /\ Len(hist) = Len(log) + 1 /\ Len(log) <= MaxCommits
    /\ fed \in 0 .. Len(log) /\ recvd \in 0 .. fed
    /\ worker.pc \in {"recv", "jobs", "deliver"}
    /\ worker.pc # "recv" => recvd > 0 /\ worker.txid = Xid[recvd]
    /\ nextId \in 1 .. MaxIds + 1
    /\ \A id \in Ids : (Registered(id) \/ stream[id] # NoStream) => id < nextId

(* A reader that applied everything it was sent holds exactly the result   *)
(* the hub will diff against next: `last` is never updated behind the      *)
(* stream's back, across awaits, drops, failures and resets.               *)
StreamMatchesLast ==
    \A id \in Ids : Registered(id) => /\ stream[id].view = subs[id].last
                                      /\ ~stream[id].reset

(* The worker never sends into a closed channel: Drop removes the entry    *)
(* before the receiver goes, so the send error and the sweep find nothing. *)
RegisteredIsOpen == \A id \in Ids : Registered(id) => stream[id].open

ShowsSince(view, q, t) == \E n \in t .. Len(log) : view = KeyedMap(q, hist[n + 1])

(* Which commit a txid names; 0 stands for none. *)
PositionOf(x) == IF x = 0 THEN 0 ELSE CHOOSE n \in 1 .. MaxCommits : Xid[n] = x

(* up-to-date(T) is a promise: the reader's result is the query's result   *)
(* at one moment of the database, not before the commit that T names.      *)
UpToDateCovers ==
    \A id \in Ids : stream[id].txid # 0 =>
        ShowsSince(stream[id].view, stream[id].q, PositionOf(stream[id].txid))

(* Streams move forward only: the up-to-date events of a stream name       *)
(* transactions in the order of their commits, although the txids that are *)
(* sent (live.rs:165, 257) may fall; and a stream that was reset or        *)
(* dropped is never written again.                                         *)
StreamsMoveForward ==
    [][\A id \in Ids : stream[id] # NoStream =>
          /\ PositionOf(stream'[id].txid) >= PositionOf(stream[id].txid)
          /\ (stream[id].reset \/ ~stream[id].open)
                => stream'[id].view = stream[id].view /\ stream'[id].txid = stream[id].txid]_vars

Quiescent == fed = Len(log) /\ recvd = fed /\ worker.pc = "recv"

(* When the feed is drained, a subscription that no transaction overtook   *)
(* while it was registering shows the current result: no commit is lost    *)
(* between the copy of the jobs, the requery and the delivery.             *)
QuiescentFresh ==
    Quiescent => \A id \in Ids : Registered(id) /\ ~subs[id].gap => subs[id].last = KeyedMap(subs[id].q, db)

(* Every matching transaction still ahead of the worker is answered: with  *)
(* an up-to-date of its own xid, for which a client may be waiting, with a *)
(* reset, or the client leaves.  Only stopping the bridge ends the promise.*)
EveryCommitAnswered ==
    \A id \in Ids, n \in 1 .. MaxCommits :
        (Registered(id) /\ recvd < n /\ n <= Len(log) /\ Matches(subs[id].q, n))
            ~> (stream[id].txid = Xid[n] \/ ~Registered(id) \/ stop)
-----------------------------------------------------------------------------
(* Why StreamMatchesLast holds: ids are not reused, a subscription leaves  *)
(* the hub before its channel closes, and nobody but the worker changes    *)
(* `last` between the copy of the jobs and the delivery.                   *)
Drawn(id) == id \in Ids /\ id < nextId

Shapes ==
    /\ DOMAIN subs = Ids /\ DOMAIN stream = Ids /\ DOMAIN conn = Clients
    /\ nextId \in Nat \ {0}
    /\ \A id \in Ids : Registered(id) => Drawn(id)

ClientsHold ==
    /\ \A c \in Clients : conn[c].pc \in {"open", "dropping"} => Drawn(conn[c].id)
    /\ \A c \in Clients : conn[c].pc = "dropping" => ~Registered(conn[c].id)
    /\ \A c, d \in Clients :
          c # d /\ conn[c].pc \in {"open", "dropping"} /\ conn[d].pc \in {"open", "dropping"}
              => conn[c].id # conn[d].id

JobsCurrent ==
    /\ worker.pc \in {"jobs", "deliver"} => \A id \in DOMAIN worker.jobs :
          Drawn(id) /\ (Registered(id) => worker.jobs[id] = subs[id].last)
    /\ worker.pc = "deliver" =>
          /\ Drawn(worker.id) /\ worker.id \notin DOMAIN worker.jobs
          /\ Registered(worker.id) => worker.last = subs[worker.id].last
          /\ worker.next = [k \in DOMAIN worker.next |-> worker.next[k]]

HubInv == Shapes /\ ClientsHold /\ JobsCurrent /\ StreamMatchesLast /\ RegisteredIsOpen

(* Why UpToDateCovers holds: the worker asks the database after it took    *)
(* the transaction, and results of the past stay what they were.           *)
Databases == [Tables -> [Keys -> Vals \cup {NoRow}]]

Histories == hist \in Seq(Databases) /\ log \in Seq(SUBSET Tables)

AnswersBounded ==
    \A id \in Ids : stream[id].txid = 0 \/ \E n \in 1 .. recvd : stream[id].txid = Xid[n]

RequeryShows ==
    worker.pc = "deliver" => ShowsSince(worker.next, stream[worker.id].q, recvd)

PromiseInv == Histories /\ TypeOK /\ AnswersBounded /\ RequeryShows /\ UpToDateCovers

=============================================================================
