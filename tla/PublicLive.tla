----------------------------- MODULE PublicLive -----------------------------
(***************************************************************************)
(* Live streams of a public query, on top of QuerySnapshots.  The server   *)
(* materializes the query through the shared cache, keeps the body it got  *)
(* as the `last` of the subscription and sends its client only a pointer,  *)
(* /q/{hash}/{version}; the client fetches the pointer and applies the     *)
(* deltas that follow to what it is handed.  Other readers and evictions   *)
(* go on in between.  The shared cache, restarts and a halted replica are  *)
(* left to QuerySnapshots.                                                 *)
(*                                                                         *)
(* A body is a database position, as in QuerySnapshots; `results` gives    *)
(* the rows, a function from primary key to value.  The broadcast and the  *)
(* collection of the client are LiveHub's and TanstackClient's; here are   *)
(* the hub's position and what one connection's stream shows.              *)
(***************************************************************************)
EXTENDS QuerySnapshots, RowDiff

CONSTANTS
    Live,         \* the query of the streams
    Keys, Rows,   \* the keys and the rows its result may hold
    Initial,      \* the results it may have at the start
    Subscribers,  \* clients of POST /query?live=true
    NoView

(* The results the query can have: rows by key. *)
Results == UNION {[K -> Rows] : K \in SUBSET Keys}

ASSUME LiveAssumption == Live \in Queries /\ Initial \subseteq Results

VARIABLES
    results,  \* results[n + 1]: the result of Live after commit n
    handled,  \* commits the hub's worker has taken
    jobs,     \* subscriptions on_commit has yet to query again
    live      \* each subscriber's connection, on both sides

hub == <<results, handled, jobs>>
lvars == <<vars, hub, live>>

Result(n) == results[n + 1]

Now == Result(Applied)

(* A connection.  since: what the feed had delivered when it began; v, at: *)
(* the version and the body of the server; last: what the hub diffs        *)
(* against; from, view: the body the client was handed and what it shows   *)
(* by now; wire: cycles not yet read; told: a cycle was read.              *)
Waiting ==
    [pc |-> "waiting", since |-> 0, v |-> 0, at |-> 0, last |-> 0,
     from |-> 0, view |-> NoView, wire |-> <<>>, told |-> FALSE]

Registered == {s \in Subscribers : live[s].pc \in {"snapshot", "open"}}

Pointer(s) == <<Live, live[s].v>>

Enter(s, pc) == live' = [live EXCEPT ![s].pc = pc]

-----------------------------------------------------------------------------
(* POST /query?live=true: prepare, then materialize *)

Subscribe(s) ==
    /\ live[s].pc = "waiting"
    /\ live' = [live EXCEPT ![s] = [Waiting EXCEPT !.pc = "version", !.since = advanced]]
    /\ UNCHANGED <<vars, hub>>

LiveVersion(s) ==
    /\ live[s].pc = "version"
    /\ live' = [live EXCEPT ![s].pc = "lookup", ![s].v = version[Live]]
    /\ UNCHANGED <<vars, hub>>

(* LiveHub::subscribe with this body: nothing is awaited between having    *)
(* the body and the entry in the hub.                                      *)
Register(s, body) ==
    live' = [live EXCEPT ![s].pc = "snapshot", ![s].at = body, ![s].last = body]

LiveHit(s) ==
    /\ live[s].pc = "lookup" /\ cache[Pointer(s)] # NoBody
    /\ Register(s, cache[Pointer(s)])
    /\ UNCHANGED <<vars, hub>>

LiveMiss(s) ==
    /\ live[s].pc = "lookup" /\ cache[Pointer(s)] = NoBody
    /\ Enter(s, "compute")
    /\ UNCHANGED <<vars, hub>>

LiveCompute(s) ==
    /\ live[s].pc = "compute"
    /\ live' = [live EXCEPT ![s].pc = "insert", ![s].at = Applied]
    /\ UNCHANGED <<vars, hub>>

(* The definitions named ...Fault are deliberate faults; the model does    *)
(* not use them.                                                           *)

(* Fault: the body is filed under the version of now. *)
LiveInsertFault(s) ==
    /\ live[s].pc = "insert"
    /\ cache' = [cache EXCEPT ![<<Live, version[Live]>>] = live[s].at]
    /\ Register(s, live[s].at)
    /\ UNCHANGED <<cvars, edge, req, got, process, hub>>

(* The body is stored over whatever another reader stored meanwhile; the   *)
(* subscription goes on with its own.                                      *)
LiveInsert(s) ==
    /\ live[s].pc = "insert"
    /\ cache' = [cache EXCEPT ![Pointer(s)] = live[s].at]
    /\ Register(s, live[s].at)
    /\ UNCHANGED <<cvars, edge, req, got, process, hub>>

-----------------------------------------------------------------------------
(* The client reads the first event and fetches the pointer. *)

LiveFetch(s) ==
    /\ live[s].pc = "snapshot" /\ cache[Pointer(s)] # NoBody
    /\ live' = [live EXCEPT ![s].pc = "open", ![s].from = cache[Pointer(s)],
                            ![s].view = Result(cache[Pointer(s)])]
    /\ UNCHANGED <<vars, hub>>

(* The connection ends, Drop removes the entry, and the client will        *)
(* connect again.                                                          *)
Close(s) ==
    /\ live' = [live EXCEPT ![s] = Waiting]
    /\ jobs' = jobs \ {s}
    /\ UNCHANGED <<vars, results, handled>>

(* 404 with an error object, which the client cannot iterate. *)
LiveNotFound(s) ==
    /\ live[s].pc = "snapshot" /\ cache[Pointer(s)] = NoBody
    /\ Close(s)

(* The query failed, the connection broke, or the hub reset it because     *)
(* the broadcast lagged or a query failed.                                 *)
Break(s) ==
    /\ live[s].pc # "waiting"
    /\ Close(s)

(* A cycle of deltas, up to its up-to-date. *)
Follow(s) ==
    /\ live[s].pc = "open" /\ live[s].wire # <<>>
    /\ live' = [live EXCEPT ![s].view = ApplyDeltas(@, Head(live[s].wire)),
                            ![s].wire = Tail(@), ![s].told = TRUE]
    /\ UNCHANGED <<vars, hub>>

-----------------------------------------------------------------------------
(* Fault: the worker takes commits before the index is advanced. *)
TakeFault ==
    /\ jobs = {} /\ handled < Applied
    /\ handled' = handled + 1
    /\ jobs' \in {Registered} \cup (IF Live \in log[handled + 1] THEN {} ELSE {{}})
    /\ UNCHANGED <<vars, results, live>>

(* on_commit: the subscriptions on a table the commit wrote.  A commit     *)
(* that changed the result wrote one; any other may have.                  *)
Take ==
    /\ jobs = {} /\ handled < advanced
    /\ handled' = handled + 1
    /\ jobs' \in {Registered} \cup (IF Live \in log[handled + 1] THEN {} ELSE {{}})
    /\ UNCHANGED <<vars, results, live>>

(* Fault: `last` is left as it was. *)
RequeryFault(s) ==
    /\ s \in jobs
    /\ jobs' = jobs \ {s}
    /\ live' = [live EXCEPT ![s].wire = Append(@, Diff(Result(live[s].last), Now))]
    /\ UNCHANGED <<vars, results, handled>>

(* One of them is queried again, diffed and told. *)
Requery(s) ==
    /\ s \in jobs
    /\ jobs' = jobs \ {s}
    /\ live' = [live EXCEPT ![s].wire = Append(@, Diff(Result(live[s].last), Now)),
                            ![s].last = Applied]
    /\ UNCHANGED <<vars, results, handled>>

(* A commit, with what it makes of the result. *)
Write ==
    /\ \E R \in SUBSET Queries : \E res \in Results :
         /\ Live \in R <=> res # Now
         /\ Commit(R)
         /\ results' = Append(results, res)
    /\ UNCHANGED <<serving, process, handled, jobs, live>>

-----------------------------------------------------------------------------
LiveInit ==
    /\ Init
    /\ results \in {<<res>> : res \in Initial}
    /\ handled = 0 /\ jobs = {}
    /\ live = [s \in Subscribers |-> Waiting]

Subscriber(s) ==
    \/ Subscribe(s) \/ LiveVersion(s) \/ LiveHit(s) \/ LiveMiss(s)
    \/ LiveCompute(s) \/ LiveInsert(s)
    \/ LiveFetch(s) \/ LiveNotFound(s) \/ Break(s) \/ Follow(s)

(* A plain reader, up to its redirect: what it fetches then is the subject *)
(* of QuerySnapshots.                                                      *)
Leave(r) ==
    /\ req[r].pc = "redirect"
    /\ req' = [req EXCEPT ![r] = Idle]
    /\ UNCHANGED <<cvars, cache, edge, got, process>>

PlainReader(r) ==
    \/ Start(r, Live) \/ ReadVersion(r) \/ Lookup(r)
    \/ Compute(r) \/ ComputeFails(r) \/ Insert(r) \/ Leave(r)

(* The rest of the node, with which the streams share cache and feed. *)
Snapshots ==
    /\ \/ \E r \in Readers : PlainReader(r)
       \/ \E k \in Cursors : Evict(k)
       \/ Advance /\ UNCHANGED <<serving, process>>
    /\ UNCHANGED <<hub, live>>

LiveNext ==
    \/ Snapshots
    \/ Write \/ Take
    \/ \E s \in Subscribers : Requery(s) \/ Subscriber(s)

LiveSpec == LiveInit /\ [][LiveNext]_lvars

-----------------------------------------------------------------------------
Connection ==
    [pc : {"waiting", "version", "lookup", "compute", "insert", "snapshot", "open"},
     since : Body, v : 0 .. MaxCommits, at : Body, last : Body, from : Body,
     view : Results \cup {NoView},
     wire : Seq(SUBSET [op : {"insert", "update", "delete"}, key : Keys, row : Rows]),
     told : BOOLEAN]

(* The node's state and every connection's are well formed: the hub is     *)
(* never ahead of the version index, and every stream shows a result the   *)
(* query can have.                                                         *)
LiveTypeOK ==
    /\ TypeOK
    /\ results \in Seq(Results) /\ Len(results) = Len(log) + 1
    /\ handled \in 0 .. advanced
    /\ jobs \subseteq Registered
    /\ live \in [Subscribers -> Connection]

(* Read your writes for streams (ReadOperations::subscribe, cache.rs): the *)
(* body a stream starts from, at the server and at its client, shows every *)
(* commit the feed had delivered when the stream was asked for, whoever    *)
(* computed it and whenever it was filed.                                  *)
StreamStartsFresh ==
    \A s \in Registered : \A n \in 1 .. live[s].since : Live \in log[n] =>
        n <= live[s].at /\ (live[s].pc = "open" => n <= live[s].from)

(* The client starts where the hub does. *)
SameStart(s) == Result(live[s].from) = Result(live[s].at)

(* The hub has gone through everything, s has read all of it, and at least *)
(* one cycle came.                                                         *)
Settled(s) ==
    /\ live[s].pc = "open" /\ live[s].wire = <<>> /\ live[s].told
    /\ jobs = {} /\ handled = Applied

(* A stream whose client was handed the body the hub registered shows,     *)
(* whenever it has read all it was sent, what the hub holds for it, and    *)
(* after a cycle, once the hub is done, the query's result: commits that   *)
(* came between the version, the body, the entry in the hub and the fetch  *)
(* are in the body or in a cycle (live.rs on_commit).                      *)
StreamFollows ==
    \A s \in Subscribers : live[s].pc = "open" /\ SameStart(s) =>
        /\ live[s].wire = <<>> => live[s].view = Result(live[s].last)
        /\ Settled(s) => live[s].view = Now

=============================================================================
