--------------------------- MODULE QuerySnapshots ---------------------------
(***************************************************************************)
(* The public read path: POST /query (ReadOperations::materialize over     *)
(* QueryCache::get_or_compute) and GET /q/{hash}/{version}                 *)
(* (ReadOperations::cursor), served to concurrent readers while commits    *)
(* are applied to the local database and the change feed advances the      *)
(* version index behind them.                                              *)
(*                                                                         *)
(* A result body is the position of the database it was computed from (the *)
(* number of commits applied): two bodies of q have one content when no    *)
(* commit between their positions changed q's result.  A cursor, and the   *)
(* cache key, is a pair <<query, version>>.                                *)
(***************************************************************************)
EXTENDS CursorVersions

CONSTANTS
    Readers,       \* clients of the HTTP endpoint
    MaxRestarts,   \* bound: restarts of the process
    NoBody

ASSUME BoundsAssumption ==
    /\ MaxCommits \in Nat /\ MaxRestarts \in Nat
    /\ NoBody \notin Nat

VARIABLES
    cache,     \* QueryCache: cursor -> body
    edge,      \* the shared cache: cursor -> body
    req,       \* each reader's request in flight
    got,       \* the answer to each reader's last request
    halted,    \* Replica::is_halted
    base,      \* the commits applied when the process last started
    restarts

serving == <<cache, edge, req, got>>
process == <<halted, base, restarts>>
vars == <<cvars, serving, process>>

Cursors == Queries \X (0 .. MaxCommits)

Body == 0 .. Len(log)

(* The position of the local database. *)
Applied == Len(log)

(* A request: what is asked, what the feed had delivered when it began,    *)
(* and, as far as it got, the version read and the body computed.          *)
Step(pc, q, since, v, at) == [pc |-> pc, q |-> q, since |-> since, v |-> v, at |-> at]

Idle == Step("idle", NoBody, 0, 0, 0)

(* r's request goes on to step pc. *)
Goto(r, pc, v, at) == req' = [req EXCEPT ![r] = Step(pc, req[r].q, req[r].since, v, at)]

Cursor(r) == <<req[r].q, req[r].v>>

-----------------------------------------------------------------------------
(* POST /query: prepare (the replica must not be halted), then materialize *)
(* reads the version; every await in between lets commits and advances in. *)
Start(r, q) ==
    /\ req[r].pc = "idle" /\ ~halted
    /\ req' = [req EXCEPT ![r] = Step("version", q, advanced, 0, 0)]
    /\ got' = [got EXCEPT ![r] = NoBody]
    /\ UNCHANGED <<cvars, cache, edge, process>>

ReadVersion(r) ==
    /\ req[r].pc = "version"
    /\ Goto(r, "lookup", version[req[r].q], 0)
    /\ UNCHANGED <<cvars, cache, edge, got, process>>

(* get_or_compute: a hit answers with a redirect, a miss goes to the       *)
(* database.                                                               *)
Lookup(r) ==
    /\ req[r].pc = "lookup"
    /\ Goto(r, IF cache[Cursor(r)] # NoBody THEN "redirect" ELSE "compute", req[r].v, 0)
    /\ UNCHANGED <<cvars, cache, edge, got, process>>

Compute(r) ==
    /\ req[r].pc = "compute"
    /\ Goto(r, "insert", req[r].v, Applied)
    /\ UNCHANGED <<cvars, cache, edge, got, process>>

(* The query fails: the error is answered and nothing is cached. *)
ComputeFails(r) ==
    /\ req[r].pc = "compute"
    /\ req' = [req EXCEPT ![r] = Idle]
    /\ UNCHANGED <<cvars, cache, edge, got, process>>

(* The definitions named ...Fault are deliberate faults; the model does    *)
(* not use them.  Each stands for a slip in the definition that follows it *)
(* and is put in its place to see that a property notices.                 *)

(* Fault: the body is filed under the version of now, not the one read     *)
(* before it was computed.                                                 *)
InsertFault(r) ==
    /\ req[r].pc = "insert"
    /\ cache' = [cache EXCEPT ![<<req[r].q, version[req[r].q]>>] = req[r].at]
    /\ Goto(r, "redirect", version[req[r].q], 0)
    /\ UNCHANGED <<cvars, edge, got, process>>

(* The body is stored over whatever another reader stored meanwhile. *)
Insert(r) ==
    /\ req[r].pc = "insert"
    /\ cache' = [cache EXCEPT ![Cursor(r)] = req[r].at]
    /\ Goto(r, "redirect", req[r].v, 0)
    /\ UNCHANGED <<cvars, edge, got, process>>

(* `floor` notes what an answer owes nothing for: nothing when PgPaw       *)
(* answers, the commits from before this process when a shared cache does. *)
Answer(r, body, floor) ==
    /\ got' = [got EXCEPT ![r] = [q |-> req[r].q, since |-> req[r].since,
                                  at |-> body, floor |-> floor]]
    /\ req' = [req EXCEPT ![r] = Idle]

(* GET /q/{hash}/{version}: 200 with the cached body, which a shared cache *)
(* may keep (Cache-Control: public), or 404 when it was evicted.           *)
Fetch(r) ==
    /\ req[r].pc = "redirect"
    /\ cache[Cursor(r)] # NoBody
    /\ Answer(r, cache[Cursor(r)], 0)
    /\ \/ edge' = edge
       \/ edge' = [edge EXCEPT ![Cursor(r)] = cache[Cursor(r)]]
    /\ UNCHANGED <<cvars, cache, process>>

NotFound(r) ==
    /\ req[r].pc = "redirect"
    /\ cache[Cursor(r)] = NoBody
    /\ req' = [req EXCEPT ![r] = Idle]
    /\ UNCHANGED <<cvars, cache, edge, got, process>>

(* The shared cache answers the redirect without asking PgPaw. *)
EdgeFetch(r) ==
    /\ req[r].pc = "redirect"
    /\ edge[Cursor(r)] # NoBody
    /\ Answer(r, edge[Cursor(r)], base)
    /\ UNCHANGED <<cvars, cache, edge, process>>

-----------------------------------------------------------------------------
(* moka evicts, or refuses to keep, any entry when bytes run short. *)
Evict(k) ==
    /\ cache[k] # NoBody
    /\ cache' = [cache EXCEPT ![k] = NoBody]
    /\ UNCHANGED <<cvars, edge, req, got, process>>

(* The replica stops applying; readers in flight go on. *)
Halt ==
    /\ ~halted
    /\ halted' = TRUE
    /\ UNCHANGED <<cvars, serving, base, restarts>>

(* Fault: the cache survives a restart that resets the versions. *)
RestartCacheFault ==
    /\ restarts < MaxRestarts
    /\ restarts' = restarts + 1
    /\ advanced' = Applied
    /\ version' = [q \in Queries |-> 0]
    /\ base' = Applied
    /\ req' = [r \in Readers |-> Idle]
    /\ halted' = FALSE
    /\ UNCHANGED <<log, cache, edge, got>>

(* The process restarts on its data directory: a new VersionIndex and a    *)
(* new QueryCache, empty, over a database that holds every commit applied. *)
Restart ==
    /\ restarts < MaxRestarts
    /\ restarts' = restarts + 1
    /\ advanced' = Applied
    /\ version' = [q \in Queries |-> 0]
    /\ base' = Applied
    /\ cache' = [k \in Cursors |-> NoBody]
    /\ req' = [r \in Readers |-> Idle]
    /\ halted' = FALSE
    /\ UNCHANGED <<log, edge, got>>

Feed ==
    \/ ~halted /\ \E R \in SUBSET Queries : Commit(R) /\ UNCHANGED <<serving, process>>
    \/ Advance /\ UNCHANGED <<serving, process>>

-----------------------------------------------------------------------------
Init ==
    /\ CursorInit
    /\ cache = [k \in Cursors |-> NoBody]
    /\ edge = [k \in Cursors |-> NoBody]
    /\ req = [r \in Readers |-> Idle]
    /\ got = [r \in Readers |-> NoBody]
    /\ halted = FALSE /\ base = 0 /\ restarts = 0

Reader(r) ==
    \/ \E q \in Queries : Start(r, q)
    \/ ReadVersion(r) \/ Lookup(r) \/ Compute(r) \/ ComputeFails(r) \/ Insert(r)
    \/ Fetch(r) \/ NotFound(r) \/ EdgeFetch(r)

Next ==
    \/ Feed
    \/ \E r \in Readers : Reader(r)
    \/ \E k \in Cursors : Evict(k)
    \/ Halt
    \/ Restart

Spec == Init /\ [][Next]_vars

-----------------------------------------------------------------------------
Request ==
    {Idle} \cup [pc : {"version", "lookup", "compute", "insert", "redirect"},
                 q : Queries, since : Body, v : 0 .. MaxCommits, at : Body]

Response == [q : Queries, since : Body, at : Body, floor : Body]

(* Bodies, requests and answers never name a position or a version the     *)
(* database has not reached.                                               *)
TypeOK ==
    /\ CursorTypeOK
    /\ cache \in [Cursors -> Body \cup {NoBody}]
    /\ edge \in [Cursors -> Body \cup {NoBody}]
    /\ req \in [Readers -> Request]
    /\ got \in [Readers -> Response \cup {NoBody}]
    /\ halted \in BOOLEAN
    /\ base \in 0 .. advanced
    /\ restarts \in 0 .. MaxRestarts

(* A cached body is never older than the version it is filed under, nor    *)
(* than this process: however a slow reader's insert, an eviction and a    *)
(* later recomputation interleave with the feed.                           *)
CacheNotOlder ==
    \A k \in Cursors : cache[k] # NoBody => cache[k] >= k[2] /\ cache[k] >= base

(* Read your writes: the body a reader is finally handed shows every       *)
(* commit the feed had delivered when its request began, although the      *)
(* version was read, the body computed and the cursor fetched in separate  *)
(* steps, by different readers, before and after restarts.  Only a shared  *)
(* cache may leave out commits, and only those from before the process.    *)
ResponseFresh ==
    \A r \in Readers : got[r] # NoBody =>
        \A n \in (got[r].at + 1) .. got[r].since : got[r].q \in log[n] => n <= got[r].floor

-----------------------------------------------------------------------------
(* Why ResponseFresh holds.  A version covers everything the feed had      *)
(* delivered when it was read, except what was already in the database     *)
(* when the process started; a body is at least as new as the version it   *)
(* is filed under and as the process; so a body covers what its version    *)
(* covers.                                                                 *)
Covers(q, v, to) == \A n \in 1 .. to : q \in log[n] => n <= v \/ n <= base

VersionsCover == \A q \in Queries : Covers(q, version[q], advanced)

RequestsCover ==
    \A r \in Readers : req[r].pc # "idle" =>
        /\ req[r].since <= advanced
        /\ req[r].pc # "version" =>
              req[r].v <= advanced /\ Covers(req[r].q, req[r].v, req[r].since)
        /\ req[r].pc = "insert" => req[r].at >= req[r].v /\ req[r].at >= base

EdgeNotOlder == \A k \in Cursors : edge[k] # NoBody => edge[k] >= k[2]

IInv ==
    /\ TypeOK /\ CacheNotOlder /\ ResponseFresh
    /\ VersionsCover /\ RequestsCover /\ EdgeNotOlder

=============================================================================
