-------------------------- MODULE PublicLive_proofs --------------------------
(***************************************************************************)
(* The freshness of public snapshots, for any number of readers, queries,  *)
(* commits and restarts; and the streams of a public query, for any number *)
(* of them and any results.                                                *)
(***************************************************************************)
EXTENDS PublicLive, RowDiff_proofs

(* Snapshots *)

(* The initial state is well typed. *)
LEMMA InitType == Init => TypeOK
<1> SUFFICES ASSUME Init PROVE TypeOK OBVIOUS
<1>1. CursorTypeOK
  BY BoundsAssumption DEF Init, CursorInit, CursorTypeOK
<1>2. Len(log) = 0 /\ advanced = 0
  BY DEF Init, CursorInit
<1>3. req \in [Readers -> Request]
  BY DEF Init, Request
<1>4. base \in 0 .. advanced /\ restarts \in 0 .. MaxRestarts
  BY <1>2, BoundsAssumption DEF Init
<1> QED
  BY <1>1, <1>3, <1>4 DEF Init, TypeOK

(* Appending a commit keeps the positions in range. *)
LEMMA CommitType ==
  ASSUME TypeOK, NEW R \in SUBSET Queries, Commit(R), UNCHANGED <<serving, process>>
  PROVE  TypeOK'
<1>1. Len(log') = Len(log) + 1 /\ CursorTypeOK' /\ advanced' = advanced
  BY BoundsAssumption DEF Commit, TypeOK, CursorTypeOK
<1>2. Body \subseteq Body'
  BY <1>1 DEF Body, TypeOK, CursorTypeOK
<1>3. Request \subseteq Request' /\ Response \subseteq Response'
  BY <1>2 DEF Request, Response
<1> QED
  BY <1>1, <1>2, <1>3 DEF TypeOK, serving, process

(* So does the feed. *)
LEMMA FeedType == ASSUME TypeOK, Feed PROVE TypeOK'
<1>1. CASE ~halted /\ \E R \in SUBSET Queries : Commit(R) /\ UNCHANGED <<serving, process>>
  BY <1>1, CommitType
<1>2. CASE Advance /\ UNCHANGED <<serving, process>>
  <2>1. log' = log /\ advanced' = advanced + 1 /\ advanced' \in 0 .. Len(log)
    BY <1>2 DEF Advance, TypeOK, CursorTypeOK
  <2>2. version' \in [Queries -> 0 .. advanced']
    BY <1>2, <2>1 DEF Advance, TypeOK, CursorTypeOK
  <2>3. CursorTypeOK'
    BY <2>1, <2>2 DEF TypeOK, CursorTypeOK
  <2> QED
    BY <1>2, <2>1, <2>3 DEF TypeOK, serving, process, Request, Response, Body, CursorTypeOK
<1> QED
  BY <1>1, <1>2 DEF Feed

(* No step of a reader, of the cache or of the process leaves the types.   *)
LEMMA NextType == TypeOK /\ [Next]_vars => TypeOK'
<1> SUFFICES ASSUME TypeOK, [Next]_vars PROVE TypeOK'
  OBVIOUS
<1> USE DEF TypeOK, Request, Response, Body, Cursor, Cursors, Applied, Idle, Step, Goto
<1>1. CASE Feed
  BY <1>1, FeedType
<1>2. ASSUME NEW r \in Readers, Reader(r) PROVE TypeOK'
  <2> USE DEF CursorTypeOK, cvars, process
  <2>1. CASE \E q \in Queries : Start(r, q)
    BY <2>1, BoundsAssumption DEF Start
  <2>2. CASE ReadVersion(r)
    <3>1. req[r].q \in Queries /\ req[r].since \in Body
      BY <2>2 DEF ReadVersion
    <3>2. version[req[r].q] \in 0 .. MaxCommits
      BY <3>1, BoundsAssumption
    <3>3. req' \in [Readers -> Request]
      BY <2>2, <3>1, <3>2 DEF ReadVersion
    <3>4. Request' = Request /\ UNCHANGED <<cvars, cache, edge, got, process>>
      BY <2>2 DEF ReadVersion
    <3> QED
      BY <3>3, <3>4
  <2>3. CASE Lookup(r)
    BY <2>3 DEF Lookup
  <2>4. CASE Compute(r)
    <3>1. Len(log) \in 0 .. Len(log)
      OBVIOUS
    <3> QED
      BY <2>4, <3>1 DEF Compute
  <2>5. CASE ComputeFails(r)
    BY <2>5 DEF ComputeFails
  <2>6. CASE Insert(r)
    <3>1. req[r].q \in Queries /\ req[r].since \in Body /\ req[r].v \in 0 .. MaxCommits /\ req[r].at \in Body
      BY <2>6 DEF Insert
    <3>2. req' \in [Readers -> Request]
      BY <2>6, <3>1 DEF Insert
    <3>3. cache' \in [Cursors -> Body \cup {NoBody}]
      BY <2>6, <3>1 DEF Insert
    <3>4. UNCHANGED <<cvars, edge, got, process>>
      BY <2>6 DEF Insert
    <3> QED
      BY <3>2, <3>3, <3>4
  <2>7. CASE Fetch(r)
    <3>1. req[r].q \in Queries /\ Cursor(r) \in Cursors /\ cache[Cursor(r)] \in Body
      BY <2>7 DEF Fetch
    <3>2. got' \in [Readers -> Response \cup {NoBody}] /\ req' \in [Readers -> Request]
      BY <2>7, <3>1 DEF Fetch, Answer
    <3>3. edge' \in [Cursors -> Body \cup {NoBody}]
      BY <2>7, <3>1 DEF Fetch
    <3> QED
      BY <2>7, <3>2, <3>3 DEF Fetch
  <2>8. CASE NotFound(r)
    BY <2>8 DEF NotFound
  <2>9. CASE EdgeFetch(r)
    BY <2>9 DEF EdgeFetch, Answer
  <2> QED
    BY <1>2, <2>1, <2>2, <2>3, <2>4, <2>5, <2>6, <2>7, <2>8, <2>9 DEF Reader
<1>3. CASE \E k \in Cursors : Evict(k)
  BY <1>3 DEF Evict, CursorTypeOK, cvars, process
<1>4. CASE Halt
  BY <1>4 DEF Halt, CursorTypeOK, cvars, serving
<1>5. CASE Restart
  <2>1. log' = log /\ advanced' = Len(log) /\ Len(log) \in Nat
    BY <1>5 DEF Restart, CursorTypeOK
  <2>2. CursorTypeOK' /\ base' \in 0 .. advanced' /\ restarts' \in 0 .. MaxRestarts
    BY <1>5, <2>1, BoundsAssumption DEF Restart, CursorTypeOK
  <2>3. cache' \in [Cursors -> Body' \cup {NoBody}] /\ req' \in [Readers -> Request']
    BY <1>5 DEF Restart
  <2> QED
    BY <1>5, <2>1, <2>2, <2>3 DEF Restart
<1>6. CASE UNCHANGED vars
  BY <1>6 DEF vars, cvars, serving, process, CursorTypeOK
<1> QED
  BY <1>1, <1>2, <1>3, <1>4, <1>5, <1>6 DEF Next

(* Every reachable state is well typed: no cursor, body or answer names a  *)
(* version or a position the database has not reached.                     *)
THEOREM TypeCorrect == Spec => []TypeOK
BY InitType, NextType, PTL DEF Spec

-----------------------------------------------------------------------------
(* The strengthening holds initially: nothing is cached or asked for. *)
LEMMA InitInv == Init => IInv
<1> SUFFICES ASSUME Init PROVE IInv OBVIOUS
<1>1. TypeOK
  BY InitType
<1>2. CacheNotOlder /\ EdgeNotOlder /\ ResponseFresh
  BY DEF Init, CacheNotOlder, EdgeNotOlder, ResponseFresh
<1>3. VersionsCover /\ RequestsCover
  BY DEF Init, CursorInit, VersionsCover, Covers, RequestsCover, Idle, Step
<1> QED
  BY <1>1, <1>2, <1>3 DEF IInv

(* A commit adds a position no version, request or answer speaks of. *)
LEMMA CommitInv ==
  ASSUME IInv, NEW R \in SUBSET Queries, Commit(R), UNCHANGED <<serving, process>>
  PROVE  IInv'
<1> USE DEF IInv, serving, process
<1>1. TypeOK'
  BY CommitType
<1>2. /\ advanced' = advanced /\ version' = version /\ Len(log) \in Nat
      /\ advanced \in 0 .. Len(log)
      /\ \A n \in 1 .. Len(log) : log'[n] = log[n]
  BY DEF Commit, TypeOK, CursorTypeOK
<1>3. CacheNotOlder' /\ EdgeNotOlder'
  BY DEF CacheNotOlder, EdgeNotOlder, Cursors
<1>4. ASSUME NEW q, NEW v, NEW to \in 0 .. Len(log), Covers(q, v, to)
      PROVE  Covers(q, v, to)'
  BY <1>2, <1>4 DEF Covers
<1>5. VersionsCover'
  BY <1>2, <1>4 DEF VersionsCover
<1>6. RequestsCover'
  <2> SUFFICES ASSUME NEW r \in Readers, req[r].pc # "idle"
               PROVE  /\ req[r].since <= advanced
                      /\ req[r].pc # "version" =>
                            req[r].v <= advanced /\ Covers(req[r].q, req[r].v, req[r].since)'
                      /\ req[r].pc = "insert" => req[r].at >= req[r].v /\ req[r].at >= base
    BY <1>2 DEF RequestsCover, Covers
  <2>1. req[r].since \in 0 .. Len(log)
    BY DEF TypeOK, Request, Body, Idle, Step
  <2> QED
    BY <2>1, <1>4 DEF RequestsCover
<1>7. ResponseFresh'
  <2> SUFFICES ASSUME NEW r \in Readers, got[r] # NoBody
               PROVE  \A n \in (got[r].at + 1) .. got[r].since :
                          got[r].q \in log'[n] => n <= got[r].floor
    BY DEF ResponseFresh
  <2>1. got[r].since \in 0 .. Len(log) /\ got[r].at \in 0 .. Len(log)
    BY DEF TypeOK, Response, Body
  <2> QED
    BY <1>2, <2>1 DEF ResponseFresh
<1> QED
  BY <1>1, <1>3, <1>5, <1>6, <1>7

(* The feed delivers a commit: the cursors it had to move are moved. *)
LEMMA AdvanceInv ==
  ASSUME IInv, Advance, UNCHANGED <<serving, process>>
  PROVE  IInv'
<1> USE DEF IInv, serving, process
<1>1. TypeOK'
  BY FeedType DEF Feed
<1>2. log' = log /\ advanced' = advanced + 1 /\ advanced \in Nat
  BY DEF Advance, TypeOK, CursorTypeOK
<1>3. CacheNotOlder' /\ EdgeNotOlder' /\ ResponseFresh'
  BY <1>2 DEF CacheNotOlder, EdgeNotOlder, ResponseFresh, Cursors
<1>4. VersionsCover'
  <2> SUFFICES ASSUME NEW q \in Queries, NEW n \in 1 .. advanced + 1, q \in log[n]
               PROVE  n <= version'[q] \/ n <= base
    BY <1>2 DEF VersionsCover, Covers
  <2>1. version'[q] = version[q] \/ version'[q] = advanced + 1
    BY DEF Advance
  <2>2. n = advanced + 1 => version'[q] = advanced + 1
    BY DEF Advance
  <2>3. n # advanced + 1 => n <= version[q] \/ n <= base
    BY <1>2 DEF VersionsCover, Covers
  <2> QED
    BY <1>2, <2>1, <2>2, <2>3
<1>5. RequestsCover'
  <2> SUFFICES ASSUME NEW r \in Readers, req[r].pc # "idle"
               PROVE  /\ req[r].since <= advanced + 1
                      /\ req[r].pc # "version" =>
                            req[r].v <= advanced + 1 /\ Covers(req[r].q, req[r].v, req[r].since)
                      /\ req[r].pc = "insert" => req[r].at >= req[r].v /\ req[r].at >= base
    BY <1>2 DEF RequestsCover, Covers
  <2>1. req[r].since \in Nat /\ req[r].v \in Nat
    BY DEF TypeOK, Request, Body, Idle, Step
  <2> QED
    BY <1>2, <2>1 DEF RequestsCover
<1> QED
  BY <1>1, <1>3, <1>4, <1>5

(* A reader's step: the version is read under the index's lock, so it      *)
(* covers what the feed had delivered; the body is read after the version; *)
(* what is stored or handed out carries that on.                           *)
LEMMA ReaderInv ==
  ASSUME IInv, NEW r \in Readers, Reader(r)
  PROVE  IInv'
<1>1. TypeOK'
  BY NextType DEF Next, IInv
<1>2. TypeOK /\ UNCHANGED cvars /\ UNCHANGED process
  BY DEF IInv, Reader, Start, ReadVersion, Lookup, Compute, ComputeFails, Insert, Fetch,
         NotFound, EdgeFetch
<1>3. VersionsCover'
  BY <1>2 DEF IInv, VersionsCover, Covers, cvars, process
<1> DEFINE Sound(x) ==
      x.pc # "idle" =>
        /\ x.since <= advanced
        /\ x.pc # "version" => x.v <= advanced /\ Covers(x.q, x.v, x.since)
        /\ x.pc = "insert" => x.at >= x.v /\ x.at >= base
<1>4. Sound(Idle) /\ \A s \in Readers : Sound(req[s])
  BY DEF IInv, RequestsCover, Idle, Step
<1>5. RequestsCover' <=> \A s \in Readers : Sound(req'[s])
  BY <1>2 DEF RequestsCover, Covers, cvars, process
<1>6. ASSUME NEW x, Sound(x), req' = [req EXCEPT ![r] = x]
      PROVE  RequestsCover'
  <2>1. \A s \in Readers : req'[s] = x \/ req'[s] = req[s]
    BY <1>2, <1>6 DEF TypeOK
  <2> QED
    BY <1>4, <1>5, <1>6, <2>1
<1>7. /\ UNCHANGED cache => CacheNotOlder'
      /\ UNCHANGED edge => EdgeNotOlder'
      /\ UNCHANGED got => ResponseFresh'
  BY <1>2 DEF IInv, CacheNotOlder, EdgeNotOlder, ResponseFresh, cvars, process, Cursors
<1>8. req[r].pc # "idle" =>
        /\ req[r].q \in Queries /\ req[r].since \in 0 .. Len(log)
        /\ req[r].v \in 0 .. MaxCommits /\ req[r].at \in 0 .. Len(log)
        /\ Cursor(r) \in Cursors
  BY <1>2 DEF TypeOK, Request, Body, Idle, Step, Cursor, Cursors
<1>9. advanced \in Nat /\ Len(log) \in Nat /\ base \in Nat /\ base <= advanced /\ advanced <= Len(log)
  BY <1>2 DEF TypeOK, CursorTypeOK
<1>10. CASE \E q \in Queries : Start(r, q)
  <2>1. PICK q \in Queries : Start(r, q)
    BY <1>10
  <2>2. Sound(Step("version", q, advanced, 0, 0))
    BY <1>9 DEF Step
  <2>3. RequestsCover'
    BY <1>6, <2>1, <2>2 DEF Start
  <2>4. ResponseFresh'
    BY <1>2, <2>1 DEF Start, IInv, ResponseFresh, TypeOK, cvars
  <2> QED
    BY <1>1, <1>3, <1>7, <2>1, <2>3, <2>4 DEF IInv, Start
<1>11. CASE ReadVersion(r)
  <2>1. /\ version[req[r].q] \in 0 .. advanced
        /\ Covers(req[r].q, version[req[r].q], advanced)
    BY <1>2, <1>8, <1>11 DEF ReadVersion, IInv, VersionsCover, TypeOK, CursorTypeOK
  <2>2. req[r].since <= advanced
    BY <1>4, <1>11 DEF ReadVersion
  <2>3. Sound(Step("lookup", req[r].q, req[r].since, version[req[r].q], 0))
    BY <1>8, <1>9, <1>11, <2>1, <2>2 DEF ReadVersion, Covers, Step
  <2>4. RequestsCover'
    BY <1>6, <1>11, <2>3 DEF ReadVersion, Goto
  <2> QED
    BY <1>1, <1>3, <1>7, <1>11, <2>4 DEF IInv, ReadVersion
<1>12. CASE Lookup(r)
  <2>1. \A pc \in {"redirect", "compute"} : Sound(Step(pc, req[r].q, req[r].since, req[r].v, 0))
    BY <1>4, <1>12 DEF Lookup, Step
  <2>2. RequestsCover'
    BY <1>6, <1>12, <2>1 DEF Lookup, Goto
  <2> QED
    BY <1>1, <1>3, <1>7, <1>12, <2>2 DEF IInv, Lookup
<1>13. CASE Compute(r)
  <2>1. Sound(Step("insert", req[r].q, req[r].since, req[r].v, Applied))
    BY <1>4, <1>8, <1>9, <1>13 DEF Compute, Step, Applied
  <2>2. RequestsCover'
    BY <1>6, <1>13, <2>1 DEF Compute, Goto
  <2> QED
    BY <1>1, <1>3, <1>7, <1>13, <2>2 DEF IInv, Compute
<1>14. CASE ComputeFails(r)
  <2>1. RequestsCover'
    BY <1>4, <1>6, <1>14 DEF ComputeFails
  <2> QED
    BY <1>1, <1>3, <1>7, <1>14, <2>1 DEF IInv, ComputeFails
<1>15. CASE Insert(r)
  <2>1. Sound(Step("redirect", req[r].q, req[r].since, req[r].v, 0))
    BY <1>4, <1>15 DEF Insert, Step
  <2>2. RequestsCover'
    BY <1>6, <1>15, <2>1 DEF Insert, Goto
  <2>3. CacheNotOlder'
    <3>1. req[r].at >= Cursor(r)[2] /\ req[r].at >= base
      BY <1>4, <1>15 DEF Insert, Cursor
    <3>2. \A k \in Cursors : cache'[k] = cache[k] \/ (k = Cursor(r) /\ cache'[k] = req[r].at)
      BY <1>2, <1>15 DEF Insert, TypeOK
    <3> QED
      BY <1>2, <3>1, <3>2 DEF IInv, CacheNotOlder, Cursors, process
  <2> QED
    BY <1>1, <1>3, <1>7, <1>15, <2>2, <2>3 DEF IInv, Insert
<1>16. ASSUME NEW body \in 0 .. Len(log), NEW floor, req[r].pc = "redirect",
              Answer(r, body, floor), body >= req[r].v, body >= base \/ floor = base
       PROVE  RequestsCover' /\ ResponseFresh'
  <2>1. RequestsCover'
    BY <1>4, <1>6, <1>16 DEF Answer
  <2>2. \A n \in (body + 1) .. req[r].since : req[r].q \in log[n] => n <= floor
    BY <1>4, <1>8, <1>9, <1>16 DEF Covers
  <2>3. \A s \in Readers :
           \/ got'[s] = got[s]
           \/ /\ got'[s].q = req[r].q /\ got'[s].at = body
              /\ got'[s].since = req[r].since /\ got'[s].floor = floor
    BY <1>2, <1>16 DEF Answer, TypeOK
  <2>4. ResponseFresh'
    BY <1>2, <2>2, <2>3 DEF IInv, ResponseFresh, cvars
  <2> QED
    BY <2>1, <2>4
<1>17. CASE Fetch(r)
  <2>1. cache[Cursor(r)] \in 0 .. Len(log) /\ cache[Cursor(r)] >= req[r].v /\ cache[Cursor(r)] >= base
    BY <1>2, <1>8, <1>17 DEF Fetch, IInv, CacheNotOlder, TypeOK, Body, Cursor
  <2>2. RequestsCover' /\ ResponseFresh'
    BY <1>16, <1>17, <2>1 DEF Fetch
  <2>3. EdgeNotOlder'
    <3>1. \A k \in Cursors : \/ edge'[k] = edge[k]
                             \/ k = Cursor(r) /\ edge'[k] = cache[Cursor(r)]
      BY <1>2, <1>17 DEF Fetch, TypeOK
    <3> QED
      BY <2>1, <3>1 DEF IInv, EdgeNotOlder, Cursor, Cursors
  <2> QED
    BY <1>1, <1>3, <1>7, <1>17, <2>2, <2>3 DEF IInv, Fetch
<1>18. CASE NotFound(r)
  <2>1. RequestsCover'
    BY <1>4, <1>6, <1>18 DEF NotFound
  <2> QED
    BY <1>1, <1>3, <1>7, <1>18, <2>1 DEF IInv, NotFound
<1>19. CASE EdgeFetch(r)
  <2>1. edge[Cursor(r)] \in 0 .. Len(log) /\ edge[Cursor(r)] >= req[r].v
    BY <1>2, <1>8, <1>19 DEF EdgeFetch, IInv, EdgeNotOlder, TypeOK, Body, Cursor
  <2>3. RequestsCover' /\ ResponseFresh'
    BY <1>16, <1>19, <2>1 DEF EdgeFetch
  <2> QED
    BY <1>1, <1>3, <1>7, <1>19, <2>3 DEF IInv, EdgeFetch
<1> QED
  BY <1>10, <1>11, <1>12, <1>13, <1>14, <1>15, <1>17, <1>18, <1>19 DEF Reader

(* Every step keeps the strengthening. *)
LEMMA NextInv ==
  IInv /\ [Next]_vars => IInv'
<1> SUFFICES ASSUME IInv, [Next]_vars PROVE IInv'
  OBVIOUS
<1>1. TypeOK /\ TypeOK'
  BY NextType DEF IInv
<1>2. CASE Feed
  BY <1>2, CommitInv, AdvanceInv DEF Feed
<1>3. CASE \E r \in Readers : Reader(r)
  BY <1>3, ReaderInv
<1>4. CASE \E k \in Cursors : Evict(k)
  BY <1>1, <1>4 DEF Evict, IInv, TypeOK, CacheNotOlder, ResponseFresh, VersionsCover, RequestsCover,
                    EdgeNotOlder, Covers, Cursors, cvars, process
<1>5. CASE Halt
  BY <1>1, <1>5 DEF Halt, IInv, CacheNotOlder, ResponseFresh, VersionsCover, RequestsCover,
                    EdgeNotOlder, Covers, Cursors, cvars, serving
<1>6. CASE Restart
  <2>1. Len(log) \in Nat /\ restarts \in Nat
    BY <1>1 DEF TypeOK, CursorTypeOK
  <2>2. CacheNotOlder' /\ VersionsCover' /\ RequestsCover'
    BY <1>6, <2>1 DEF Restart, CacheNotOlder, VersionsCover, RequestsCover, Covers, Applied, Idle, Step, Cursors
  <2>3. ResponseFresh' /\ EdgeNotOlder'
    BY <1>6, <2>1 DEF Restart, IInv, ResponseFresh, EdgeNotOlder, Cursors
  <2> QED
    BY <1>1, <2>2, <2>3 DEF IInv
<1>7. CASE UNCHANGED vars
  BY <1>1, <1>7 DEF vars, IInv, CacheNotOlder, ResponseFresh, VersionsCover, RequestsCover,
                    EdgeNotOlder, Covers, Cursors, cvars, serving, process
<1> QED
  BY <1>2, <1>3, <1>4, <1>5, <1>6, <1>7 DEF Next

(* For every number of readers, queries, commits and restarts, an answer   *)
(* of the snapshot path shows every commit the feed had delivered when the *)
(* request began, across evictions and overwritten cache entries; one that *)
(* a shared cache gives, every such commit since the process started.      *)
THEOREM FreshResponses ==
  Spec => []ResponseFresh
<1>1. IInv => ResponseFresh
  BY DEF IInv
<1> QED
  BY InitInv, NextInv, <1>1, PTL DEF Spec

(* The cache never files a body under a version   *)
(* newer than the body, nor keeps one from before the process started.     *)
THEOREM CacheEntriesNotOlder ==
  Spec => []CacheNotOlder
<1>1. IInv => CacheNotOlder
  BY DEF IInv
<1> QED
  BY InitInv, NextInv, <1>1, PTL DEF Spec

-----------------------------------------------------------------------------
(* Streams *)

(* Why a stream starts fresh: its version covers what the feed had         *)
(* delivered when it was asked for, and its bodies are as new as that      *)
(* version.                                                                *)
CoversSince(s) ==
    live[s].pc # "waiting" =>
        /\ live[s].since <= advanced
        /\ live[s].pc # "version" =>
              live[s].v <= advanced /\ Covers(Live, live[s].v, live[s].since)
        /\ live[s].pc \in {"insert", "snapshot", "open"} => live[s].at >= live[s].v
        /\ live[s].pc = "open" => live[s].from >= live[s].v

(* Why a stream follows.  The result changes only with a commit that       *)
(* concerns the query.                                                     *)
ResultKept ==
    \A m \in Body : \A n \in m .. Applied :
        (\A i \in m + 1 .. n : Live \notin log[i]) => Result(m) = Result(n)

(* A view that reads `cycles` goes from first to last. *)
Leads(first, cycles, last) ==
    \E views \in [1 .. Len(cycles) + 1 -> Results] :
        /\ views[1] = first
        /\ \A i \in 1 .. Len(cycles) : ApplyDeltas(views[i], cycles[i]) = views[i + 1]
        /\ views[Len(cycles) + 1] = last

(* What is on the wire leads to what the hub holds. *)
InStep(s) ==
    /\ live[s].pc = "snapshot" => Leads(Result(live[s].at), live[s].wire, Result(live[s].last))
    /\ live[s].pc = "open" /\ SameStart(s) => Leads(live[s].view, live[s].wire, Result(live[s].last))

(* Once a stream has been queried again, a commit it lacks is a job. *)
NextIsDue(s) ==
    live[s].wire # <<>> \/ live[s].told =>
        \A n \in live[s].last + 1 .. handled : Live \in log[n] => s \in jobs

(* A connection that is not in the hub has no cycles. *)
QuietUntilRegistered(s) ==
    s \notin Registered => live[s].wire = <<>> /\ ~live[s].told

(* A client that was handed a body shows a result. *)
Shown(s) == live[s].pc = "open" => live[s].view \in Results

StreamInv(s) ==
    CoversSince(s) /\ InStep(s) /\ NextIsDue(s) /\ QuietUntilRegistered(s) /\ Shown(s)

LiveInv ==
    /\ LiveTypeOK /\ IInv /\ base = 0
    /\ ResultKept
    /\ \A s \in Subscribers : StreamInv(s)

-----------------------------------------------------------------------------
(* A result is a map, and a cycle of deltas turns one result into another. *)
Deltas == SUBSET [op : {"insert", "update", "delete"}, key : Keys, row : Rows]

LEMMA ResultShape ==
  ASSUME NEW res
  PROVE  res \in Results <=> DOMAIN res \subseteq Keys /\ res \in [DOMAIN res -> Rows]
BY DEF Results

LEMMA DiffIsDeltas ==
  ASSUME NEW prev \in Results, NEW next \in Results
  PROVE  Diff(prev, next) \in Deltas
<1>1. /\ DOMAIN prev \subseteq Keys /\ \A k \in DOMAIN prev : prev[k] \in Rows
      /\ DOMAIN next \subseteq Keys /\ \A k \in DOMAIN next : next[k] \in Rows
  BY ResultShape
<1> QED
  BY <1>1 DEF Diff, Deltas

LEMMA ApplyIsResult ==
  ASSUME NEW view \in Results, NEW deltas \in Deltas
  PROVE  ApplyDeltas(view, deltas) \in Results
<1> DEFINE ups == KeysOf(Upserts(deltas))
           D == (DOMAIN view \cup ups) \ KeysOf(Deletes(deltas))
           f == [k \in D |-> IF k \in ups THEN (CHOOSE d \in Upserts(deltas) : d.key = k).row ELSE view[k]]
<1>1. DOMAIN view \subseteq Keys /\ \A k \in DOMAIN view : view[k] \in Rows
  BY ResultShape
<1>2. \A d \in Upserts(deltas) : d.key \in Keys /\ d.row \in Rows
  BY DEF Upserts, Deltas
<1>3. \A k \in ups : \E d \in Upserts(deltas) : d.key = k
  BY DEF KeysOf
<1>4. ASSUME NEW k \in ups PROVE (CHOOSE d \in Upserts(deltas) : d.key = k).row \in Rows /\ k \in Keys
  BY <1>2, <1>3
<1>5. D \subseteq Keys /\ \A k \in D : f[k] \in Rows
  BY <1>1, <1>4
<1>6. f \in [D -> Rows]
  BY <1>5
<1>7. f \in Results
  BY <1>5, <1>6 DEF Results
<1> QED
  BY <1>7 DEF ApplyDeltas

LEMMA ResultIsMap ==
  ASSUME NEW res \in Results
  PROVE  IsMap(res)
BY ResultShape DEF IsMap

LEMMA LeadsNowhere ==
  ASSUME NEW first \in Results
  PROVE  Leads(first, <<>>, first)
<1> DEFINE views == [i \in 1 .. 1 |-> first]
<1>1. Len(<<>>) = 0 /\ 1 .. Len(<<>>) = {} /\ 1 .. Len(<<>>) + 1 = 1 .. 1
  OBVIOUS
<1>2. views \in [1 .. Len(<<>>) + 1 -> Results] /\ views[1] = first
  BY <1>1
<1> HIDE DEF views
<1> QED
  BY <1>1, <1>2 DEF Leads

LEMMA LeadsNowhereOnly ==
  ASSUME NEW first, NEW last, Leads(first, <<>>, last)
  PROVE  first = last
BY DEF Leads

(* A cycle that is put behind the others leads on to the next result. *)
LEMMA LeadsOn ==
  ASSUME NEW S, NEW cycles \in Seq(S), NEW first, NEW last, NEW next \in Results,
         Leads(first, cycles, last)
  PROVE  Leads(first, Append(cycles, Diff(last, next)), next)
<1> DEFINE n == Len(cycles)
           more == Append(cycles, Diff(last, next))
<1>1. n \in Nat /\ Len(more) = n + 1 /\ more[n + 1] = Diff(last, next)
      /\ \A i \in 1 .. n : more[i] = cycles[i]
  OBVIOUS
<1>2. PICK views \in [1 .. n + 1 -> Results] :
        /\ views[1] = first
        /\ \A i \in 1 .. n : ApplyDeltas(views[i], cycles[i]) = views[i + 1]
        /\ views[n + 1] = last
  BY DEF Leads
<1> DEFINE longer == [i \in 1 .. (n + 1) + 1 |-> IF i = n + 2 THEN next ELSE views[i]]
<1> HIDE DEF n, more
<1>3. longer \in [1 .. (n + 1) + 1 -> Results] /\ longer[n + 2] = next
      /\ \A i \in 1 .. n + 1 : longer[i] = views[i]
  BY <1>1, <1>2
<1>4. ApplyDeltas(last, Diff(last, next)) = next
  BY DiffLeadsToNext, ResultIsMap
<1> HIDE DEF longer
<1>5. ASSUME NEW i \in 1 .. n + 1 PROVE ApplyDeltas(longer[i], more[i]) = longer[i + 1]
  <2>1. CASE i = n + 1
    <3>1. longer[i] = last /\ more[i] = Diff(last, next) /\ longer[i + 1] = next
      BY <1>1, <1>2, <1>3, <2>1
    <3> QED
      BY <1>4, <3>1
  <2>2. CASE i # n + 1
    <3>1. i \in 1 .. n /\ i + 1 \in 1 .. n + 1
      BY <1>1, <2>2
    <3>2. longer[i] = views[i] /\ more[i] = cycles[i] /\ longer[i + 1] = views[i + 1]
      BY <1>1, <1>3, <3>1
    <3> QED
      BY <1>2, <3>1, <3>2
  <2> QED
    BY <2>1, <2>2
<1>6. /\ longer \in [1 .. Len(more) + 1 -> Results] /\ longer[1] = first
      /\ \A i \in 1 .. Len(more) : ApplyDeltas(longer[i], more[i]) = longer[i + 1]
      /\ longer[Len(more) + 1] = next
  BY <1>1, <1>2, <1>3, <1>5
<1>7. Leads(first, more, next)
  BY <1>6 DEF Leads
<1> QED
  BY <1>7 DEF more

(* A view that has read the first cycle goes on from there. *)
LEMMA LeadsFrom ==
  ASSUME NEW S, NEW cycles \in Seq(S), cycles # <<>>, NEW first, NEW last, Leads(first, cycles, last)
  PROVE  Leads(ApplyDeltas(first, Head(cycles)), Tail(cycles), last)
<1> DEFINE n == Len(cycles)
           rest == Tail(cycles)
<1>1. n \in Nat \ {0} /\ Len(rest) = n - 1 /\ Head(cycles) = cycles[1]
      /\ \A i \in 1 .. n - 1 : rest[i] = cycles[i + 1]
  OBVIOUS
<1>2. PICK views \in [1 .. n + 1 -> Results] :
        /\ views[1] = first
        /\ \A i \in 1 .. n : ApplyDeltas(views[i], cycles[i]) = views[i + 1]
        /\ views[n + 1] = last
  BY DEF Leads
<1> DEFINE later == [i \in 1 .. (n - 1) + 1 |-> views[i + 1]]
<1> HIDE DEF n, rest
<1>3. \A i \in 1 .. (n - 1) + 1 : i \in 1 .. n /\ i + 1 \in 1 .. n + 1
  BY <1>1
<1>4. later \in [1 .. (n - 1) + 1 -> Results] /\ \A i \in 1 .. (n - 1) + 1 : later[i] = views[i + 1]
  BY <1>2, <1>3
<1> HIDE DEF later
<1>5. later[1] = ApplyDeltas(first, Head(cycles)) /\ later[(n - 1) + 1] = last
  <2>1. 1 \in 1 .. (n - 1) + 1 /\ (n - 1) + 1 \in 1 .. (n - 1) + 1 /\ 1 \in 1 .. n
    BY <1>1
  <2>2. later[1] = views[1 + 1] /\ later[(n - 1) + 1] = views[((n - 1) + 1) + 1]
    BY <1>4, <2>1
  <2>3. ((n - 1) + 1) + 1 = n + 1
    BY <1>1
  <2>4. views[1 + 1] = ApplyDeltas(first, cycles[1])
    BY <1>2, <2>1
  <2> QED
    BY <1>1, <1>2, <2>2, <2>3, <2>4
<1>6. ASSUME NEW i \in 1 .. n - 1 PROVE ApplyDeltas(later[i], rest[i]) = later[i + 1]
  <2>1. i \in 1 .. (n - 1) + 1 /\ i + 1 \in 1 .. (n - 1) + 1 /\ i + 1 \in 1 .. n
    BY <1>1
  <2>2. later[i] = views[i + 1] /\ later[i + 1] = views[(i + 1) + 1] /\ rest[i] = cycles[i + 1]
    BY <1>1, <1>4, <2>1
  <2> QED
    BY <1>2, <2>1, <2>2
<1>7. Leads(ApplyDeltas(first, Head(cycles)), rest, last)
  BY <1>1, <1>4, <1>5, <1>6 DEF Leads
<1> QED
  BY <1>7 DEF rest

-----------------------------------------------------------------------------
(* Streams leave the cache, the index and the plain readers as sound as    *)
(* QuerySnapshots has them.                                                *)
LEMMA LeaveInv ==
  ASSUME IInv, NEW r \in Readers, Leave(r)
  PROVE  IInv'
<1>1. /\ TypeOK /\ UNCHANGED <<cvars, cache, edge, got, process>>
      /\ req' = [req EXCEPT ![r] = Idle] /\ Idle \in Request
  BY DEF IInv, Leave, Request
<1>2. TypeOK'
  BY <1>1 DEF TypeOK, CursorTypeOK, cvars, process, Request, Response, Body, Cursors
<1>3. VersionsCover' /\ CacheNotOlder' /\ EdgeNotOlder' /\ ResponseFresh'
  BY <1>1 DEF IInv, VersionsCover, Covers, CacheNotOlder, EdgeNotOlder, ResponseFresh, cvars, process, Cursors
<1>4. RequestsCover'
  <2>1. \A s \in Readers : req'[s] = req[s] \/ req'[s].pc = "idle"
    BY <1>1 DEF TypeOK, Idle, Step
  <2> QED
    BY <1>1, <2>1 DEF IInv, RequestsCover, Covers, cvars, process
<1> QED
  BY <1>2, <1>3, <1>4 DEF IInv

LEMMA LiveInsertInv ==
  ASSUME LiveInv, NEW s \in Subscribers, LiveInsert(s)
  PROVE  IInv'
<1>1. /\ TypeOK /\ UNCHANGED <<cvars, edge, req, got, process>>
      /\ cache' = [cache EXCEPT ![Pointer(s)] = live[s].at]
  BY DEF LiveInv, IInv, LiveInsert
<1>2. live[s] \in Connection /\ live[s].pc = "insert" /\ CoversSince(s)
  BY DEF LiveInv, LiveTypeOK, LiveInsert, StreamInv
<1>3. live[s].at \in Body /\ live[s].v \in 0 .. MaxCommits /\ live[s].at >= live[s].v
  BY <1>2 DEF Connection, CoversSince
<1>4. Pointer(s) \in Cursors /\ Pointer(s)[2] = live[s].v
  BY <1>3, LiveAssumption DEF Pointer, Cursors
<1>5. TypeOK'
  BY <1>1, <1>3, <1>4 DEF TypeOK, CursorTypeOK, cvars, process, Request, Response, Body, Cursors
<1>6. VersionsCover' /\ EdgeNotOlder' /\ ResponseFresh' /\ RequestsCover'
  BY <1>1 DEF LiveInv, IInv, VersionsCover, Covers, EdgeNotOlder, ResponseFresh, RequestsCover, cvars, process, Cursors
<1>7. CacheNotOlder'
  <2>1. \A k \in Cursors : cache'[k] = cache[k] \/ (k = Pointer(s) /\ cache'[k] = live[s].at)
    BY <1>1 DEF TypeOK
  <2>2. base = 0 /\ base' = 0 /\ live[s].at \in Nat
    BY <1>1, <1>3 DEF LiveInv, process, Body
  <2> QED
    BY <1>3, <1>4, <2>1, <2>2 DEF LiveInv, IInv, CacheNotOlder, Cursors
<1> QED
  BY <1>5, <1>6, <1>7 DEF IInv

LEMMA NodeKeeps ==
  ASSUME LiveInv, [LiveNext]_lvars
  PROVE  IInv' /\ base' = 0
<1>0. IInv /\ base = 0
  BY DEF LiveInv
<1>1. CASE UNCHANGED vars
  BY <1>0, <1>1, NextInv DEF vars, process
<1>2. ASSUME NEW r \in Readers, PlainReader(r) PROVE IInv' /\ base' = 0
  <2>1. CASE Leave(r)
    BY <1>0, <2>1, LeaveInv DEF Leave, process
  <2>2. CASE Reader(r)
    <3>1. base' = base
      BY <2>2 DEF Reader, Start, ReadVersion, Lookup, Compute, ComputeFails, Insert, Fetch, NotFound, EdgeFetch, process
    <3> QED
      BY <1>0, <2>2, <3>1, ReaderInv
  <2> QED
    BY <1>2, <2>1, <2>2, LiveAssumption DEF PlainReader, Reader
<1>3. ASSUME NEW k \in Cursors, Evict(k) PROVE IInv' /\ base' = 0
  BY <1>0, <1>3, NextInv DEF Next, Evict, process
<1>4. CASE Advance /\ UNCHANGED <<serving, process>>
  BY <1>0, <1>4, AdvanceInv DEF process
<1>5. CASE Write
  BY <1>0, <1>5, CommitInv DEF Write, process
<1>6. CASE Take
  BY <1>1, <1>6 DEF Take
<1>7. ASSUME NEW s \in Subscribers, Requery(s) \/ Subscriber(s) PROVE IInv' /\ base' = 0
  <2>1. CASE LiveInsert(s)
    BY <1>0, <2>1, LiveInsertInv DEF LiveInsert, process
  <2>2. CASE ~LiveInsert(s)
    BY <1>1, <1>7, <2>2 DEF Requery, Subscriber, Subscribe, LiveVersion, LiveHit, LiveMiss, LiveCompute,
                            LiveFetch, LiveNotFound, Break, Close, Follow
  <2> QED
    BY <2>1, <2>2
<1> QED
  BY <1>1, <1>2, <1>3, <1>4, <1>5, <1>6, <1>7 DEF LiveNext, Snapshots, lvars

-----------------------------------------------------------------------------
(* Positions only grow, and what a position holds stays. *)
Grows ==
    /\ Len(log) \in Nat /\ Len(log') \in Nat /\ Len(log) <= Len(log')
    /\ \A n \in 1 .. Len(log) : log'[n] = log[n]
    /\ \A n \in 0 .. Len(log) : results'[n + 1] = results[n + 1]
    /\ advanced \in 0 .. Len(log) /\ advanced' \in 0 .. Len(log') /\ advanced <= advanced'
    /\ handled \in 0 .. advanced /\ handled' \in 0 .. advanced /\ handled <= handled'
    /\ base = 0 /\ base' = 0

LEMMA StepGrows ==
  ASSUME LiveInv, [LiveNext]_lvars
  PROVE  Grows /\ results' \in Seq(Results) /\ Len(results') = Len(log') + 1
<1>0. /\ Len(log) \in Nat /\ log \in Seq(SUBSET Queries) /\ advanced \in 0 .. Len(log)
      /\ handled \in 0 .. advanced /\ results \in Seq(Results) /\ Len(results) = Len(log) + 1
      /\ base = 0 /\ base' = 0
  BY NodeKeeps DEF LiveInv, LiveTypeOK, TypeOK, CursorTypeOK
<1>1. CASE UNCHANGED <<log, results, advanced, handled>>
  BY <1>0, <1>1 DEF Grows
<1>2. ASSUME NEW r \in Readers, PlainReader(r) PROVE UNCHANGED cvars
  BY <1>2 DEF PlainReader, Start, ReadVersion, Lookup, Compute, ComputeFails, Insert, Leave
<1>3. CASE Advance /\ UNCHANGED <<hub, live>>
  BY <1>0, <1>3 DEF Advance, hub, Grows
<1>4. CASE Write
  <2>1. PICK R \in SUBSET Queries, res \in Results : Commit(R) /\ results' = Append(results, res)
    BY <1>4 DEF Write
  <2>2. log' = Append(log, R) /\ advanced' = advanced /\ handled' = handled
    BY <1>4, <2>1 DEF Write, Commit
  <2>3. Len(log') = Len(log) + 1 /\ \A n \in 1 .. Len(log) : log'[n] = log[n]
    BY <1>0, <2>2
  <2>4. /\ results' \in Seq(Results) /\ Len(results') = Len(results) + 1
        /\ \A n \in 1 .. Len(results) : results'[n] = results[n]
    BY <1>0, <2>1
  <2>5. \A n \in 0 .. Len(log) : results'[n + 1] = results[n + 1]
    BY <1>0, <2>4
  <2> QED
    BY <1>0, <2>2, <2>3, <2>4, <2>5 DEF Grows
<1>5. CASE Take
  <2>1. UNCHANGED <<log, advanced, results>> /\ handled < advanced /\ handled' = handled + 1
    BY <1>5 DEF Take, vars, cvars
  <2> QED
    BY <1>0, <2>1 DEF Grows
<1>6. ASSUME NEW s \in Subscribers, Requery(s) \/ Subscriber(s)
      PROVE  UNCHANGED <<log, results, advanced, handled>>
  BY <1>6 DEF Requery, Subscriber, Subscribe, LiveVersion, LiveHit, LiveMiss, LiveCompute, LiveInsert,
              LiveFetch, LiveNotFound, Break, Close, Follow, vars, cvars, hub
<1>7. ASSUME NEW k \in Cursors, Evict(k) PROVE UNCHANGED cvars
  BY <1>7 DEF Evict
<1> QED
  BY <1>1, <1>2, <1>3, <1>4, <1>5, <1>6, <1>7 DEF LiveNext, Snapshots, lvars, vars, cvars, hub

(* The result changes only with a commit that concerns the query. *)
LEMMA ResultKeeps ==
  ASSUME LiveInv, [LiveNext]_lvars
  PROVE  ResultKept'
<1>0. Grows /\ ResultKept /\ results \in Seq(Results) /\ Len(results) = Len(log) + 1
  BY StepGrows DEF LiveInv, LiveTypeOK
<1>1. CASE UNCHANGED <<log, results>>
  BY <1>0, <1>1 DEF ResultKept, Result, Body, Applied
<1>2. CASE Write
  <2>1. PICK R \in SUBSET Queries, res \in Results :
           (Live \in R <=> res # Now) /\ Commit(R) /\ results' = Append(results, res)
    BY <1>2 DEF Write
  <2>2. log' = Append(log, R) /\ Len(log) \in Nat /\ log \in Seq(SUBSET Queries)
    BY <1>0, <2>1 DEF Commit, LiveInv, LiveTypeOK, TypeOK, CursorTypeOK
  <2> DEFINE N == Len(log)
  <2>3. Len(log') = N + 1 /\ log'[N + 1] = R /\ results'[(N + 1) + 1] = res /\ Now = results[N + 1]
    BY <1>0, <2>1, <2>2 DEF Now, Result, Applied
  <2>4. SUFFICES ASSUME NEW m \in 0 .. N + 1, NEW n \in m .. N + 1,
                        \A i \in m + 1 .. n : Live \notin log'[i]
                 PROVE  results'[m + 1] = results'[n + 1]
    BY <2>2, <2>3 DEF ResultKept, Body, Applied, Result
  <2>5. \A j \in 0 .. N : results'[j + 1] = results[j + 1]
    BY <1>0 DEF Grows
  <2>6. \A j \in 1 .. N : log'[j] = log[j]
    BY <1>0 DEF Grows
  <2>7. ASSUME NEW k \in m .. N, k <= n PROVE results[m + 1] = results[k + 1]
    <3>1. \A i \in m + 1 .. k : Live \notin log[i]
      <4>1. \A i \in m + 1 .. k : i \in m + 1 .. n /\ i \in 1 .. N
        BY <2>2, <2>4, <2>7
      <4> QED
        BY <2>4, <2>6, <4>1
    <3>2. m \in 0 .. N
      BY <2>2, <2>7
    <3> QED
      BY <1>0, <2>7, <3>1, <3>2 DEF ResultKept, Body, Applied, Result
  <2>8. CASE n <= N
    <3>1. m \in 0 .. N /\ n \in 0 .. N /\ n \in m .. N /\ n <= n
      BY <2>2, <2>4, <2>8
    <3> QED
      BY <2>5, <2>7, <3>1
  <2>9. CASE n = N + 1 /\ m = N + 1
    BY <2>9
  <2>10. CASE n = N + 1 /\ m <= N
    <3>1. N \in m .. N /\ N <= n /\ m \in 0 .. N /\ N + 1 \in m + 1 .. n
      BY <2>2, <2>4, <2>10
    <3>2. Live \notin R
      BY <2>3, <2>4, <3>1
    <3>3. res = results[N + 1]
      BY <2>1, <2>3, <3>2
    <3> QED
      BY <2>3, <2>5, <2>7, <2>10, <3>1, <3>3
  <2> QED
    BY <2>2, <2>4, <2>8, <2>9, <2>10
<1>3. [LiveNext]_lvars => Write \/ UNCHANGED <<log, results>>
  BY DEF LiveNext, Snapshots, PlainReader, Start, ReadVersion, Lookup, Compute, ComputeFails, Insert, Leave,
     Evict, Advance, Take, Requery, Subscriber, Subscribe, LiveVersion, LiveHit, LiveMiss, LiveCompute, LiveInsert,
     LiveFetch, LiveNotFound, Break, Close, Follow, lvars, vars, cvars, hub
<1> QED
  BY <1>1, <1>2, <1>3

LEMMA ConnectionTyped ==
  ASSUME LiveInv, NEW s \in Subscribers
  PROVE  /\ live[s] \in Connection
         /\ live[s].since \in 0 .. Len(log) /\ live[s].v \in 0 .. MaxCommits
         /\ live[s].at \in 0 .. Len(log) /\ live[s].last \in 0 .. Len(log) /\ live[s].from \in 0 .. Len(log)
         /\ live[s].view \in Results \cup {NoView} /\ live[s].wire \in Seq(Deltas)
<1>1. live[s] \in Connection
  BY DEF LiveInv, LiveTypeOK
<1> QED
  BY <1>1 DEF Connection, Deltas, Body

(* A connection that does not take part in a step stays sound, as long as  *)
(* its jobs stay and the commits the hub takes become jobs.                *)
LEMMA BystanderKeeps ==
  ASSUME LiveInv, Grows, NEW t \in Subscribers, live'[t] = live[t], t \in jobs => t \in jobs',
         \A n \in handled + 1 .. handled' : t \in Registered /\ Live \in log[n] => t \in jobs'
  PROVE  StreamInv(t)'
<1>1. /\ live[t].since \in 0 .. Len(log) /\ live[t].v \in 0 .. MaxCommits
      /\ live[t].at \in 0 .. Len(log) /\ live[t].last \in 0 .. Len(log) /\ live[t].from \in 0 .. Len(log)
  BY ConnectionTyped
<1>2. StreamInv(t) /\ MaxCommits \in Nat
  BY BoundsAssumption DEF LiveInv
<1>3. t \in Registered' <=> t \in Registered
  BY DEF Registered
<1>4. CoversSince(t)'
  <2>1. Covers(Live, live[t].v, live[t].since) => Covers(Live, live[t].v, live[t].since)'
    <3>1. \A n \in 1 .. live[t].since : n \in 1 .. Len(log) /\ log'[n] = log[n]
      BY <1>1 DEF Grows
    <3> QED
      BY <3>1 DEF Covers, Grows
  <2>2. advanced \in Nat /\ advanced' \in Nat /\ advanced <= advanced' /\ live[t].since \in Nat /\ live[t].v \in Nat
    BY <1>1, <1>2 DEF Grows
  <2>3. CoversSince(t)
    BY <1>2 DEF StreamInv
  <2> QED
    BY <2>1, <2>2, <2>3 DEF CoversSince
<1>5. InStep(t)'
  <2>1. \A n \in 0 .. Len(log) : results'[n + 1] = results[n + 1]
    BY DEF Grows
  <2>2. /\ results'[live[t].at + 1] = results[live[t].at + 1]
        /\ results'[live[t].from + 1] = results[live[t].from + 1]
        /\ results'[live[t].last + 1] = results[live[t].last + 1]
    BY <1>1, <2>1
  <2>3. InStep(t)
    BY <1>2 DEF StreamInv
  <2> QED
    BY <2>2, <2>3 DEF InStep, SameStart, Result
<1>6. NextIsDue(t)'
  <2>1. SUFFICES ASSUME live[t].wire # <<>> \/ live[t].told,
                        NEW n \in live[t].last + 1 .. handled', Live \in log'[n]
                 PROVE  t \in jobs'
    BY DEF NextIsDue
  <2>2. n \in 1 .. Len(log)
    <3>1. handled' \in Nat /\ advanced \in Nat /\ Len(log) \in Nat /\ handled' <= advanced /\ advanced <= Len(log)
      BY DEF Grows
    <3>2. live[t].last \in Nat
      BY <1>1
    <3> QED
      BY <2>1, <3>1, <3>2
  <2>3. Live \in log[n] /\ t \in Registered
    BY <1>2, <2>1, <2>2 DEF StreamInv, QuietUntilRegistered, Grows
  <2>4. handled \in Nat /\ handled' \in Nat /\ live[t].last \in Nat
    BY <1>1 DEF Grows
  <2>5. CASE n <= handled
    <3>1. n \in live[t].last + 1 .. handled
      BY <2>1, <2>2, <2>4, <2>5
    <3> QED
      BY <1>2, <2>1, <2>3, <3>1 DEF StreamInv, NextIsDue
  <2>6. CASE n > handled
    <3>1. n \in handled + 1 .. handled'
      BY <2>1, <2>2, <2>4, <2>6
    <3> QED
      BY <2>3, <3>1
  <2> QED
    BY <2>2, <2>4, <2>5, <2>6
<1>7. QuietUntilRegistered(t)'
  BY <1>2, <1>3 DEF StreamInv, QuietUntilRegistered
<1>8. Shown(t)'
  BY <1>2 DEF StreamInv, Shown
<1> QED
  BY <1>4, <1>5, <1>6, <1>7, <1>8 DEF StreamInv

(* The step of one connection: the others look on. *)
LEMMA ActorKeeps ==
  ASSUME LiveInv, [LiveNext]_lvars, NEW s \in Subscribers, NEW c \in Connection,
         live' = [live EXCEPT ![s] = c], UNCHANGED <<log, results, advanced, handled>>,
         jobs' \in {jobs, jobs \ {s}}, s \in jobs' => c.pc \in {"snapshot", "open"},
         StreamInv(s)'
  PROVE  LiveInv'
<1>1. /\ IInv' /\ base' = 0 /\ ResultKept' /\ Grows
      /\ results' \in Seq(Results) /\ Len(results') = Len(log') + 1
  BY NodeKeeps, ResultKeeps, StepGrows
<1>2. live \in [Subscribers -> Connection] /\ jobs \subseteq Registered /\ handled \in 0 .. advanced
  BY DEF LiveInv, LiveTypeOK
<1>3. Connection' = Connection
  BY DEF Connection, Body
<1>4. live' \in [Subscribers -> Connection'] /\ live'[s] = c /\ \A t \in Subscribers : t # s => live'[t] = live[t]
  BY <1>2, <1>3
<1>5. jobs' \subseteq Registered'
  BY <1>2, <1>4 DEF Registered
<1>6. LiveTypeOK'
  BY <1>1, <1>2, <1>4, <1>5 DEF LiveTypeOK, IInv
<1>7. ASSUME NEW t \in Subscribers, t # s PROVE StreamInv(t)'
  <2>1. handled + 1 .. handled' = {}
    BY <1>1 DEF Grows
  <2> QED
    BY <1>1, <1>4, <1>7, <2>1, BystanderKeeps
<1> QED
  BY <1>1, <1>6, <1>7 DEF LiveInv

LEMMA WaitingTyped ==
  ASSUME LiveInv
  PROVE  Waiting \in Connection
<1>1. Len(log) \in Nat /\ MaxCommits \in Nat /\ <<>> \in Seq(Deltas)
  BY BoundsAssumption DEF LiveInv, LiveTypeOK, TypeOK, CursorTypeOK
<1> QED
  BY <1>1 DEF Waiting, Connection, Body, Deltas

LEMMA SubscribeKeeps ==
  ASSUME LiveInv, [LiveNext]_lvars, NEW s \in Subscribers, Subscribe(s)
  PROVE  LiveInv'
<1> DEFINE c == [Waiting EXCEPT !.pc = "version", !.since = advanced]
<1>0. /\ UNCHANGED <<log, results, advanced, handled, base>> /\ jobs' = jobs /\ live[s].pc = "waiting"
      /\ live' = [live EXCEPT ![s] = c]
  BY DEF Subscribe, vars, cvars, hub, process
<1>1. s \notin jobs
  BY <1>0 DEF LiveInv, LiveTypeOK, Registered
<1>2. advanced \in 0 .. Len(log) /\ live \in [Subscribers -> Connection]
  BY DEF LiveInv, LiveTypeOK, TypeOK, CursorTypeOK
<1>3. c \in Connection
  BY <1>2, WaitingTyped DEF Connection, Body, Waiting
<1>4. live'[s].pc = "version" /\ live'[s].since = advanced /\ live'[s].wire = <<>> /\ live'[s].told = FALSE
  BY <1>0, <1>2 DEF Waiting
<1>5. StreamInv(s)'
  BY <1>0, <1>2, <1>4 DEF StreamInv, CoversSince, InStep, NextIsDue, QuietUntilRegistered, Shown
<1> QED
  BY <1>0, <1>1, <1>3, <1>5, ActorKeeps

LEMMA LiveVersionKeeps ==
  ASSUME LiveInv, [LiveNext]_lvars, NEW s \in Subscribers, LiveVersion(s)
  PROVE  LiveInv'
<1> DEFINE c == [live[s] EXCEPT !.pc = "lookup", !.v = version[Live]]
<1>0. /\ UNCHANGED <<log, results, advanced, handled, base>> /\ jobs' = jobs /\ live[s].pc = "version"
      /\ live' = [live EXCEPT ![s] = c]
  BY DEF LiveVersion, vars, cvars, hub, process
<1>1. s \notin jobs /\ s \notin Registered
  BY <1>0 DEF LiveInv, LiveTypeOK, Registered
<1>2. /\ advanced \in Nat /\ advanced <= MaxCommits /\ MaxCommits \in Nat
      /\ live \in [Subscribers -> Connection] /\ version[Live] \in 0 .. advanced
      /\ Covers(Live, version[Live], advanced)
  BY LiveAssumption, BoundsAssumption DEF LiveInv, LiveTypeOK, TypeOK, CursorTypeOK, IInv, VersionsCover
<1>3. c \in Connection
  <2>1. live[s] \in Connection /\ version[Live] \in 0 .. MaxCommits
    BY <1>2
  <2> QED
    BY <2>1 DEF Connection
<1>4. /\ live'[s].pc = "lookup" /\ live'[s].since = live[s].since /\ live'[s].v = version[Live]
      /\ live'[s].wire = live[s].wire /\ live'[s].told = live[s].told
  BY <1>0, <1>2, <1>3 DEF Connection
<1>5. live[s].since \in Nat /\ live[s].since <= advanced
  BY <1>0, ConnectionTyped DEF LiveInv, StreamInv, CoversSince
<1>6. Covers(Live, version[Live], live[s].since)
  BY <1>2, <1>5 DEF Covers
<1>7. StreamInv(s)'
  <2>1. live[s].wire = <<>> /\ ~live[s].told
    BY <1>1 DEF LiveInv, StreamInv, QuietUntilRegistered
  <2>2. CoversSince(s)'
    BY <1>0, <1>2, <1>4, <1>5, <1>6 DEF CoversSince, Covers
  <2> QED
    BY <1>4, <2>1, <2>2 DEF StreamInv, InStep, NextIsDue, QuietUntilRegistered, Shown
<1> QED
  BY <1>0, <1>1, <1>3, <1>7, ActorKeeps

(* The entry in the hub begins with the body. *)
LEMMA RegisterKeeps ==
  ASSUME LiveInv, [LiveNext]_lvars, NEW s \in Subscribers, live[s].pc \in {"lookup", "insert"},
         NEW body \in 0 .. Len(log), body >= live[s].v, Register(s, body),
         UNCHANGED <<log, results, advanced, handled, jobs>>
  PROVE  LiveInv'
<1> DEFINE c == [live[s] EXCEPT !.pc = "snapshot", !.at = body, !.last = body]
<1>1. live' = [live EXCEPT ![s] = c]
  BY DEF Register
<1>2. live[s] \in Connection /\ live \in [Subscribers -> Connection] /\ StreamInv(s) /\ s \notin Registered
      /\ base = 0 /\ base' = 0
  BY NodeKeeps DEF LiveInv, LiveTypeOK, Registered
<1>3. c \in Connection
  BY <1>2 DEF Connection, Body
<1>4. /\ live'[s].pc = "snapshot" /\ live'[s].since = live[s].since /\ live'[s].v = live[s].v
      /\ live'[s].at = body /\ live'[s].last = body
      /\ live'[s].wire = live[s].wire /\ live'[s].told = live[s].told
  BY <1>1, <1>2 DEF Connection
<1>5. live[s].wire = <<>> /\ ~live[s].told
  BY <1>2 DEF StreamInv, QuietUntilRegistered
<1>6. CoversSince(s)'
  BY <1>2, <1>4 DEF StreamInv, CoversSince, Covers
<1>7. InStep(s)'
  <2>1. results[body + 1] \in Results
    BY DEF LiveInv, LiveTypeOK
  <2>2. Leads(results[body + 1], <<>>, results[body + 1])
    BY <2>1, LeadsNowhere
  <2> QED
    BY <1>4, <1>5, <2>2 DEF InStep, Result
<1>8. StreamInv(s)'
  BY <1>4, <1>5, <1>6, <1>7 DEF StreamInv, NextIsDue, QuietUntilRegistered, Shown
<1>9. s \notin jobs
  BY <1>2 DEF LiveInv, LiveTypeOK
<1> QED
  BY <1>1, <1>3, <1>8, <1>9, ActorKeeps

LEMMA LiveLookupKeeps ==
  ASSUME LiveInv, [LiveNext]_lvars, NEW s \in Subscribers,
         LiveHit(s) \/ LiveMiss(s) \/ LiveCompute(s) \/ LiveInsert(s)
  PROVE  LiveInv'
<1>0. /\ UNCHANGED <<log, results, advanced, handled, jobs>> /\ base = 0 /\ base' = 0
      /\ live \in [Subscribers -> Connection] /\ live[s] \in Connection /\ StreamInv(s)
  BY NodeKeeps DEF LiveInv, LiveTypeOK, LiveHit, LiveMiss, LiveCompute, LiveInsert, vars, cvars, hub
<1>1. /\ live[s].v \in 0 .. MaxCommits /\ live[s].at \in 0 .. Len(log)
      /\ live[s].since \in 0 .. Len(log) /\ Len(log) \in Nat
  BY ConnectionTyped DEF LiveInv, LiveTypeOK, TypeOK, CursorTypeOK
<1>2. CASE LiveHit(s)
  <2>1. Pointer(s) \in Cursors /\ Pointer(s)[2] = live[s].v
    BY <1>1, LiveAssumption DEF Pointer, Cursors
  <2>2. cache[Pointer(s)] \in 0 .. Len(log) /\ cache[Pointer(s)] >= live[s].v
    BY <1>2, <2>1 DEF LiveHit, LiveInv, IInv, TypeOK, CacheNotOlder, Body
  <2> QED
    BY <1>0, <1>2, <2>2, RegisterKeeps DEF LiveHit
<1>3. CASE LiveInsert(s)
  <2>1. live[s].at >= live[s].v
    BY <1>0, <1>3 DEF LiveInsert, StreamInv, CoversSince
  <2> QED
    BY <1>0, <1>1, <1>3, <2>1, RegisterKeeps DEF LiveInsert
<1>4. CASE LiveMiss(s)
  <2> DEFINE c == [live[s] EXCEPT !.pc = "compute"]
  <2>1. live' = [live EXCEPT ![s] = c] /\ live[s].pc = "lookup" /\ s \notin Registered /\ s \notin jobs
    BY <1>4 DEF LiveMiss, Enter, Registered, LiveInv, LiveTypeOK
  <2>2. c \in Connection
    BY <1>0 DEF Connection
  <2>3. /\ live'[s].pc = "compute" /\ live'[s].since = live[s].since /\ live'[s].v = live[s].v
        /\ live'[s].wire = live[s].wire /\ live'[s].told = live[s].told
    BY <1>0, <2>1 DEF Connection
  <2>4. StreamInv(s)'
    BY <1>0, <2>1, <2>3 DEF StreamInv, CoversSince, Covers, InStep, NextIsDue, QuietUntilRegistered, Shown
  <2> QED
    BY <1>0, <2>1, <2>2, <2>4, ActorKeeps
<1>5. CASE LiveCompute(s)
  <2> DEFINE c == [live[s] EXCEPT !.pc = "insert", !.at = Applied]
  <2>1. live' = [live EXCEPT ![s] = c] /\ live[s].pc = "compute" /\ s \notin Registered /\ s \notin jobs
    BY <1>5 DEF LiveCompute, Registered, LiveInv, LiveTypeOK
  <2>2. c \in Connection
    <3>1. Applied \in Body
      BY <1>1 DEF Applied, Body
    <3> QED
      BY <1>0, <3>1 DEF Connection
  <2>3. /\ live'[s].pc = "insert" /\ live'[s].since = live[s].since /\ live'[s].v = live[s].v
        /\ live'[s].at = Len(log) /\ live'[s].wire = live[s].wire /\ live'[s].told = live[s].told
    BY <1>0, <2>1 DEF Connection, Applied
  <2>4. live[s].v <= advanced /\ advanced \in Nat /\ advanced <= Len(log) /\ live[s].v \in Nat
    BY <1>0, <1>1, <2>1, BoundsAssumption DEF StreamInv, CoversSince, LiveInv, LiveTypeOK, TypeOK, CursorTypeOK
  <2>5. Len(log) >= live[s].v
    BY <1>1, <2>4
  <2>6. CoversSince(s)'
    BY <1>0, <2>1, <2>3, <2>5 DEF StreamInv, CoversSince, Covers
  <2>7. StreamInv(s)'
    BY <1>0, <2>1, <2>3, <2>6 DEF StreamInv, InStep, NextIsDue, QuietUntilRegistered, Shown
  <2> QED
    BY <1>0, <2>1, <2>2, <2>7, ActorKeeps
<1> QED
  BY <1>2, <1>3, <1>4, <1>5

LEMMA LiveFetchKeeps ==
  ASSUME LiveInv, [LiveNext]_lvars, NEW s \in Subscribers, LiveFetch(s)
  PROVE  LiveInv'
<1> DEFINE body == cache[Pointer(s)]
           c == [live[s] EXCEPT !.pc = "open", !.from = body, !.view = Result(body)]
<1>0. /\ UNCHANGED <<log, results, advanced, handled, jobs, base>> /\ live[s].pc = "snapshot"
      /\ live' = [live EXCEPT ![s] = c] /\ body # NoBody
      /\ live \in [Subscribers -> Connection] /\ live[s] \in Connection /\ StreamInv(s)
  BY DEF LiveInv, LiveTypeOK, LiveFetch, vars, cvars, hub, process
<1>1. live[s].v \in 0 .. MaxCommits
  BY ConnectionTyped
<1>2. Pointer(s) \in Cursors /\ Pointer(s)[2] = live[s].v
  BY <1>1, LiveAssumption DEF Pointer, Cursors
<1>3. body \in 0 .. Len(log) /\ body >= live[s].v
  BY <1>0, <1>2 DEF LiveInv, IInv, TypeOK, CacheNotOlder, Body
<1> HIDE DEF body
<1>4. Result(body) \in Results
  BY <1>3 DEF Result, LiveInv, LiveTypeOK
<1>5. c \in Connection
  BY <1>0, <1>3, <1>4 DEF Connection, Body
<1>6. /\ live'[s].pc = "open" /\ live'[s].since = live[s].since /\ live'[s].v = live[s].v
      /\ live'[s].at = live[s].at /\ live'[s].last = live[s].last
      /\ live'[s].from = body /\ live'[s].view = Result(body)
      /\ live'[s].wire = live[s].wire /\ live'[s].told = live[s].told
  BY <1>0 DEF Connection
<1>7. CoversSince(s)'
  BY <1>0, <1>3, <1>6 DEF StreamInv, CoversSince, Covers
<1>8. InStep(s)'
  BY <1>0, <1>6 DEF StreamInv, InStep, SameStart, Result
<1>9. NextIsDue(s)' /\ QuietUntilRegistered(s)' /\ Shown(s)'
  BY <1>0, <1>4, <1>6 DEF StreamInv, NextIsDue, QuietUntilRegistered, Registered, Shown
<1>10. StreamInv(s)'
  BY <1>7, <1>8, <1>9 DEF StreamInv
<1>11. c.pc = "open"
  BY <1>0 DEF Connection
<1> QED
  BY <1>0, <1>5, <1>10, <1>11, ActorKeeps

LEMMA CloseKeeps ==
  ASSUME LiveInv, [LiveNext]_lvars, NEW s \in Subscribers, LiveNotFound(s) \/ Break(s)
  PROVE  LiveInv'
<1>0. /\ UNCHANGED <<log, results, advanced, handled>> /\ jobs' = jobs \ {s}
      /\ live' = [live EXCEPT ![s] = Waiting] /\ live \in [Subscribers -> Connection]
  BY DEF LiveInv, LiveTypeOK, LiveNotFound, Break, Close, vars, cvars
<1>1. live'[s].pc = "waiting" /\ live'[s].wire = <<>> /\ live'[s].told = FALSE
  BY <1>0 DEF Waiting
<1>2. StreamInv(s)'
  BY <1>1 DEF StreamInv, CoversSince, InStep, NextIsDue, QuietUntilRegistered, Shown
<1> QED
  BY <1>0, <1>2, WaitingTyped, ActorKeeps

LEMMA FollowKeeps ==
  ASSUME LiveInv, [LiveNext]_lvars, NEW s \in Subscribers, Follow(s)
  PROVE  LiveInv'
<1> DEFINE next == ApplyDeltas(live[s].view, Head(live[s].wire))
           rest == Tail(live[s].wire)
           c == [live[s] EXCEPT !.view = next, !.wire = rest, !.told = TRUE]
<1>0. /\ UNCHANGED <<log, results, advanced, handled, jobs, base>> /\ live[s].pc = "open" /\ live[s].wire # <<>>
      /\ live' = [live EXCEPT ![s] = c]
      /\ live \in [Subscribers -> Connection] /\ live[s] \in Connection /\ StreamInv(s)
  BY DEF LiveInv, LiveTypeOK, Follow, vars, cvars, hub, process
<1>1. live[s].wire \in Seq(Deltas) /\ live[s].view \in Results
  BY <1>0, ConnectionTyped DEF StreamInv, Shown
<1>2. Head(live[s].wire) \in Deltas /\ rest \in Seq(Deltas)
  BY <1>0, <1>1
<1>3. next \in Results
  BY <1>1, <1>2, ApplyIsResult
<1>4. SameStart(s) => Leads(next, rest, Result(live[s].last))
  <2> SUFFICES ASSUME SameStart(s) PROVE Leads(next, rest, Result(live[s].last))
    OBVIOUS
  <2>1. Leads(live[s].view, live[s].wire, Result(live[s].last))
    BY <1>0 DEF StreamInv, InStep
  <2> QED
    BY <1>0, <1>1, <2>1, LeadsFrom
<1> HIDE DEF next, rest
<1>5. c \in Connection
  BY <1>0, <1>2, <1>3 DEF Connection, Deltas
<1>6. /\ live'[s].pc = live[s].pc /\ live'[s].since = live[s].since /\ live'[s].v = live[s].v
      /\ live'[s].at = live[s].at /\ live'[s].last = live[s].last
      /\ live'[s].from = live[s].from /\ live'[s].view = next /\ live'[s].wire = rest
  BY <1>0 DEF Connection
<1>7. CoversSince(s)'
  BY <1>0, <1>6 DEF StreamInv, CoversSince, Covers
<1>8. InStep(s)'
  BY <1>0, <1>4, <1>6 DEF InStep, SameStart, Result
<1>9. NextIsDue(s)' /\ QuietUntilRegistered(s)' /\ Shown(s)'
  BY <1>0, <1>3, <1>6 DEF StreamInv, NextIsDue, QuietUntilRegistered, Registered, Shown
<1>10. StreamInv(s)'
  BY <1>7, <1>8, <1>9 DEF StreamInv
<1>11. c.pc = "open"
  BY <1>0 DEF Connection
<1> QED
  BY <1>0, <1>5, <1>10, <1>11, ActorKeeps

(* The hub queries a stream again, and owes it nothing from before. *)
LEMMA RequeryKeeps ==
  ASSUME LiveInv, [LiveNext]_lvars, NEW s \in Subscribers, Requery(s)
  PROVE  LiveInv'
<1> DEFINE last == Result(live[s].last)
           cycles == Append(live[s].wire, Diff(last, Now))
           c == [live[s] EXCEPT !.wire = cycles, !.last = Applied]
<1>0. /\ UNCHANGED <<log, results, advanced, handled, base>> /\ jobs' = jobs \ {s} /\ s \in Registered
      /\ live' = [live EXCEPT ![s] = c]
      /\ live \in [Subscribers -> Connection] /\ live[s] \in Connection /\ StreamInv(s)
  BY DEF LiveInv, LiveTypeOK, Requery, vars, cvars, process
<1>1. live[s].wire \in Seq(Deltas) /\ live[s].last \in 0 .. Len(log) /\ Len(log) \in Nat
  BY ConnectionTyped DEF LiveInv, LiveTypeOK, TypeOK, CursorTypeOK
<1>2. last \in Results /\ Now \in Results
  BY <1>1 DEF Result, Now, Applied, LiveInv, LiveTypeOK
<1>3. cycles \in Seq(Deltas) /\ cycles # <<>>
  BY <1>1, <1>2, DiffIsDeltas
<1>4. \A first : Leads(first, live[s].wire, last) => Leads(first, cycles, Now)
  BY <1>1, <1>2, LeadsOn
<1> HIDE DEF cycles
<1>5. c \in Connection
  <2>1. Applied \in Body
    BY <1>1 DEF Applied, Body
  <2> QED
    BY <1>0, <1>3, <2>1 DEF Connection, Deltas
<1>6. /\ live'[s].pc = live[s].pc /\ live'[s].since = live[s].since /\ live'[s].v = live[s].v
      /\ live'[s].at = live[s].at /\ live'[s].last = Applied /\ c.pc = live[s].pc
      /\ live'[s].from = live[s].from /\ live'[s].view = live[s].view
      /\ live'[s].wire = cycles /\ live'[s].told = live[s].told
  BY <1>0 DEF Connection
<1>7. CoversSince(s)' /\ Shown(s)' /\ QuietUntilRegistered(s)'
  BY <1>0, <1>6 DEF StreamInv, CoversSince, Covers, Shown, QuietUntilRegistered, Registered
<1>8. InStep(s)'
  BY <1>0, <1>4, <1>6 DEF StreamInv, InStep, SameStart, Result, Now, Applied
<1>9. NextIsDue(s)'
  <2>1. \A n \in Len(log) + 1 .. handled : FALSE
    BY <1>1 DEF LiveInv, LiveTypeOK, TypeOK, CursorTypeOK
  <2> QED
    BY <1>0, <1>6, <2>1 DEF NextIsDue, Applied
<1>10. StreamInv(s)'
  BY <1>7, <1>8, <1>9 DEF StreamInv
<1>11. s \notin jobs'
  BY <1>0
<1> QED
  BY <1>0, <1>5, <1>10, <1>11, ActorKeeps

(* The hub takes a commit; the other steps of the node. *)
LEMMA OnlookersKeep ==
  ASSUME LiveInv, [LiveNext]_lvars, UNCHANGED live,
         \/ Take
         \/ UNCHANGED <<handled, jobs>>
  PROVE  LiveInv'
<1>1. /\ IInv' /\ base' = 0 /\ ResultKept' /\ Grows
      /\ results' \in Seq(Results) /\ Len(results') = Len(log') + 1
  BY NodeKeeps, ResultKeeps, StepGrows
<1>2. live \in [Subscribers -> Connection] /\ jobs \subseteq Registered /\ Registered' = Registered
  BY DEF LiveInv, LiveTypeOK, Registered
<1>3. Body \subseteq Body'
  BY <1>1 DEF Body, Grows
<1>4. Connection \subseteq Connection'
  BY <1>3 DEF Connection
<1>5. jobs' \subseteq Registered'
  BY <1>2 DEF Take
<1>6. LiveTypeOK'
  BY <1>1, <1>2, <1>4, <1>5 DEF LiveTypeOK, IInv, Grows
<1>7. ASSUME NEW t \in Subscribers PROVE StreamInv(t)'
  <2>1. CASE Take
    <3>1. /\ jobs = {} /\ handled' = handled + 1 /\ handled \in Nat
          /\ Live \in log[handled + 1] => jobs' = Registered
      BY <1>1, <2>1 DEF Take, Grows
    <3>2. handled + 1 .. handled' = {handled + 1}
      BY <3>1
    <3> QED
      BY <1>1, <3>1, <3>2, BystanderKeeps
  <2>2. CASE UNCHANGED <<handled, jobs>>
    <3>1. handled + 1 .. handled' = {}
      BY <1>1, <2>2 DEF Grows
    <3> QED
      BY <1>1, <2>2, <3>1, BystanderKeeps
  <2> QED
    BY <2>1, <2>2
<1> QED
  BY <1>1, <1>6, <1>7 DEF LiveInv

LEMMA LiveInitHolds == LiveInit => LiveInv
<1> SUFFICES ASSUME LiveInit PROVE LiveInv
  OBVIOUS
<1>1. IInv /\ base = 0 /\ log = <<>> /\ advanced = 0
  BY InitInv DEF LiveInit, Init, CursorInit
<1>2. PICK res \in Results : results = <<res>>
  BY LiveAssumption DEF LiveInit
<1>3. live = [s \in Subscribers |-> Waiting] /\ handled = 0 /\ jobs = {}
  BY DEF LiveInit
<1>4. Waiting \in Connection
  <2>1. MaxCommits \in Nat /\ Len(log) = 0 /\ <<>> \in Seq(Deltas)
    BY <1>1, BoundsAssumption
  <2> QED
    BY <2>1 DEF Waiting, Connection, Body, Deltas
<1>5. LiveTypeOK
  BY <1>1, <1>2, <1>3, <1>4 DEF LiveTypeOK, IInv
<1>6. ResultKept
  <2>1. \A m \in 0 .. 0 : \A n \in m .. 0 : m = n
    OBVIOUS
  <2> QED
    BY <1>1, <2>1 DEF ResultKept, Body, Applied
<1>7. ASSUME NEW s \in Subscribers PROVE StreamInv(s)
  <2>1. live[s].pc = "waiting" /\ live[s].wire = <<>> /\ live[s].told = FALSE
    BY <1>3 DEF Waiting
  <2> QED
    BY <2>1 DEF StreamInv, CoversSince, InStep, NextIsDue, QuietUntilRegistered, Shown
<1> QED
  BY <1>1, <1>5, <1>6, <1>7 DEF LiveInv

LEMMA LiveNextKeeps == LiveInv /\ [LiveNext]_lvars => LiveInv'
<1> SUFFICES ASSUME LiveInv, [LiveNext]_lvars PROVE LiveInv'
  OBVIOUS
<1>1. CASE Snapshots \/ Write \/ UNCHANGED lvars
  BY <1>1, OnlookersKeep DEF Snapshots, Write, lvars, hub
<1>2. CASE Take
  BY <1>2, OnlookersKeep DEF Take
<1>3. ASSUME NEW s \in Subscribers, Requery(s) \/ Subscriber(s) PROVE LiveInv'
  BY <1>3, SubscribeKeeps, LiveVersionKeeps, LiveLookupKeeps, LiveFetchKeeps, CloseKeeps, FollowKeeps,
     RequeryKeeps DEF Subscriber
<1> QED
  BY <1>1, <1>2, <1>3 DEF LiveNext

(* LiveTypeOK in every reachable state, for any number of readers,         *)
(* subscribers, rows and commits: the hub never gets ahead of the version  *)
(* index, and whatever a client does with the cycles it reads, its view is *)
(* a result.                                                               *)
THEOREM StreamsTypeCorrect == LiveSpec => []LiveTypeOK
<1>1. LiveInv => LiveTypeOK
  BY DEF LiveInv
<1> QED
  BY LiveInitHolds, LiveNextKeeps, <1>1, PTL DEF LiveSpec

(* A stream starts from a body, at the server and at its client, that      *)
(* shows every commit the feed had delivered when it was asked for: the    *)
(* version of its pointer covers those commits, and no body filed under a  *)
(* version is older than the version.                                      *)
THEOREM StreamsStartFresh == LiveSpec => []StreamStartsFresh
<1>1. LiveInv => StreamStartsFresh
  <2> SUFFICES ASSUME LiveInv, NEW s \in Registered, NEW n \in 1 .. live[s].since, Live \in log[n]
               PROVE  n <= live[s].at /\ (live[s].pc = "open" => n <= live[s].from)
    BY DEF StreamStartsFresh
  <2>1. s \in Subscribers /\ live[s].pc \in {"snapshot", "open"} /\ CoversSince(s) /\ base = 0
    BY DEF Registered, LiveInv, StreamInv
  <2>2. /\ live[s].since \in Nat /\ live[s].v \in Nat /\ live[s].at \in Nat /\ live[s].from \in Nat
    BY <2>1, ConnectionTyped, BoundsAssumption
  <2>3. n <= live[s].v
    BY <2>1, <2>2 DEF CoversSince, Covers
  <2> QED
    BY <2>1, <2>2, <2>3 DEF CoversSince
<1> QED
  BY LiveInitHolds, LiveNextKeeps, <1>1, PTL DEF LiveSpec

(* A client that starts where the hub does shows what the hub holds for it *)
(* whenever it has read everything, and the query's result once it has     *)
(* read a cycle and the hub is done.                                       *)
THEOREM StreamsFollow == LiveSpec => []StreamFollows
<1>1. LiveInv => StreamFollows
  <2> SUFFICES ASSUME LiveInv, NEW s \in Subscribers, live[s].pc = "open", SameStart(s), live[s].wire = <<>>
               PROVE  /\ live[s].view = Result(live[s].last)
                      /\ Settled(s) => live[s].view = Now
    BY DEF StreamFollows, Settled
  <2>1. Leads(live[s].view, live[s].wire, Result(live[s].last)) /\ NextIsDue(s)
    BY DEF LiveInv, StreamInv, InStep
  <2>2. live[s].view = Result(live[s].last)
    BY <2>1, LeadsNowhereOnly
  <2>3. ASSUME Settled(s) PROVE Result(live[s].last) = Now
    <3>1. live[s].told /\ jobs = {} /\ handled = Applied
      BY <2>3 DEF Settled
    <3>2. live[s].last \in 0 .. Len(log) /\ Len(log) \in Nat
      BY ConnectionTyped DEF LiveInv, LiveTypeOK, TypeOK, CursorTypeOK
    <3>3. \A n \in live[s].last + 1 .. Applied : Live \notin log[n]
      BY <2>1, <3>1 DEF NextIsDue
    <3>4. Applied \in live[s].last .. Applied
      BY <3>2 DEF Applied
    <3> QED
      BY <3>2, <3>3, <3>4 DEF LiveInv, ResultKept, Body, Now, Applied
  <2> QED
    BY <2>2, <2>3
<1> QED
  BY LiveInitHolds, LiveNextKeeps, <1>1, PTL DEF LiveSpec

==============================================================================
