--------------------------- MODULE LiveHub_proofs ---------------------------
(***************************************************************************)
(* For any number of clients, queries and transactions: what a reader of a *)
(* live stream holds is what the hub diffs against, the hub never writes   *)
(* into a channel whose receiver is gone, and no commit is lost between    *)
(* the feed and a registered stream.                                       *)
(***************************************************************************)
EXTENDS LiveHub, RowDiff_proofs

(* keyed_map returns a map, whichever way it keys the rows. *)
LEMMA KeyedMapIsMap ==
  ASSUME NEW q, NEW d
  PROVE  IsMap(KeyedMap(q, d))
<1>1. CASE q.pk
  BY <1>1 DEF IsMap, KeyedMap
<1>2. CASE ~q.pk
  BY <1>2 DEF IsMap, KeyedMap
<1> QED
  BY <1>1, <1>2

LEMMA HubInvInit == Init => HubInv
  BY MaxIdsAssumption
  DEF Init, HubInv, Shapes, ClientsHold, JobsCurrent, StreamMatchesLast, RegisteredIsOpen,
      Registered, Drawn, Ids, Receiving, Off

LEMMA RegisterKeeps ==
  ASSUME HubInv, NEW c \in Clients, Register(c)
  PROVE  HubInv'
<1> USE MaxIdsAssumption DEF Registered, Drawn, Ids
<1>1. /\ nextId \in Ids /\ nextId' = nextId + 1
      /\ \A id \in Ids : id # nextId => subs'[id] = subs[id] /\ stream'[id] = stream[id]
      /\ subs'[nextId].last = conn[c].body /\ stream'[nextId].view = conn[c].body
      /\ ~stream'[nextId].reset /\ stream'[nextId].open
      /\ conn'[c].pc = "open" /\ conn'[c].id = nextId
      /\ \A d \in Clients : d # c => conn'[d] = conn[d]
      /\ worker' = worker
      /\ DOMAIN subs' = Ids /\ DOMAIN stream' = Ids /\ DOMAIN conn' = Clients
  BY DEF Register, HubInv, Shapes, Subscription, Stream
<1>2. Shapes'
  BY <1>1 DEF HubInv, Shapes
<1>3. ClientsHold'
  BY <1>1 DEF HubInv, Shapes, ClientsHold
<1>4. JobsCurrent'
  BY <1>1 DEF HubInv, Shapes, JobsCurrent
<1>5. StreamMatchesLast' /\ RegisteredIsOpen'
  BY <1>1 DEF HubInv, StreamMatchesLast, RegisteredIsOpen
<1> QED
  BY <1>2, <1>3, <1>4, <1>5 DEF HubInv

LEMMA DropEntryKeeps ==
  ASSUME HubInv, NEW c \in Clients, DropEntry(c)
  PROVE  HubInv'
<1> USE MaxIdsAssumption DEF Registered, Drawn, Ids
<1>1. /\ conn[c].id \in Ids /\ conn[c].pc = "open"
      /\ \A id \in Ids : id # conn[c].id => subs'[id] = subs[id]
      /\ subs'[conn[c].id] = NoSub
      /\ conn'[c].pc = "dropping" /\ conn'[c].id = conn[c].id
      /\ \A d \in Clients : d # c => conn'[d] = conn[d]
      /\ worker' = worker /\ stream' = stream /\ nextId' = nextId
      /\ DOMAIN subs' = Ids /\ DOMAIN stream' = Ids /\ DOMAIN conn' = Clients
  BY DEF DropEntry, HubInv, Shapes, ClientsHold
<1>2. Shapes'
  BY <1>1 DEF HubInv, Shapes
<1>3. ClientsHold'
  BY <1>1 DEF HubInv, Shapes, ClientsHold
<1>4. JobsCurrent'
  BY <1>1 DEF HubInv, Shapes, JobsCurrent
<1>5. StreamMatchesLast' /\ RegisteredIsOpen'
  BY <1>1 DEF HubInv, StreamMatchesLast, RegisteredIsOpen
<1> QED
  BY <1>2, <1>3, <1>4, <1>5 DEF HubInv

(* The channel that closes belongs to no entry: Drop has removed it. *)
LEMMA DropReceiverKeeps ==
  ASSUME HubInv, NEW c \in Clients, DropReceiver(c)
  PROVE  HubInv'
<1> USE MaxIdsAssumption DEF Registered, Drawn, Ids
<1>1. /\ conn[c].id \in Ids /\ subs[conn[c].id] = NoSub
      /\ \A id \in Ids : id # conn[c].id => stream'[id] = stream[id]
      /\ conn'[c].pc = "off"
      /\ \A d \in Clients : d # c => conn'[d] = conn[d]
      /\ worker' = worker /\ subs' = subs /\ nextId' = nextId
      /\ DOMAIN stream' = Ids /\ DOMAIN conn' = Clients
  BY DEF DropReceiver, HubInv, Shapes, ClientsHold, Off
<1>2. Shapes'
  BY <1>1 DEF HubInv, Shapes
<1>3. ClientsHold'
  BY <1>1 DEF HubInv, Shapes, ClientsHold
<1>4. JobsCurrent'
  BY <1>1 DEF HubInv, Shapes, JobsCurrent
<1>5. StreamMatchesLast' /\ RegisteredIsOpen'
  BY <1>1 DEF HubInv, StreamMatchesLast, RegisteredIsOpen
<1> QED
  BY <1>2, <1>3, <1>4, <1>5 DEF HubInv

LEMMA ReadBodyKeeps ==
  ASSUME HubInv, NEW c \in Clients, NEW q \in Queries, ReadBody(c, q)
  PROVE  HubInv'
<1> USE DEF Registered, Drawn, Ids
<1>1. /\ conn'[c].pc = "register"
      /\ \A d \in Clients : d # c => conn'[d] = conn[d]
      /\ worker' = worker /\ subs' = subs /\ nextId' = nextId /\ stream' = stream
      /\ DOMAIN conn' = Clients
  BY DEF ReadBody, HubInv, Shapes
<1> QED
  BY <1>1 DEF HubInv, Shapes, ClientsHold, JobsCurrent, StreamMatchesLast, RegisteredIsOpen

-----------------------------------------------------------------------------
(* The jobs copied under the lock are the entries' results. *)
LEMMA TakeKeeps ==
  ASSUME HubInv, Take
  PROVE  HubInv'
<1> USE DEF Registered, Drawn, Ids
<1>1. /\ worker'.pc = "jobs"
      /\ \A id \in DOMAIN worker'.jobs : id \in Ids /\ subs[id] # NoSub /\ worker'.jobs[id] = subs[id].last
      /\ subs' = subs /\ nextId' = nextId /\ stream' = stream /\ conn' = conn
  BY DEF Take
<1>2. JobsCurrent'
  BY <1>1 DEF HubInv, Shapes, JobsCurrent
<1> QED
  BY <1>1, <1>2 DEF HubInv, Shapes, ClientsHold, StreamMatchesLast, RegisteredIsOpen

LEMMA LaggedKeeps ==
  ASSUME HubInv, Lagged
  PROVE  HubInv'
<1> USE DEF Registered, Drawn, Ids
<1>1. /\ \A id \in Ids : subs'[id] = NoSub
      /\ DOMAIN subs' = Ids /\ DOMAIN stream' = Ids
      /\ worker' = worker /\ nextId' = nextId /\ conn' = conn
  BY DEF Lagged, SendReset
<1> QED
  BY <1>1 DEF HubInv, Shapes, ClientsHold, JobsCurrent, StreamMatchesLast, RegisteredIsOpen

LEMMA RequeryKeeps ==
  ASSUME HubInv, NEW id \in Ids, Requery(id)
  PROVE  HubInv'
<1> USE DEF Registered, Drawn, Ids
<1>1. /\ worker.pc = "jobs" /\ id \in DOMAIN worker.jobs
      /\ worker'.pc = "deliver" /\ worker'.id = id /\ worker'.last = worker.jobs[id]
      /\ DOMAIN worker'.jobs = DOMAIN worker.jobs \ {id}
      /\ \A i \in DOMAIN worker'.jobs : worker'.jobs[i] = worker.jobs[i]
      /\ subs' = subs /\ nextId' = nextId /\ stream' = stream /\ conn' = conn
  BY DEF Requery, Without
<1>2. worker'.next = [k \in DOMAIN worker'.next |-> worker'.next[k]]
  BY KeyedMapIsMap DEF Requery, IsMap
<1>3. JobsCurrent'
  BY <1>1, <1>2 DEF HubInv, JobsCurrent
<1> QED
  BY <1>1, <1>3 DEF HubInv, Shapes, ClientsHold, StreamMatchesLast, RegisteredIsOpen

LEMMA RequeryFailsKeeps ==
  ASSUME HubInv, NEW id \in Ids, RequeryFails(id)
  PROVE  HubInv'
<1> USE DEF Registered, Drawn, Ids
<1>1. /\ worker.pc = "jobs" /\ worker'.pc = "jobs"
      /\ DOMAIN worker'.jobs = DOMAIN worker.jobs \ {id}
      /\ \A i \in DOMAIN worker'.jobs : worker'.jobs[i] = worker.jobs[i]
      /\ subs'[id] = NoSub
      /\ \A i \in Ids : i # id => subs'[i] = subs[i] /\ stream'[i] = stream[i]
      /\ DOMAIN subs' = Ids /\ DOMAIN stream' = Ids
      /\ nextId' = nextId /\ conn' = conn
  BY DEF RequeryFails, Without, SendReset, HubInv, Shapes
<1>2. JobsCurrent'
  BY <1>1 DEF HubInv, JobsCurrent
<1>3. ClientsHold'
  BY <1>1 DEF HubInv, ClientsHold
<1>4. Shapes' /\ StreamMatchesLast' /\ RegisteredIsOpen'
  BY <1>1 DEF HubInv, Shapes, StreamMatchesLast, RegisteredIsOpen
<1> QED
  BY <1>2, <1>3, <1>4 DEF HubInv

(* Between the copy and the delivery nobody moved `last`, so the deltas    *)
(* lead the reader from what it holds to what the hub now keeps.           *)
LEMMA DeliverEffect ==
  ASSUME HubInv, Deliver, subs[worker.id] # NoSub
  PROVE  /\ stream[worker.id].open /\ ~stream[worker.id].reset
         /\ subs'[worker.id].last = worker.next
         /\ stream'[worker.id] = Stream(stream[worker.id].q, worker.next, worker.txid,
                                        stream[worker.id].reset, TRUE)
<1> USE DEF Registered, Drawn, Ids
<1> DEFINE deltas == Diff(worker.last, worker.next)
<1>1. /\ stream[worker.id].open /\ stream[worker.id].view = worker.last
      /\ ~stream[worker.id].reset /\ worker.id \in Ids
  BY DEF Deliver, HubInv, JobsCurrent, StreamMatchesLast, RegisteredIsOpen
<1>2. /\ subs'[worker.id].last = worker.next
      /\ stream'[worker.id] = Stream(stream[worker.id].q, ApplyDeltas(worker.last, deltas),
                                     worker.txid, stream[worker.id].reset, TRUE)
  BY <1>1 DEF Deliver, Subscription, HubInv, Shapes
<1>3. ApplyDeltas(worker.last, deltas) = worker.next
  BY DiffLeadsToNext DEF Deliver, HubInv, JobsCurrent, IsMap
<1> QED
  BY <1>1, <1>2, <1>3

LEMMA DeliverFrame ==
  ASSUME HubInv, Deliver
  PROVE  /\ worker.pc = "deliver" /\ worker.id \in Ids
         /\ worker'.pc = "jobs" /\ worker'.jobs = worker.jobs /\ worker'.txid = worker.txid
         /\ \A i \in Ids : i # worker.id => subs'[i] = subs[i] /\ stream'[i] = stream[i]
         /\ subs[worker.id] = NoSub => subs' = subs /\ stream' = stream
         /\ DOMAIN subs' = Ids /\ DOMAIN stream' = Ids
         /\ nextId' = nextId /\ conn' = conn
  BY DEF Deliver, HubInv, Shapes, JobsCurrent, Drawn, Registered

LEMMA DeliverKeeps ==
  ASSUME HubInv, Deliver
  PROVE  HubInv'
<1> USE DEF Registered, Drawn, Ids
<1>1. CASE subs[worker.id] = NoSub
  <2>1. /\ worker.pc = "deliver" /\ worker'.pc = "jobs" /\ worker'.jobs = worker.jobs
        /\ UNCHANGED <<subs, stream, nextId, conn>>
    BY <1>1, DeliverFrame
  <2> QED
    BY <2>1 DEF HubInv, Shapes, ClientsHold, JobsCurrent, StreamMatchesLast, RegisteredIsOpen
<1>2. CASE subs[worker.id] # NoSub
  <2>1. /\ subs'[worker.id].last = worker.next /\ stream'[worker.id].view = worker.next
        /\ stream'[worker.id].open /\ ~stream'[worker.id].reset
    BY <1>2, DeliverEffect DEF Stream
  <2>2. Shapes' /\ ClientsHold'
    BY <1>2, DeliverFrame DEF HubInv, Shapes, ClientsHold
  <2>3. JobsCurrent'
    BY DeliverFrame DEF HubInv, JobsCurrent
  <2>4. StreamMatchesLast' /\ RegisteredIsOpen'
    BY <2>1, DeliverFrame DEF HubInv, StreamMatchesLast, RegisteredIsOpen
  <2> QED
    BY <2>2, <2>3, <2>4 DEF HubInv
<1> QED
  BY <1>1, <1>2

LEMMA SweepKeeps ==
  ASSUME HubInv, Sweep
  PROVE  HubInv'
<1> USE DEF Registered, Drawn, Ids
<1>1. /\ worker'.pc = "recv"
      /\ \A i \in Ids : subs'[i] = NoSub \/ subs'[i] = subs[i]
      /\ DOMAIN subs' = Ids
      /\ nextId' = nextId /\ conn' = conn /\ stream' = stream
  BY DEF Sweep, Receiving
<1> QED
  BY <1>1 DEF HubInv, Shapes, ClientsHold, JobsCurrent, StreamMatchesLast, RegisteredIsOpen

-----------------------------------------------------------------------------
LEMMA HubInvStep == HubInv /\ [Next]_vars => HubInv'
<1> SUFFICES ASSUME HubInv, [Next]_vars PROVE HubInv'
  OBVIOUS
<1>1. ASSUME UNCHANGED <<subs, nextId, stream, conn, worker>> PROVE HubInv'
  BY <1>1 DEF HubInv, Shapes, ClientsHold, JobsCurrent, StreamMatchesLast, RegisteredIsOpen,
              Registered, Drawn
<1>2. CASE UNCHANGED vars
  BY <1>1, <1>2 DEF vars
<1>3. CASE \E txn \in Txns : Commit(txn)
  BY <1>1, <1>3 DEF Commit
<1>4. CASE Feed \/ Stop
  BY <1>1, <1>4 DEF Feed, Stop
<1>5. CASE \E c \in Clients : Client(c)
  BY <1>5, ReadBodyKeeps, RegisterKeeps, DropEntryKeeps, DropReceiverKeeps DEF Client
<1>6. CASE Worker
  BY <1>6, TakeKeeps, LaggedKeeps, DeliverKeeps, SweepKeeps, RequeryKeeps, RequeryFailsKeeps DEF Worker
<1> QED
  BY <1>2, <1>3, <1>4, <1>5, <1>6 DEF Next

LEMMA HubInvariant == Spec => []HubInv
  BY HubInvInit, HubInvStep, PTL DEF Spec

-----------------------------------------------------------------------------
(* Commits only add to the history: a result once shown stays shown. *)
LEMMA ShowsKept ==
  ASSUME Histories, TypeOK, Histories', Len(log') >= Len(log),
         \A n \in 1 .. Len(hist) : hist'[n] = hist[n],
         NEW view, NEW q, NEW t \in Nat, ShowsSince(view, q, t)
  PROVE  \E n \in t .. Len(log') : view = KeyedMap(q, hist'[n + 1])
<1>1. PICK n \in t .. Len(log) : view = KeyedMap(q, hist[n + 1])
  BY DEF ShowsSince
<1>2. n \in t .. Len(log') /\ n + 1 \in 1 .. Len(hist)
  BY <1>1 DEF Histories, TypeOK
<1> QED
  BY <1>1, <1>2

(* A txid names the commit whose xid it is. *)
LEMMA PositionOfXid ==
  ASSUME NEW n \in 1 .. MaxCommits
  PROVE  PositionOf(Xid[n]) = n /\ Xid[n] \in Nat \ {0}
<1>1. Xid[n] \in Nat \ {0}
  BY XidAssumption
<1>2. \E m \in 1 .. MaxCommits : Xid[m] = Xid[n]
  OBVIOUS
<1> DEFINE m == CHOOSE m \in 1 .. MaxCommits : Xid[m] = Xid[n]
<1>3. m \in 1 .. MaxCommits /\ Xid[m] = Xid[n]
  BY <1>2
<1>4. PositionOf(Xid[n]) = m
  BY <1>1 DEF PositionOf
<1> HIDE DEF m
<1> QED
  BY <1>1, <1>3, <1>4, XidAssumption

LEMMA AnswersNamed ==
  ASSUME PromiseInv, NEW id \in Ids
  PROVE  /\ PositionOf(stream[id].txid) \in 0 .. recvd
         /\ recvd \in Nat /\ Len(log) \in Nat /\ recvd <= MaxCommits
<1>1. recvd \in Nat /\ Len(log) \in Nat /\ recvd <= MaxCommits
  BY XidAssumption DEF PromiseInv, TypeOK, Histories
<1>2. CASE stream[id].txid = 0
  BY <1>1, <1>2 DEF PositionOf
<1>3. ASSUME NEW n \in 1 .. recvd, stream[id].txid = Xid[n] PROVE PositionOf(stream[id].txid) \in 0 .. recvd
  BY <1>1, <1>3, PositionOfXid, XidAssumption
<1> QED
  BY <1>1, <1>2, <1>3 DEF PromiseInv, AnswersBounded

LEMMA PromiseInit == Init => PromiseInv
<1> SUFFICES ASSUME Init PROVE PromiseInv
  OBVIOUS
<1> USE MaxIdsAssumption DEF Init, Ids, Registered, NoStream, Receiving
<1>1. Histories
  BY DEF Histories, Databases
<1>2. TypeOK
  BY XidAssumption DEF TypeOK
<1>3. AnswersBounded /\ RequeryShows /\ UpToDateCovers
  BY DEF AnswersBounded, RequeryShows, UpToDateCovers
<1> QED
  BY <1>1, <1>2, <1>3 DEF PromiseInv

(* A transaction yields a database again. *)
LEMMA CommitPromise ==
  ASSUME HubInv, PromiseInv, NEW txn \in Txns, Commit(txn)
  PROVE  PromiseInv'
<1> DEFINE next == [t \in Tables |-> [k \in Keys |->
                  IF \E w \in txn : w[1] = t /\ w[2] = k
                  THEN (CHOOSE w \in txn : w[1] = t /\ w[2] = k)[3]
                  ELSE db[t][k]]]
<1>1. Histories /\ TypeOK
  BY DEF PromiseInv
<1>2. db \in Databases
  BY <1>1 DEF Histories, TypeOK, db
<1>3. ASSUME NEW t \in Tables, NEW k \in Keys, \E w \in txn : w[1] = t /\ w[2] = k
      PROVE  (CHOOSE w \in txn : w[1] = t /\ w[2] = k)[3] \in Vals \cup {NoRow}
  BY <1>3, TxnsAssumption
<1>4. next \in Databases
  BY <1>2, <1>3 DEF Databases
<1>5. Writes(txn) \in SUBSET Tables
  BY TxnsAssumption DEF Writes
<1>6. hist' = Append(hist, next) /\ log' = Append(log, Writes(txn))
  BY DEF Commit
<1> HIDE DEF next
<1>7. Histories' /\ Len(log') = Len(log) + 1 /\ Len(hist') = Len(hist) + 1
      /\ \A n \in 1 .. Len(hist) : hist'[n] = hist[n]
  BY <1>1, <1>4, <1>5, <1>6 DEF Histories
<1>8. TypeOK'
  BY <1>1, <1>7, XidAssumption DEF TypeOK, Commit, Registered, Histories
<1>9. AnswersBounded'
  BY DEF PromiseInv, AnswersBounded, Commit
<1>10. RequeryShows'
  <2> SUFFICES ASSUME worker.pc = "deliver"
               PROVE  \E n \in recvd .. Len(log') :
                          worker.next = KeyedMap(stream[worker.id].q, hist'[n + 1])
    BY DEF RequeryShows, ShowsSince, Commit
  <2>1. ShowsSince(worker.next, stream[worker.id].q, recvd) /\ recvd \in Nat
    <3>1. recvd \in Nat
      BY <1>1 DEF TypeOK, Histories
    <3> QED
      BY <3>1 DEF PromiseInv, RequeryShows
  <2>2. Len(log') >= Len(log)
    BY <1>1, <1>7 DEF Histories
  <2> QED
    BY <1>1, <1>7, <2>1, <2>2, ShowsKept
<1>11. UpToDateCovers'
  <2> SUFFICES ASSUME NEW id \in Ids, stream[id].txid # 0
               PROVE  \E n \in PositionOf(stream[id].txid) .. Len(log') :
                          stream[id].view = KeyedMap(stream[id].q, hist'[n + 1])
    BY DEF UpToDateCovers, ShowsSince, Commit
  <2>1. /\ ShowsSince(stream[id].view, stream[id].q, PositionOf(stream[id].txid))
        /\ PositionOf(stream[id].txid) \in Nat
    BY <1>1, AnswersNamed DEF PromiseInv, UpToDateCovers
  <2> QED
    BY <1>1, <1>7, <2>1, ShowsKept DEF Histories
<1> QED
  BY <1>7, <1>8, <1>9, <1>10, <1>11 DEF PromiseInv

LEMMA RegisterPromise ==
  ASSUME HubInv, PromiseInv, NEW c \in Clients, Register(c)
  PROVE  PromiseInv'
<1> USE MaxIdsAssumption DEF Registered, Drawn, Ids
<1>1. /\ nextId \in Ids /\ nextId' = nextId + 1
      /\ \A id \in Ids : id # nextId => subs'[id] = subs[id] /\ stream'[id] = stream[id]
      /\ stream'[nextId].txid = 0
      /\ UNCHANGED <<hist, log, fed, recvd, worker>>
  BY DEF Register, HubInv, Shapes, Stream, feed
<1>2. Histories'
  BY <1>1 DEF PromiseInv, Histories
<1>3. TypeOK'
  BY <1>1 DEF PromiseInv, TypeOK
<1>4. AnswersBounded'
  BY <1>1 DEF PromiseInv, AnswersBounded, TypeOK
<1>5. RequeryShows'
  BY <1>1 DEF HubInv, JobsCurrent, PromiseInv, RequeryShows, ShowsSince
<1>6. UpToDateCovers'
  BY <1>1 DEF PromiseInv, UpToDateCovers, ShowsSince
<1> QED
  BY <1>2, <1>3, <1>4, <1>5, <1>6 DEF PromiseInv

(* A step that moves no commit, no job and, of the streams in use, only    *)
(* the marks `open` and `reset`. *)
LEMMA MarksPromise ==
  ASSUME HubInv, PromiseInv,
         UNCHANGED <<hist, log, fed, nextId>>, recvd' \in recvd .. fed,
         \/ UNCHANGED <<worker, recvd>>
         \/ worker'.pc = "recv"
         \/ worker'.pc = "jobs" /\ recvd' > 0 /\ worker'.txid = Xid[recvd'],
         \A id \in Ids : stream'[id] = stream[id]
            \/ /\ id < nextId
               /\ stream'[id].txid = stream[id].txid /\ stream'[id].view = stream[id].view
               /\ stream'[id].q = stream[id].q,
         \A id \in Ids : subs'[id] # NoSub => subs[id] # NoSub
  PROVE  PromiseInv'
<1> USE DEF Registered, Drawn, Ids
<1>1. Histories'
  BY DEF PromiseInv, Histories
<1>2. TypeOK'
  BY DEF PromiseInv, TypeOK
<1>3. AnswersBounded'
  BY DEF PromiseInv, AnswersBounded, TypeOK
<1>4. RequeryShows'
  BY DEF HubInv, JobsCurrent, PromiseInv, RequeryShows, ShowsSince
<1>5. UpToDateCovers'
  BY DEF PromiseInv, UpToDateCovers, ShowsSince
<1> QED
  BY <1>1, <1>2, <1>3, <1>4, <1>5 DEF PromiseInv

LEMMA ClientPromise ==
  ASSUME HubInv, PromiseInv, NEW c \in Clients, Client(c)
  PROVE  PromiseInv'
<1>1. recvd \in recvd .. fed
  BY DEF PromiseInv, TypeOK, Histories
<1>2. CASE \E q \in Queries : ReadBody(c, q)
  BY <1>1, <1>2, MarksPromise DEF ReadBody, feed
<1>3. CASE DropEntry(c)
  <2>1. /\ UNCHANGED <<hist, log, fed, nextId, recvd, worker, stream>>
        /\ \A id \in Ids : subs'[id] # NoSub => subs[id] # NoSub
    BY <1>3 DEF DropEntry, feed, HubInv, Shapes
  <2> QED
    BY <1>1, <2>1, MarksPromise
<1>4. CASE DropReceiver(c)
  <2>1. /\ UNCHANGED <<hist, log, fed, nextId, recvd, worker, subs>>
        /\ \A id \in Ids : stream'[id] = stream[id]
              \/ /\ id < nextId
                 /\ stream'[id].txid = stream[id].txid /\ stream'[id].view = stream[id].view
                 /\ stream'[id].q = stream[id].q
    BY <1>4 DEF DropReceiver, feed, HubInv, Shapes, ClientsHold, Drawn, Stream
  <2> QED
    BY <1>1, <2>1, MarksPromise
<1> QED
  BY <1>2, <1>3, <1>4, RegisterPromise DEF Client

LEMMA ResetMarks ==
  ASSUME HubInv, NEW ids, \A id \in ids : id \in Ids /\ subs[id] # NoSub, SendReset(ids)
  PROVE  \A id \in Ids : stream'[id] = stream[id]
            \/ /\ id < nextId
               /\ stream'[id].txid = stream[id].txid /\ stream'[id].view = stream[id].view
               /\ stream'[id].q = stream[id].q
  BY DEF SendReset, HubInv, Shapes, Drawn, Registered, Stream

LEMMA DeliverPromise ==
  ASSUME HubInv, PromiseInv, Deliver
  PROVE  PromiseInv'
<1> USE DEF Registered, Drawn, Ids
<1>1. /\ UNCHANGED <<hist, log, fed, recvd, nextId>>
      /\ worker'.pc = "jobs" /\ recvd' > 0 /\ worker'.txid = Xid[recvd'] /\ worker.txid = Xid[recvd]
      /\ recvd \in 1 .. MaxCommits
      /\ worker.id \in Ids /\ worker.id < nextId
      /\ recvd \in recvd .. fed
  BY XidAssumption DEF Deliver, feed, PromiseInv, TypeOK, Histories, HubInv, JobsCurrent
<1>2. CASE subs[worker.id] = NoSub
  BY <1>1, <1>2, DeliverFrame, MarksPromise
<1>3. CASE subs[worker.id] # NoSub
  <2>1. /\ stream'[worker.id].view = worker.next /\ stream'[worker.id].txid = Xid[recvd]
        /\ stream'[worker.id].q = stream[worker.id].q
        /\ \A i \in Ids : i # worker.id => subs'[i] = subs[i] /\ stream'[i] = stream[i]
    BY <1>1, <1>3, DeliverFrame, DeliverEffect DEF Stream
  <2>2. ShowsSince(worker.next, stream[worker.id].q, recvd)
    BY <1>1, DeliverFrame DEF PromiseInv, RequeryShows
  <2>3. Histories'
    BY <1>1 DEF PromiseInv, Histories
  <2>4. TypeOK'
    BY <1>1, <2>1 DEF PromiseInv, TypeOK
  <2>5. AnswersBounded' /\ RequeryShows'
    BY <1>1, <2>1 DEF PromiseInv, AnswersBounded, RequeryShows, TypeOK
  <2>6. UpToDateCovers'
    BY <1>1, <2>1, <2>2, PositionOfXid DEF PromiseInv, UpToDateCovers, ShowsSince
  <2> QED
    BY <2>3, <2>4, <2>5, <2>6 DEF PromiseInv
<1> QED
  BY <1>2, <1>3

LEMMA RequeryPromise ==
  ASSUME HubInv, PromiseInv, NEW id \in Ids, Requery(id)
  PROVE  PromiseInv'
<1>1. /\ UNCHANGED <<hist, log, fed, recvd, nextId, subs, stream>>
      /\ worker'.pc = "deliver" /\ recvd > 0 /\ worker'.txid = Xid[recvd] /\ worker'.id = id
      /\ worker'.next = KeyedMap(stream[id].q, hist[Len(hist)])
  BY DEF Requery, feed, PromiseInv, TypeOK, db
<1>2. Len(log) \in recvd .. Len(log) /\ Len(hist) = Len(log) + 1
  BY DEF PromiseInv, TypeOK, Histories
<1>3. RequeryShows'
  BY <1>1, <1>2 DEF RequeryShows, ShowsSince
<1>4. Histories' /\ TypeOK'
  BY <1>1 DEF PromiseInv, Histories, TypeOK, Registered
<1>5. AnswersBounded' /\ UpToDateCovers'
  BY <1>1 DEF PromiseInv, AnswersBounded, UpToDateCovers, ShowsSince
<1> QED
  BY <1>3, <1>4, <1>5 DEF PromiseInv

LEMMA WorkerPromise ==
  ASSUME HubInv, PromiseInv, Worker
  PROVE  PromiseInv'
<1>1. recvd \in recvd .. fed /\ fed \in Nat /\ recvd \in Nat
  BY DEF PromiseInv, TypeOK, Histories
<1>2. CASE Take
  <2>1. /\ UNCHANGED <<hist, log, fed, nextId, subs, stream>>
        /\ recvd' \in recvd .. fed /\ recvd' > 0 /\ worker'.pc = "jobs" /\ worker'.txid = Xid[recvd']
    BY <1>1, <1>2 DEF Take, feed
  <2> QED
    BY <2>1, MarksPromise
<1>3. CASE Lagged
  <2>1. /\ UNCHANGED <<hist, log, fed, nextId>>
        /\ recvd' \in recvd .. fed /\ worker'.pc = "recv"
        /\ \A id \in Ids : subs'[id] = NoSub
    BY <1>1, <1>3, CapacityAssumption DEF Lagged, Lagging, feed
  <2>2. \A id \in Ids : stream'[id] = stream[id]
            \/ /\ id < nextId
               /\ stream'[id].txid = stream[id].txid /\ stream'[id].view = stream[id].view
               /\ stream'[id].q = stream[id].q
    BY <1>3, ResetMarks DEF Lagged
  <2> QED
    BY <2>1, <2>2, MarksPromise
<1>4. CASE Sweep
  <2>1. /\ UNCHANGED <<hist, log, fed, nextId, recvd, stream>> /\ worker'.pc = "recv"
        /\ \A id \in Ids : subs'[id] # NoSub => subs[id] # NoSub
    BY <1>4 DEF Sweep, Receiving, feed
  <2> QED
    BY <1>1, <2>1, MarksPromise
<1>5. ASSUME NEW id \in Ids, RequeryFails(id)
      PROVE  PromiseInv'
  <2>1. /\ UNCHANGED <<hist, log, fed, nextId, recvd>>
        /\ worker'.pc = "jobs" /\ recvd' > 0 /\ worker'.txid = Xid[recvd']
        /\ \A i \in Ids : subs'[i] # NoSub => subs[i] # NoSub
    BY <1>5 DEF RequeryFails, feed, PromiseInv, TypeOK, HubInv, Shapes
  <2>2. \A i \in Ids : stream'[i] = stream[i]
            \/ /\ i < nextId
               /\ stream'[i].txid = stream[i].txid /\ stream'[i].view = stream[i].view
               /\ stream'[i].q = stream[i].q
    BY <1>5, ResetMarks DEF RequeryFails
  <2> QED
    BY <1>1, <2>1, <2>2, MarksPromise
<1> QED
  BY <1>2, <1>3, <1>4, <1>5, DeliverPromise, RequeryPromise DEF Worker

LEMMA PromiseStep == HubInv /\ PromiseInv /\ [Next]_vars => PromiseInv'
<1> SUFFICES ASSUME HubInv, PromiseInv, [Next]_vars PROVE PromiseInv'
  OBVIOUS
<1>1. recvd \in recvd .. fed /\ fed \in Nat /\ recvd \in Nat
  BY DEF PromiseInv, TypeOK, Histories
<1>2. CASE UNCHANGED vars
  BY <1>1, <1>2, MarksPromise DEF vars, feed
<1>3. CASE Feed
  <2>1. /\ UNCHANGED <<hist, log, recvd, worker, subs, nextId, stream>>
        /\ fed' \in 0 .. Len(log) /\ recvd \in 0 .. fed'
    BY <1>1, <1>3 DEF Feed, PromiseInv, TypeOK, Histories
  <2> QED
    BY <2>1 DEF PromiseInv, Histories, TypeOK, AnswersBounded, RequeryShows, UpToDateCovers,
                ShowsSince, Registered
<1>4. CASE Stop
  BY <1>1, <1>4, MarksPromise DEF Stop
<1> QED
  BY <1>2, <1>3, <1>4, CommitPromise, ClientPromise, WorkerPromise DEF Next

LEMMA PromiseInvariant == Spec => []PromiseInv
  BY HubInvInit, HubInvStep, PromiseInit, PromiseStep, PTL DEF Spec

(* Positions in the feed are ordered, an up-to-date names the transaction  *)
(* in hand, and only drawn ids are in use.                                 *)
THEOREM TypeCorrect == Spec => []TypeOK
<1>1. PromiseInv => TypeOK
  BY DEF PromiseInv
<1> QED
  BY <1>1, PromiseInvariant, PTL

(* up-to-date(T) is honest: the view of the stream that carried it is the  *)
(* query's result at some moment not before commit T.                      *)
THEOREM PromisesHold == Spec => []UpToDateCovers
<1>1. PromiseInv => UpToDateCovers
  BY DEF PromiseInv
<1> QED
  BY <1>1, PromiseInvariant, PTL

(* A reader that applied all it was sent holds the result the hub will     *)
(* diff against next, whoever came, left or failed meanwhile.              *)
THEOREM StreamsMatchLast == Spec => []StreamMatchesLast
<1>1. HubInv => StreamMatchesLast
  BY DEF HubInv
<1> QED
  BY <1>1, HubInvariant, PTL

(* An entry of the hub always has a receiver: LiveSubscription's Drop runs *)
(* before its fields are dropped.                                          *)
THEOREM EntriesAreOpen == Spec => []RegisteredIsOpen
<1>1. HubInv => RegisteredIsOpen
  BY DEF HubInv
<1> QED
  BY <1>1, HubInvariant, PTL

Forward(id) ==
    /\ PositionOf(stream'[id].txid) >= PositionOf(stream[id].txid)
    /\ (stream[id].reset \/ ~stream[id].open)
          => stream'[id].view = stream[id].view /\ stream'[id].txid = stream[id].txid

(* No step takes back an up-to-date or writes to a stream that has ended. *)
LEMMA ForwardStep ==
  ASSUME HubInv, PromiseInv, [Next]_vars, NEW id \in Ids, stream[id] # NoStream
  PROVE  Forward(id)
<1>1. PositionOf(stream[id].txid) \in 0 .. recvd /\ recvd \in Nat /\ id < nextId
  BY AnswersNamed DEF PromiseInv, TypeOK
<1>2. ASSUME \/ stream'[id] = stream[id]
             \/ stream'[id].txid = stream[id].txid /\ stream'[id].view = stream[id].view
      PROVE  Forward(id)
  BY <1>1, <1>2 DEF Forward
<1>3. CASE UNCHANGED stream
  BY <1>2, <1>3
<1>4. ASSUME NEW c \in Clients, Register(c)
      PROVE  Forward(id)
  <2>1. id # nextId
    BY <1>1, MaxIdsAssumption DEF HubInv, Shapes, Ids
  <2>2. stream'[id] = stream[id]
    BY <1>4, <2>1 DEF Register, HubInv, Shapes
  <2> QED
    BY <1>2, <2>2
<1>5. ASSUME NEW c \in Clients, DropReceiver(c)
      PROVE  Forward(id)
  BY <1>2, <1>5 DEF DropReceiver, HubInv, Shapes, Stream
<1>6. CASE Deliver
  <2>1. worker.txid = Xid[recvd] /\ recvd \in 1 .. MaxCommits
    BY <1>6, XidAssumption DEF Deliver, PromiseInv, TypeOK, Histories
  <2>2. CASE id # worker.id \/ subs[worker.id] = NoSub
    BY <1>2, <1>6, <2>2, DeliverFrame
  <2>3. CASE id = worker.id /\ subs[worker.id] # NoSub
    <3>1. stream[id].open /\ ~stream[id].reset /\ stream'[id].txid = Xid[recvd]
      BY <1>6, <2>1, <2>3, DeliverEffect DEF Stream
    <3>2. PositionOf(stream'[id].txid) = recvd
      BY <2>1, <3>1, PositionOfXid
    <3> QED
      BY <1>1, <3>1, <3>2 DEF Forward
  <2> QED
    BY <2>2, <2>3
<1>7. CASE Lagged
  BY <1>2, <1>7, ResetMarks DEF Lagged
<1>8. ASSUME NEW i \in Ids, RequeryFails(i)
      PROVE  Forward(id)
  BY <1>2, <1>8, ResetMarks DEF RequeryFails
<1>9. CASE UNCHANGED vars \/ (\E txn \in Txns : Commit(txn)) \/ Feed \/ Stop
           \/ (\E c \in Clients : DropEntry(c) \/ \E q \in Queries : ReadBody(c, q))
           \/ Take \/ Sweep \/ (\E i \in Ids : Requery(i))
  BY <1>3, <1>9 DEF vars, Commit, Feed, Stop, DropEntry, ReadBody, Take, Sweep, Requery
<1> QED
  BY <1>4, <1>5, <1>6, <1>7, <1>8, <1>9 DEF Next, Client, Worker

(* Whatever order upstream drew the xids in, a stream answers transactions *)
(* in the order of their commits, and once reset or dropped it is never    *)
(* written again.                                                          *)
THEOREM StreamsOnlyMoveForward == Spec => StreamsMoveForward
<1>1. HubInv /\ PromiseInv /\ [Next]_vars =>
          [\A id \in Ids : stream[id] # NoStream =>
             /\ PositionOf(stream'[id].txid) >= PositionOf(stream[id].txid)
             /\ (stream[id].reset \/ ~stream[id].open)
                   => stream'[id].view = stream[id].view /\ stream'[id].txid = stream[id].txid]_vars
  BY ForwardStep DEF Forward
<1> QED
  BY <1>1, HubInvariant, PromiseInvariant, PTL DEF Spec, StreamsMoveForward

-----------------------------------------------------------------------------
(* Why QuiescentFresh holds: what an entry holds is the result at some     *)
(* commit, and the worker has passed no matching one since, unless the     *)
(* entry is among the jobs in hand.  A table that no commit wrote is the   *)
(* same before and after.                                                  *)
Accounts(commits, states) ==
    \A a, b \in 0 .. Len(commits) : \A t \in Tables :
        a <= b /\ (\A n \in (a + 1) .. b : t \notin commits[n]) => states[a + 1][t] = states[b + 1][t]

WritesLogged == Accounts(log, hist)

BodiesRead ==
    \A c \in Clients : conn[c].pc = "register" =>
        /\ conn[c].q \in Queries /\ conn[c].at \in 0 .. Len(log)
        /\ conn[c].body = KeyedMap(conn[c].q, hist[conn[c].at + 1])

EntriesAsked == \A id \in Ids : Registered(id) => subs[id].q \in Queries /\ stream[id].q = subs[id].q

InHand(id) ==
    \/ worker.pc \in {"jobs", "deliver"} /\ id \in DOMAIN worker.jobs
    \/ worker.pc = "deliver" /\ id = worker.id

NotOvertaken(q, view) ==
    \E p \in 0 .. Len(log) :
        /\ view = KeyedMap(q, hist[p + 1])
        /\ \A n \in (p + 1) .. recvd : ~Matches(q, n)

EntriesKeepUp ==
    \A id \in Ids : Registered(id) /\ ~subs[id].gap /\ ~InHand(id) => NotOvertaken(subs[id].q, subs[id].last)

FreshInv == WritesLogged /\ BodiesRead /\ EntriesAsked /\ EntriesKeepUp

(* A result is made of the tables the query names. *)
LEMMA KeyedMapReads ==
  ASSUME NEW q \in Queries, NEW d, NEW e, \A t \in q.tables : d[t] = e[t]
  PROVE  KeyedMap(q, d) = KeyedMap(q, e)
<1>1. CASE q.pk
  <2>1. (CHOOSE t \in q.tables : TRUE) \in q.tables
    BY <1>1, QueriesAssumption
  <2> QED
    BY <1>1, <2>1 DEF KeyedMap
<1>2. CASE ~q.pk
  <2>1. \A x \in q.tables \X Keys : d[x[1]][x[2]] = e[x[1]][x[2]]
    OBVIOUS
  <2>2. {y \in q.tables \X Keys : d[y[1]][y[2]] # NoRow} = {y \in q.tables \X Keys : e[y[1]][y[2]] # NoRow}
    BY <2>1
  <2>3. Rows(q, d) = Rows(q, e)
    <3> DEFINE Y == {y \in q.tables \X Keys : e[y[1]][y[2]] # NoRow}
    <3>1. \A x \in Y : d[x[1]][x[2]] = e[x[1]][x[2]]
      BY <2>1
    <3>2. Rows(q, d) = {<<x[1], x[2], d[x[1]][x[2]]>> : x \in Y} /\ Rows(q, e) = {<<x[1], x[2], e[x[1]][x[2]]>> : x \in Y}
      BY <2>2 DEF Rows
    <3> HIDE DEF Y
    <3> QED
      BY <3>1, <3>2
  <2> QED
    BY <1>2, <2>3 DEF KeyedMap
<1> QED
  BY <1>1, <1>2

EntryFresh(id) ==
    Registered(id) =>
        /\ subs[id].q \in Queries /\ stream[id].q = subs[id].q
        /\ ~subs[id].gap /\ ~InHand(id) => NotOvertaken(subs[id].q, subs[id].last)

LEMMA FreshParts == FreshInv <=> WritesLogged /\ BodiesRead /\ \A id \in Ids : EntryFresh(id)
BY DEF FreshInv, EntriesAsked, EntriesKeepUp, EntryFresh

(* An entry that is left as it was stays fresh, however the rest of the    *)
(* hub moves, as long as the worker takes no transaction.                  *)
LEMMA EntryFrame ==
  ASSUME UNCHANGED <<hist, log, recvd>>, NEW id \in Ids, EntryFresh(id),
         Registered(id)' => /\ subs'[id] = subs[id] /\ stream'[id].q = stream[id].q
                            /\ InHand(id) => InHand(id)'
  PROVE  EntryFresh(id)'
BY DEF EntryFresh, Registered, NotOvertaken, Matches

LEMMA FreshFrame ==
  ASSUME FreshInv, UNCHANGED <<hist, log, recvd>>,
         \A c \in Clients : conn'[c] = conn[c] \/ conn'[c].pc # "register",
         \A id \in Ids : EntryFresh(id)'
  PROVE  FreshInv'
<1>1. WritesLogged'
  <2>1. WritesLogged
    BY FreshParts
  <2>2. hist' = hist /\ log' = log
    OBVIOUS
  <2> QED
    BY <2>1, <2>2 DEF WritesLogged
<1>2. BodiesRead'
  BY FreshParts DEF BodiesRead
<1> QED
  BY <1>1, <1>2 DEF FreshInv, EntriesAsked, EntriesKeepUp, EntryFresh

LEMMA FreshInit == Init => FreshInv
<1> SUFFICES ASSUME Init PROVE FreshInv
  OBVIOUS
<1>1. Len(log) = 0
  BY DEF Init
<1>2. WritesLogged
  <2>1. \A a, b \in 0 .. 0 : a = b
    OBVIOUS
  <2> QED
    BY <1>1, <2>1 DEF WritesLogged, Accounts
<1>3. BodiesRead /\ EntriesAsked /\ EntriesKeepUp
  BY DEF Init, BodiesRead, EntriesAsked, EntriesKeepUp, Registered, Off
<1> QED
  BY <1>2, <1>3 DEF FreshInv

(* A commit is in the log with every table it writes. *)
LEMMA CommitFresh ==
  ASSUME HubInv, PromiseInv, FreshInv, NEW txn \in Txns, Commit(txn)
  PROVE  FreshInv'
<1> DEFINE next == [t \in Tables |-> [k \in Keys |->
                  IF \E w \in txn : w[1] = t /\ w[2] = k
                  THEN (CHOOSE w \in txn : w[1] = t /\ w[2] = k)[3]
                  ELSE db[t][k]]]
<1>0. WritesLogged
  BY FreshParts
<1>1. /\ hist \in Seq(Databases) /\ log \in Seq(SUBSET Tables) /\ Len(hist) = Len(log) + 1 /\ Len(log) \in Nat
      /\ recvd \in 0 .. Len(log)
  BY DEF PromiseInv, Histories, TypeOK
<1>2. hist' = Append(hist, next) /\ log' = Append(log, Writes(txn)) /\ UNCHANGED <<recvd, worker, subs, stream, conn>>
  BY DEF Commit
<1>3. ASSUME NEW t \in Tables, t \notin Writes(txn) PROVE next[t] = hist[Len(log) + 1][t]
  <2>1. \A w \in txn : w[1] # t
    BY <1>3 DEF Writes
  <2>2. hist[Len(log) + 1] \in Databases
    BY <1>1
  <2>3. db = hist[Len(log) + 1]
    BY <1>1 DEF db
  <2>4. next[t] = [k \in Keys |-> db[t][k]]
    BY <2>1
  <2> QED
    BY <2>2, <2>3, <2>4 DEF Databases
<1> HIDE DEF next
<1>4. /\ Len(log') = Len(log) + 1 /\ Len(hist') = Len(hist) + 1
      /\ \A n \in 1 .. Len(log) : log'[n] = log[n]
      /\ \A n \in 1 .. Len(log) + 1 : hist'[n] = hist[n]
      /\ log'[Len(log) + 1] = Writes(txn) /\ hist'[Len(log) + 2] = next
  BY <1>1, <1>2
<1>5. WritesLogged'
  <2>1. SUFFICES ASSUME NEW a \in 0 .. Len(log'), NEW b \in 0 .. Len(log'), NEW t \in Tables,
                        a <= b, \A n \in (a + 1) .. b : t \notin log'[n]
                 PROVE  hist'[a + 1][t] = hist'[b + 1][t]
    BY DEF WritesLogged, Accounts
  <2>2. CASE b <= Len(log)
    <3>1. a \in 0 .. Len(log) /\ b \in 0 .. Len(log)
      BY <1>1, <2>1, <2>2
    <3>2. \A n \in (a + 1) .. b : t \notin log[n]
      BY <1>1, <1>4, <2>1, <3>1
    <3>3. hist[a + 1][t] = hist[b + 1][t]
      BY <1>0, <2>1, <3>1, <3>2 DEF WritesLogged, Accounts
    <3> QED
      BY <1>1, <1>4, <3>1, <3>3
  <2>3. CASE a = b
    BY <2>3
  <2>4. CASE b = Len(log) + 1 /\ a <= Len(log)
    <3>0. a \in 0 .. Len(log) /\ Len(log) \in 0 .. Len(log) /\ \A n \in (a + 1) .. Len(log) : t \notin log[n]
      BY <1>1, <1>4, <2>1, <2>4
    <3>1. hist[a + 1][t] = hist[Len(log) + 1][t]
      BY <1>0, <2>4, <3>0 DEF WritesLogged, Accounts
    <3>2. t \notin Writes(txn)
      BY <1>1, <1>4, <2>1, <2>4
    <3> QED
      BY <1>1, <1>3, <1>4, <3>1, <3>2, <2>4
  <2> QED
    BY <1>1, <1>4, <2>2, <2>3, <2>4
<1>6. BodiesRead'
  BY <1>1, <1>2, <1>4, FreshParts DEF BodiesRead
<1>7. ASSUME NEW id \in Ids PROVE EntryFresh(id)'
  <2>1. ASSUME Registered(id), NotOvertaken(subs[id].q, subs[id].last)
        PROVE  NotOvertaken(subs[id].q, subs[id].last)'
    <3>1. PICK p \in 0 .. Len(log) : /\ subs[id].last = KeyedMap(subs[id].q, hist[p + 1])
                                     /\ \A n \in (p + 1) .. recvd : ~Matches(subs[id].q, n)
      BY <2>1 DEF NotOvertaken
    <3>2. p \in 0 .. Len(log') /\ hist'[p + 1] = hist[p + 1]
      BY <1>1, <1>4
    <3>3. \A n \in (p + 1) .. recvd : log'[n] = log[n]
      BY <1>1, <1>4
    <3> QED
      BY <1>2, <3>1, <3>2, <3>3 DEF NotOvertaken, Matches
  <2> QED
    BY <1>2, <2>1, FreshParts DEF EntryFresh, Registered, InHand
<1> QED
  BY <1>5, <1>6, <1>7 DEF FreshInv, EntriesAsked, EntriesKeepUp, EntryFresh

LEMMA ReadBodyFresh ==
  ASSUME HubInv, PromiseInv, FreshInv, NEW c \in Clients, NEW q \in Queries, ReadBody(c, q)
  PROVE  FreshInv'
<1>1. /\ UNCHANGED <<hist, log, recvd, worker, subs, stream>>
      /\ conn'[c] = [pc |-> "register", q |-> q, body |-> KeyedMap(q, db), at |-> Len(log)]
      /\ \A d \in Clients \ {c} : conn'[d] = conn[d]
  BY DEF ReadBody, feed, HubInv, Shapes
<1>2. Len(log) \in Nat /\ db = hist[Len(log) + 1]
  BY DEF PromiseInv, Histories, TypeOK, db
<1>3. BodiesRead'
  BY <1>1, <1>2, FreshParts DEF BodiesRead
<1>4. WritesLogged' /\ \A id \in Ids : EntryFresh(id)'
  BY <1>1, FreshParts, EntryFrame DEF WritesLogged, Registered, InHand
<1> QED
  BY <1>3, <1>4 DEF FreshInv, EntriesAsked, EntriesKeepUp, EntryFresh

(* Registering: either the worker has passed nothing that the body does    *)
(* not show, or the entry remembers the gap.                               *)
LEMMA RegisterFresh ==
  ASSUME HubInv, PromiseInv, FreshInv, NEW c \in Clients, Register(c)
  PROVE  FreshInv'
<1> USE DEF Ids
<1>0. nextId \in Ids
  BY MaxIdsAssumption DEF Register, HubInv, Shapes
<1>1. /\ UNCHANGED <<hist, log, recvd, worker>>
      /\ subs'[nextId] = Subscription(conn[c].q, conn[c].body, \E n \in (conn[c].at + 1) .. recvd : Matches(conn[c].q, n))
      /\ stream'[nextId].q = conn[c].q
      /\ \A id \in Ids \ {nextId} : subs'[id] = subs[id] /\ stream'[id] = stream[id]
      /\ conn'[c].pc = "open" /\ \A d \in Clients \ {c} : conn'[d] = conn[d]
      /\ conn[c].pc = "register"
  BY <1>0 DEF Register, feed, HubInv, Shapes, Stream
<1>2. ASSUME NEW id \in Ids, id = nextId PROVE EntryFresh(id)'
  <2>1. /\ conn[c].q \in Queries /\ conn[c].at \in 0 .. Len(log)
        /\ conn[c].body = KeyedMap(conn[c].q, hist[conn[c].at + 1])
    BY <1>1, FreshParts DEF BodiesRead
  <2>2. /\ subs'[nextId].q = conn[c].q /\ subs'[nextId].last = conn[c].body
        /\ subs'[nextId].gap <=> \E n \in (conn[c].at + 1) .. recvd : Matches(conn[c].q, n)
    BY <1>1 DEF Subscription
  <2> QED
    BY <1>1, <1>2, <2>1, <2>2 DEF EntryFresh, Registered, NotOvertaken, Matches
<1>3. ASSUME NEW id \in Ids \ {nextId} PROVE EntryFresh(id)'
  BY <1>1, EntryFrame, FreshParts DEF Registered, InHand
<1> QED
  BY <1>1, <1>2, <1>3, FreshFrame

LEMMA DropEntryFresh ==
  ASSUME HubInv, PromiseInv, FreshInv, NEW c \in Clients, DropEntry(c)
  PROVE  FreshInv'
<1>1. /\ UNCHANGED <<hist, log, recvd, worker, stream>>
      /\ \A id \in Ids : subs'[id] = subs[id] \/ subs'[id] = NoSub
      /\ conn'[c].pc = "dropping" /\ \A d \in Clients \ {c} : conn'[d] = conn[d]
  BY DEF DropEntry, feed, HubInv, Shapes
<1>2. ASSUME NEW id \in Ids PROVE EntryFresh(id)'
  BY <1>1, EntryFrame, FreshParts DEF Registered, InHand
<1> QED
  BY <1>1, <1>2, FreshFrame

LEMMA DropReceiverFresh ==
  ASSUME HubInv, PromiseInv, FreshInv, NEW c \in Clients, DropReceiver(c)
  PROVE  FreshInv'
<1>1. /\ UNCHANGED <<hist, log, recvd, worker, subs>>
      /\ \A id \in Ids : stream'[id].q = stream[id].q
      /\ conn'[c].pc = "off" /\ \A d \in Clients \ {c} : conn'[d] = conn[d]
  BY DEF DropReceiver, feed, HubInv, Shapes, Stream, Off
<1>2. ASSUME NEW id \in Ids PROVE EntryFresh(id)'
  BY <1>1, EntryFrame, FreshParts DEF Registered, InHand
<1> QED
  BY <1>1, <1>2, FreshFrame

(* What matches the transaction taken is in hand, for the rest nothing has *)
(* happened.                                                               *)
LEMMA TakeFresh ==
  ASSUME HubInv, PromiseInv, FreshInv, Take
  PROVE  FreshInv'
<1>1. /\ UNCHANGED <<hist, log, subs, stream, conn>> /\ recvd' = recvd + 1 /\ recvd \in Nat
      /\ worker.pc = "recv" /\ worker'.pc = "jobs"
      /\ DOMAIN worker'.jobs = {i \in Ids : subs[i] # NoSub /\ Matches(subs[i].q, recvd + 1)}
  BY DEF Take, feed, PromiseInv, TypeOK
<1>2. ASSUME NEW id \in Ids PROVE EntryFresh(id)'
  <2>1. SUFFICES ASSUME subs[id] # NoSub, ~subs[id].gap, ~InHand(id)'
                 PROVE  NotOvertaken(subs[id].q, subs[id].last)'
    BY <1>1, FreshParts DEF EntryFresh, Registered
  <2>2. ~Matches(subs[id].q, recvd + 1) /\ ~InHand(id)
    BY <1>1, <2>1 DEF InHand
  <2>3. PICK p \in 0 .. Len(log) : /\ subs[id].last = KeyedMap(subs[id].q, hist[p + 1])
                                   /\ \A n \in (p + 1) .. recvd : ~Matches(subs[id].q, n)
    BY <2>1, <2>2, FreshParts DEF EntryFresh, Registered, NotOvertaken
  <2>4. \A n \in (p + 1) .. (recvd + 1) : n \in (p + 1) .. recvd \/ n = recvd + 1
    BY <1>1
  <2> QED
    BY <1>1, <2>2, <2>3, <2>4 DEF NotOvertaken, Matches
<1>3. WritesLogged' /\ BodiesRead'
  BY <1>1, FreshParts DEF WritesLogged, BodiesRead
<1> QED
  BY <1>2, <1>3 DEF FreshInv, EntriesAsked, EntriesKeepUp, EntryFresh

LEMMA LaggedFresh ==
  ASSUME HubInv, PromiseInv, FreshInv, Lagged
  PROVE  FreshInv'
<1>1. UNCHANGED <<hist, log, conn>> /\ \A id \in Ids : subs'[id] = NoSub
  BY DEF Lagged, feed
<1> QED
  BY <1>1, FreshParts DEF FreshInv, WritesLogged, BodiesRead, EntriesAsked, EntriesKeepUp, Registered

LEMMA RequeryFresh ==
  ASSUME HubInv, PromiseInv, FreshInv, NEW i \in Ids, Requery(i)
  PROVE  FreshInv'
<1>1. /\ UNCHANGED <<hist, log, recvd, subs, stream, conn>>
      /\ worker.pc = "jobs" /\ worker'.pc = "deliver" /\ worker'.id = i
      /\ DOMAIN worker'.jobs = DOMAIN worker.jobs \ {i}
  BY DEF Requery, Without, feed
<1>2. ASSUME NEW id \in Ids PROVE EntryFresh(id)'
  BY <1>1, EntryFrame, FreshParts DEF InHand
<1> QED
  BY <1>1, <1>2, FreshFrame

LEMMA RequeryFailsFresh ==
  ASSUME HubInv, PromiseInv, FreshInv, NEW i \in Ids, RequeryFails(i)
  PROVE  FreshInv'
<1>1. /\ UNCHANGED <<hist, log, recvd, conn>>
      /\ worker.pc = "jobs" /\ worker'.pc = "jobs"
      /\ DOMAIN worker'.jobs = DOMAIN worker.jobs \ {i}
      /\ subs'[i] = NoSub
      /\ \A id \in Ids \ {i} : subs'[id] = subs[id] /\ stream'[id] = stream[id]
  BY DEF RequeryFails, Without, SendReset, HubInv, Shapes, feed
<1>2. ASSUME NEW id \in Ids PROVE EntryFresh(id)'
  BY <1>1, EntryFrame, FreshParts DEF InHand, Registered
<1> QED
  BY <1>1, <1>2, FreshFrame

(* The answer shows everything since the transaction that was taken. *)
LEMMA DeliverFresh ==
  ASSUME HubInv, PromiseInv, FreshInv, Deliver
  PROVE  FreshInv'
<1>1. /\ UNCHANGED <<hist, log, recvd, conn>> /\ worker.pc = "deliver" /\ worker'.pc = "jobs"
      /\ worker'.jobs = worker.jobs /\ worker.id \in Ids
      /\ \A i \in Ids : i # worker.id => subs'[i] = subs[i] /\ stream'[i] = stream[i]
      /\ subs[worker.id] = NoSub => subs' = subs
  BY DeliverFrame DEF Deliver, feed, PromiseInv, TypeOK
<1>2. ASSUME NEW id \in Ids, id # worker.id PROVE EntryFresh(id)'
  BY <1>1, <1>2, EntryFrame, FreshParts DEF InHand
<1>3. ASSUME NEW id \in Ids, id = worker.id PROVE EntryFresh(id)'
  <2>1. CASE subs[worker.id] = NoSub
    BY <1>1, <1>3, <2>1 DEF EntryFresh, Registered
  <2>2. CASE subs[worker.id] # NoSub
    <3>1. /\ stream'[worker.id].q = stream[worker.id].q
          /\ subs'[worker.id].last = worker.next
          /\ subs'[worker.id].q = subs[worker.id].q
      <4>1. stream[worker.id].open
        BY <2>2, DeliverEffect
      <4>2. subs'[worker.id] = Subscription(subs[worker.id].q, worker.next, FALSE)
        BY <1>1, <2>2, <4>1 DEF Deliver, HubInv, Shapes
      <4>3. stream'[worker.id].q = stream[worker.id].q
        BY <2>2, DeliverEffect DEF Stream
      <4> QED
        BY <4>2, <4>3 DEF Subscription
    <3>2. PICK p \in recvd .. Len(log) : worker.next = KeyedMap(stream[worker.id].q, hist[p + 1])
      BY <1>1 DEF PromiseInv, RequeryShows, ShowsSince
    <3>3. p \in 0 .. Len(log) /\ \A n \in (p + 1) .. recvd : FALSE
      BY <3>2 DEF PromiseInv, TypeOK, Histories
    <3>4. subs[worker.id].q \in Queries /\ stream[worker.id].q = subs[worker.id].q
      BY <1>1, <2>2, FreshParts DEF EntryFresh, Registered
    <3> QED
      BY <1>1, <1>3, <3>1, <3>2, <3>3, <3>4 DEF EntryFresh, NotOvertaken
  <2> QED
    BY <2>1, <2>2
<1> QED
  BY <1>1, <1>2, <1>3, FreshFrame

LEMMA SweepFresh ==
  ASSUME HubInv, PromiseInv, FreshInv, Sweep
  PROVE  FreshInv'
<1>1. /\ UNCHANGED <<hist, log, recvd, stream, conn>>
      /\ worker.pc = "jobs" /\ DOMAIN worker.jobs = {}
      /\ \A id \in Ids : subs'[id] = subs[id] \/ subs'[id] = NoSub
  BY DEF Sweep, feed
<1>2. ASSUME NEW id \in Ids PROVE EntryFresh(id)'
  BY <1>1, EntryFrame, FreshParts DEF InHand, Registered
<1> QED
  BY <1>1, <1>2, FreshFrame

LEMMA FreshStep == HubInv /\ PromiseInv /\ FreshInv /\ [Next]_vars => FreshInv'
<1>1. SUFFICES ASSUME HubInv, PromiseInv, FreshInv, [Next]_vars PROVE FreshInv'
  OBVIOUS
<1>2. ASSUME UNCHANGED <<hist, log, recvd, worker, subs, stream, conn>> PROVE FreshInv'
  <2>1. ASSUME NEW id \in Ids PROVE EntryFresh(id)'
    BY <1>1, <1>2, EntryFrame, FreshParts DEF InHand
  <2> QED
    BY <1>1, <1>2, <2>1, FreshFrame
<1>3. CASE UNCHANGED vars
  BY <1>2, <1>3 DEF vars, feed
<1>4. CASE Feed \/ Stop
  BY <1>2, <1>4 DEF Feed, Stop
<1>5. CASE \E c \in Clients : Client(c)
  BY <1>1, <1>5, ReadBodyFresh, RegisterFresh, DropEntryFresh, DropReceiverFresh DEF Client
<1>6. CASE Worker
  BY <1>1, <1>6, TakeFresh, LaggedFresh, DeliverFresh, SweepFresh, RequeryFresh, RequeryFailsFresh DEF Worker
<1> QED
  BY <1>1, <1>3, <1>4, <1>5, <1>6, CommitFresh DEF Next

(* Once the worker has caught up, nothing matching came after what an      *)
(* entry holds, so the tables it is about are as they were.                *)
LEMMA CaughtUpIsFresh == PromiseInv /\ FreshInv => QuiescentFresh
<1>1. SUFFICES ASSUME PromiseInv, FreshInv, Quiescent, NEW id \in Ids, Registered(id), ~subs[id].gap
               PROVE  subs[id].last = KeyedMap(subs[id].q, db)
  BY DEF QuiescentFresh
<1> DEFINE q == subs[id].q
<1>2. q \in Queries /\ ~InHand(id) /\ recvd = Len(log) /\ Len(log) \in Nat /\ db = hist[Len(log) + 1]
  BY <1>1, FreshParts DEF EntryFresh, Quiescent, InHand, PromiseInv, TypeOK, Histories, db
<1>3. PICK p \in 0 .. Len(log) : /\ subs[id].last = KeyedMap(q, hist[p + 1])
                                 /\ \A n \in (p + 1) .. recvd : ~Matches(q, n)
  BY <1>1, <1>2, FreshParts DEF EntryFresh, NotOvertaken
<1>4. \A t \in q.tables : \A n \in (p + 1) .. Len(log) : t \notin log[n]
  BY <1>2, <1>3 DEF Matches
<1>5. \A t \in q.tables : hist[p + 1][t] = hist[Len(log) + 1][t]
  BY <1>1, <1>2, <1>4, QueriesAssumption, FreshParts DEF WritesLogged, Accounts
<1> HIDE DEF q
<1>6. KeyedMap(q, hist[p + 1]) = KeyedMap(q, hist[Len(log) + 1])
  BY <1>2, <1>5, KeyedMapReads
<1> QED
  BY <1>2, <1>3, <1>6 DEF q

(* No commit is lost on the way to a subscriber: once the feed is drained, *)
(* every entry that was not overtaken while registering holds the current  *)
(* result.                                                                 *)
THEOREM DrainedIsFresh == Spec => []QuiescentFresh
  BY HubInvInit, HubInvStep, PromiseInit, PromiseStep, FreshInit, FreshStep, CaughtUpIsFresh, PTL DEF Spec

=============================================================================
