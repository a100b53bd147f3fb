--------------------------- MODULE TanstackClient ---------------------------
(***************************************************************************)
(* packages/tanstack-db: the sync engine that keeps a TanStack DB          *)
(* collection equal to a live query (core.ts), and the tracker that        *)
(* confirms optimistic writes by transaction id (txid.ts).  The server is  *)
(* reduced to what LiveHub promises: an inline snapshot, then for each     *)
(* transaction the deltas to the result of the moment and an up-to-date,   *)
(* or a reset that ends the stream.                                        *)
(*                                                                         *)
(* A result is a function from row id to value: getKey is taken to tell    *)
(* the rows of a result apart, as packages/tanstack-db/README.md:85 asks.  *)
(* hist[n + 1] is the result after commit n; the number also stands for    *)
(* the txid, which the tracker only compares for equality.                 *)
(***************************************************************************)
EXTENDS Naturals, Sequences, SequencesExt, RowDiff

CONSTANTS
    Keys, Vals,
    Unsubscribed,
    HashKeyed,   \* the server keys rows by a hash (joins), not by primary key
    MayReject,   \* the collection may refuse an insert over a different row
    Timeouts,    \* awaitTxId may time out
    MaxSeen,     \* MAX_SEEN of txid.ts
    MaxCommits,  \* bound: transactions
    MaxOurs,     \* bound: transactions of this application among them
    MaxLosses    \* bound: broken connections and resets

ASSUME BoundsAssumption == MaxSeen \in Nat \ {0} /\ MaxLosses \in Nat

VARIABLES
    hist,     \* the query's result after each transaction
    handled,  \* the transactions the hub's worker has handled
    last,     \* the subscription's `last`, Unsubscribed without one
    wire,     \* frames sent and not yet read
    pc,       \* the engine: "waiting" to connect, "open" or "stopped"
    loaded,   \* the snapshot of this connection was applied
    ready,    \* markReady was called
    seen,     \* keys written on this connection
    pending,  \* key -> operation of the batch being read
    coll,     \* the collection's synced rows
    left,     \* history: those it was left with when a connection last ended
    txids,    \* TxidTracker.seen, oldest first
    status,   \* each transaction: someone else's, or how our write stands
    losses,
    shown     \* history: the result the last boundary frame stands for, and
              \* the transaction it includes

server == <<hist, handled>>
link == <<last, wire, losses>>
engine == <<pc, loaded, ready, seen, pending, coll, left, shown>>
tracker == <<txids, status>>
vars == <<server, link, engine, tracker>>

Empty == [k \in {} |-> k]

Now == hist[Len(hist)]

Latest == Len(hist) - 1

Minus(f, k) == [x \in DOMAIN f \ {k} |-> f[x]]

Put(f, k, v) == [x \in DOMAIN f \cup {k} |-> IF x = k THEN v ELSE f[x]]

Rows(res) == {<<k, res[k]>> : k \in DOMAIN res}

-----------------------------------------------------------------------------
(* The server: transactions of this application and of others. *)
Commit(res, owner) ==
    /\ Latest < MaxCommits
    /\ owner = "ours" => Len(SelectSeq(status, LAMBDA s : s # "other")) < MaxOurs
    /\ hist' = Append(hist, res)
    /\ status' = Append(status, owner)
    /\ UNCHANGED <<handled, link, engine, txids>>

KeyedMap(res) ==
    IF HashKeyed THEN [r \in Rows(res) |-> r] ELSE [k \in DOMAIN res |-> <<k, res[k]>>]

Change(d, n) == [kind |-> "change", op |-> d.op, row |-> d.row, txid |-> n]

(* The order of frames in one cycle: diff walks next, then prev. *)
Cycle(deltas, n) ==
    LET ups == SetToSeq({Change(d, n) : d \in Upserts(deltas)})
        dels == SetToSeq({Change(d, n) : d \in Deletes(deltas)})
    IN  ups \o dels \o <<[kind |-> "up-to-date", txid |-> n, res |-> Now, at |-> Latest]>>

(* on_commit for one transaction: the query sees what is committed by now. *)
Handle ==
    /\ handled < Latest
    /\ handled' = handled + 1
    /\ IF last = Unsubscribed
       THEN UNCHANGED <<last, wire>>
       ELSE /\ wire' = wire \o Cycle(Diff(KeyedMap(last), KeyedMap(Now)), handled + 1)
            /\ last' = Now
    /\ UNCHANGED <<hist, losses, engine, tracker>>

(* The broadcast lagged or the query failed. *)
Reset ==
    /\ last # Unsubscribed /\ losses < MaxLosses
    /\ last' = Unsubscribed
    /\ wire' = Append(wire, [kind |-> "reset"])
    /\ losses' = losses + 1
    /\ UNCHANGED <<server, engine, tracker>>

-----------------------------------------------------------------------------
(* The engine: connect *)

Connect ==
    /\ pc = "waiting"
    /\ pc' = "open"
    /\ pending' = Empty
    /\ last' = Now
    /\ wire' = <<[kind |-> "snapshot", rows |-> Now, at |-> Latest]>>
    /\ UNCHANGED <<server, losses, loaded, ready, seen, coll, left, shown, tracker>>

(* The request is refused or does not get through: connect throws. *)
ConnectFails ==
    /\ pc = "waiting" /\ ~ready
    /\ ready' = TRUE
    /\ UNCHANGED <<server, link, pc, loaded, seen, pending, coll, left, shown, tracker>>

(* connect returned or threw; run aborts the request and waits, and the    *)
(* collection stays with these rows.                                       *)
Disconnect(rows) ==
    /\ pc' = "waiting"
    /\ coll' = rows /\ left' = rows
    /\ loaded' = FALSE
    /\ pending' = Empty
    /\ last' = Unsubscribed
    /\ wire' = <<>>

(* The connection breaks or the server closes it (only the former makes    *)
(* connect throw); frames on the wire are lost.                            *)
Break ==
    /\ pc = "open" /\ losses < MaxLosses
    /\ losses' = losses + 1
    /\ Disconnect(coll)
    /\ ready' \in {ready, TRUE}
    /\ UNCHANGED <<server, seen, shown, tracker>>

Frame(kind) ==
    /\ pc = "open" /\ wire # <<>>
    /\ Head(wire).kind = kind

(* The definitions named ...Fault are deliberate faults; the model does    *)
(* not use them.  Each stands for a slip in the definition that follows it *)
(* and is put in its place to see that a property notices.                 *)

(* Fault: nothing is ever evicted. *)
RecordFault(n) ==
    LET kept == IF \E i \in DOMAIN txids : txids[i] = n THEN txids ELSE Append(txids, n)
    IN  /\ txids' = kept
        /\ status' = [i \in DOMAIN status |->
                        IF status[i] = "awaiting" /\ \E j \in DOMAIN kept : kept[j] = i
                        THEN "confirmed" ELSE status[i]]

(* Fault: a waiter does not check which txid arrived. *)
RecordAnyFault(n) ==
    /\ txids' = IF Len(txids) < MaxSeen THEN Append(txids, n) ELSE Append(Tail(txids), n)
    /\ status' = [i \in DOMAIN status |->
                    IF status[i] = "awaiting" THEN "confirmed" ELSE status[i]]

(* TxidTracker.record: the set keeps the MaxSeen newest, waiters check. *)
Record(n) ==
    LET all == IF \E i \in DOMAIN txids : txids[i] = n THEN txids ELSE Append(txids, n)
        kept == IF Len(all) > MaxSeen THEN Tail(all) ELSE all
    IN  /\ txids' = kept
        /\ status' = [i \in DOMAIN status |->
                        IF status[i] = "awaiting" /\ \E j \in DOMAIN kept : kept[j] = i
                        THEN "confirmed" ELSE status[i]]

(* The collection refuses an insert of a key it holds with another value. *)
Refused(k, v) == MayReject /\ k \in DOMAIN coll /\ coll[k] # v

(* applyRows: all rows in one collection transaction, no truncate. *)
Snapshot ==
    /\ Frame("snapshot")
    /\ LET rows == Head(wire).rows
       IN  /\ seen' = DOMAIN rows
           /\ coll' = [k \in DOMAIN coll \cup DOMAIN rows |->
                          IF k \in DOMAIN rows THEN rows[k] ELSE coll[k]]
           /\ shown' = [res |-> rows, at |-> Head(wire).at]
    /\ loaded' = TRUE /\ ready' = TRUE
    /\ wire' = Tail(wire)
    /\ UNCHANGED <<server, last, losses, pc, pending, left, tracker>>

(* A write throws: connect rejects, the open transaction is abandoned.     *)
(* (What is left in seen is cleared by the next snapshot before it is      *)
(* read again; likewise below.)                                            *)
SnapshotRefused ==
    /\ Frame("snapshot")
    /\ \E k \in DOMAIN Head(wire).rows : Refused(k, Head(wire).rows[k])
    /\ Disconnect(coll)
    /\ seen' = {}
    /\ ready' = TRUE
    /\ UNCHANGED <<server, losses, shown, tracker>>

(* An insert or update joins the batch. *)
Upsert ==
    /\ Frame("change") /\ Head(wire).op # "delete"
    /\ pending' = Put(pending, Head(wire).row[1], [type |-> "upsert", value |-> Head(wire).row[2]])
    /\ Record(Head(wire).txid)
    /\ wire' = Tail(wire)
    /\ UNCHANGED <<server, last, losses, pc, loaded, ready, seen, coll, left, shown>>

(* Fault: a delete always wins. *)
DeleteFault ==
    /\ Frame("change") /\ Head(wire).op = "delete"
    /\ pending' = Put(pending, Head(wire).row[1], [type |-> "delete"])
    /\ Record(Head(wire).txid)
    /\ wire' = Tail(wire)
    /\ UNCHANGED <<server, last, losses, pc, loaded, ready, seen, coll, left, shown>>

(* A delete joins it unless the same row was written in the batch. *)
Delete ==
    /\ Frame("change") /\ Head(wire).op = "delete"
    /\ LET k == Head(wire).row[1]
       IN  pending' = IF k \in DOMAIN pending /\ pending[k].type = "upsert"
                      THEN pending ELSE Put(pending, k, [type |-> "delete"])
    /\ Record(Head(wire).txid)
    /\ wire' = Tail(wire)
    /\ UNCHANGED <<server, last, losses, pc, loaded, ready, seen, coll, left, shown>>

(* up-to-date: flush applies the batch in one collection transaction. *)
Flush ==
    /\ Frame("up-to-date")
    /\ LET ups == {k \in DOMAIN pending : pending[k].type = "upsert"}
           dels == {k \in DOMAIN pending \cap seen : pending[k].type = "delete"}
       IN  /\ coll' = [k \in (DOMAIN coll \cup ups) \ dels |->
                          IF k \in ups THEN pending[k].value ELSE coll[k]]
           /\ seen' = (seen \cup ups) \ dels
    /\ pending' = Empty
    /\ shown' = [res |-> Head(wire).res, at |-> Head(wire).at]
    /\ Record(Head(wire).txid)
    /\ wire' = Tail(wire)
    /\ UNCHANGED <<server, last, losses, pc, loaded, ready, left>>

FlushRefused ==
    /\ Frame("up-to-date")
    /\ \E k \in DOMAIN pending \ seen :
          pending[k].type = "upsert" /\ Refused(k, pending[k].value)
    /\ Disconnect(coll)
    /\ Record(Head(wire).txid)
    /\ ready' = TRUE
    /\ UNCHANGED <<server, losses, seen, shown>>


(* reset: truncate, then connect returns. *)
Truncate ==
    /\ Frame("reset")
    /\ Disconnect(Empty)
    /\ seen' = {}
    /\ UNCHANGED <<server, losses, ready, shown, tracker>>

(* The collection is cleaned up; an open request is aborted and throws. *)
Stop ==
    /\ pc # "stopped"
    /\ pc' = "stopped"
    /\ ready' = (ready \/ pc = "open")
    /\ loaded' = FALSE /\ pending' = Empty /\ last' = Unsubscribed /\ wire' = <<>>
    /\ left' = coll
    /\ UNCHANGED <<server, losses, seen, coll, shown, tracker>>

-----------------------------------------------------------------------------
(* A write handler returned its txid: awaitTxId. *)
Await(n) ==
    /\ status[n] = "ours"
    /\ status' = [status EXCEPT ![n] =
                    IF \E i \in DOMAIN txids : txids[i] = n THEN "confirmed" ELSE "awaiting"]
    /\ UNCHANGED <<server, link, engine, txids>>

Timeout(n) ==
    /\ Timeouts /\ status[n] = "awaiting"
    /\ status' = [status EXCEPT ![n] = "rejected"]
    /\ UNCHANGED <<server, link, engine, txids>>

-----------------------------------------------------------------------------
Init ==
    /\ hist = <<Empty>> /\ handled = 0
    /\ last = Unsubscribed /\ wire = <<>> /\ losses = 0
    /\ pc = "waiting" /\ loaded = FALSE /\ ready = FALSE
    /\ seen = {} /\ pending = Empty /\ coll = Empty /\ left = Empty
    /\ shown = [res |-> Empty, at |-> 0]
    /\ txids = <<>> /\ status = <<>>

Write(owner) ==
    \E k \in Keys :
        \/ \E v \in Vals : Commit(Put(Now, k, v), owner)
        \/ k \in DOMAIN Now /\ Commit(Minus(Now, k), owner)

Read == Snapshot \/ SnapshotRefused \/ Upsert \/ Delete \/ Flush \/ FlushRefused \/ Truncate

Next ==
    \/ \E owner \in {"ours", "other"} : Write(owner)
    \/ Handle \/ Reset \/ Break
    \/ Connect \/ ConnectFails \/ Read \/ Stop
    \/ \E n \in DOMAIN status : Await(n) \/ Timeout(n)

Spec == Init /\ [][Next]_vars

(* The hub's worker runs, the reconnect timer fires, frames are read, and  *)
(* write handlers return.                                                  *)
FairSpec ==
    /\ Spec
    /\ WF_vars(Handle) /\ WF_vars(Connect) /\ WF_vars(Read)
    /\ \A n \in 1 .. MaxCommits : WF_vars(n \in DOMAIN status /\ Await(n))

-----------------------------------------------------------------------------
(* Keys and positions stay in range; the tracker stays bounded. *)
TypeOK ==
    /\ handled \in 0 .. Latest
    /\ pc \in {"waiting", "open", "stopped"}
    /\ loaded => pc = "open" /\ ready
    /\ seen \subseteq Keys /\ DOMAIN coll \subseteq Keys /\ DOMAIN pending \subseteq Keys
    /\ Len(txids) <= MaxSeen
    /\ Len(status) = Latest
    /\ losses \in 0 .. MaxLosses

Synced == [k \in seen |-> coll[k]]

(* Between boundary frames the collection shows whole transactions: the    *)
(* rows of this connection are exactly the result the last snapshot or     *)
(* up-to-date stands for, whatever deltas are waiting.  Any other row was  *)
(* there when an earlier connection ended and has not changed since: a     *)
(* snapshot does not truncate (core.ts:51-59), so what was deleted during  *)
(* an absence stays until a reset, and nothing else may.                   *)
(* The package's README (95-98) warns that for rows keyed by content live  *)
(* deletes may not apply.  They do: each carries its row (live.rs:281) and *)
(* core.ts:115-121 takes the key from the row; this holds for both keys.   *)
WholeResults ==
    loaded => /\ seen \subseteq DOMAIN coll /\ Synced = shown.res
              /\ \A k \in DOMAIN coll \ seen : k \in DOMAIN left /\ coll[k] = left[k]

(* A confirmed write is there: when no batch is half read, the rows of     *)
(* this connection include every transaction whose optimistic copy was     *)
(* dropped, across breaks, resets and reconnects.                          *)
ConfirmedIsShown ==
    loaded /\ pending = Empty =>
        \A n \in DOMAIN status : status[n] = "confirmed" => shown.at >= n


(* packages/tanstack-db/README.md:10, "writes go to **your** API, then     *)
(* replicate back through PgPaw and confirm the optimistic update".        *)
WritesConfirmed ==
    \A n \in 1 .. MaxCommits :
        (n \in DOMAIN status /\ status[n] = "awaiting")
            ~> ((n \in DOMAIN status /\ status[n] = "confirmed") \/ pc = "stopped")

=============================================================================
