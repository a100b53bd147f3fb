--------------------------- MODULE CursorVersions ---------------------------
(***************************************************************************)
(* What the version index promises to the rest of PgPaw, with nothing of   *)
(* how it does it.  A commit changes the results of some queries.  Later   *)
(* the change feed advances the index over it: a query whose result it     *)
(* changed gets the commit's position as its version, and any other query  *)
(* keeps its version or is invalidated without need.  VersionIndex         *)
(* implements this specification; QuerySnapshots is built on it.           *)
(***************************************************************************)
EXTENDS Naturals, Sequences

CONSTANTS
    Queries,    \* the classified queries that are being served
    MaxCommits  \* bound: commits considered

VARIABLES
    log,       \* log[n]: the queries whose result commit n changed
    advanced,  \* the commits the index has been advanced over
    version    \* version[q]: what version_of answers for q

cvars == <<log, advanced, version>>

CursorInit ==
    /\ log = <<>>
    /\ advanced = 0
    /\ version = [q \in Queries |-> 0]

(* The replica applies a commit that changes the results of R. *)
Commit(R) ==
    /\ Len(log) < MaxCommits
    /\ log' = Append(log, R)
    /\ UNCHANGED <<advanced, version>>

(* The feed delivers the next commit, in commit order, to the index. *)
Advance ==
    /\ advanced < Len(log)
    /\ advanced' = advanced + 1
    /\ \E bumped \in SUBSET Queries :
         /\ log[advanced + 1] \subseteq bumped
         /\ version' = [q \in Queries |->
                          IF q \in bumped THEN advanced + 1 ELSE version[q]]
    /\ UNCHANGED log

CursorNext ==
    \/ \E R \in SUBSET Queries : Commit(R)
    \/ Advance

CursorSpec == CursorInit /\ [][CursorNext]_cvars

CursorTypeOK ==
    /\ log \in Seq(SUBSET Queries) /\ Len(log) <= MaxCommits
    /\ advanced \in 0 .. Len(log)
    /\ version \in [Queries -> 0 .. advanced]

=============================================================================
