--------------------------- MODULE MCPrimaryNode ---------------------------
EXTENDS PrimaryNode, TLC

CONSTANTS n1, n2, w, x, f1, f2, g2, s1, s2, s3, a1, a2

(* f2 and g2 carry the same ordinal. *)
MCOrdinal == f1 :> 1 @@ f2 :> 2 @@ g2 :> 2

MCDirs == <<w, x>>

MCTopologies == n1 :> 0 @@ n2 :> 1

MCAttached == n1 :> 0 @@ n2 :> 1

MCHost == [t \in Appliers |-> n1]

(* f2 edited (to a destructive content too), renamed or doubled, and a     *)
(* first file for the second app.                                          *)
MCChanges ==
    [app : {w}, files : {f1 :> s1 @@ f2 :> s2, f1 :> s1 @@ f2 :> s3, f1 :> s1 @@ g2 :> s1,
                         f1 :> s1 @@ f2 :> s1 @@ g2 :> s1}]
        \cup [app : {x}, files : {f1 :> s1}]

Swap == Permutations(Appliers)

Rows(files) == [k \in {<<w, n>> : n \in DOMAIN files} |-> files[k[2]]]

(* A fresh directory, one where an older program has applied f1 before the *)
(* ledger had it and f2 since, and one where it ran f1 with another        *)
(* content.                                                                *)
MCOrigins ==
    LET from(l, g, gs) == [disk |-> w :> (f1 :> s1 @@ f2 :> s1) @@ x :> <<>>, ledger |-> l,
                           legacy |-> g, schemas |-> <<>>, legacySchemas |-> gs]
    IN  { from(<<>>, NoTable, NoTable),
          from(Rows(f1 :> s1), Rows(f1 :> s1 @@ f2 :> s1), w :> {<<w, f1>>}),
          from(Rows(f1 :> s1), Rows(f1 :> s2), NoTable) }
=============================================================================
