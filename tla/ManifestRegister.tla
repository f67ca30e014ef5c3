---------------------------- MODULE ManifestRegister ----------------------------
(***************************************************************************)
(* What `D1PagesManifest` promises its callers: one register that holds a  *)
(* whole manifest.  A save first offers its manifest under a stamp of its  *)
(* own; the register then moves, in one step, from what it holds to an     *)
(* offer with a later stamp.  It never shows a mixture and never goes back.*)
(* PagesManifest.tla implements it with three SQL statements on rows.      *)
(***************************************************************************)
EXTENDS Naturals

CONSTANTS Paths, Hashes, Stamps

(* A manifest maps the paths of one deployment to the hashes of their bytes. *)
Manifests == UNION {[D -> Hashes] : D \in (SUBSET Paths) \ {{}}}

VARIABLES
  offered,    \* the saves' manifests, each under the stamp its save drew
  version,    \* the stamp of the manifest the register holds, 0 for none
  current     \* the manifest the register holds

vars == <<offered, version, current>>

Nothing == [p \in {} |-> p]

Init ==
  /\ offered = {}
  /\ version = 0
  /\ current = Nothing

Offer ==
  \E t \in Stamps, m \in Manifests :
    /\ offered' = offered \cup {[stamp |-> t, man |-> m]}
    /\ UNCHANGED <<version, current>>

Replace ==
  \E g \in offered :
    /\ g.stamp > version
    /\ version' = g.stamp
    /\ current' = g.man
    /\ UNCHANGED offered

Next == Offer \/ Replace

Spec == Init /\ [][Next]_vars
=============================================================================
