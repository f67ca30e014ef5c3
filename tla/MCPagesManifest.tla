----------------------------- MODULE MCPagesManifest -----------------------------
(* Instances of PagesManifest for TLC. *)
EXTENDS PagesManifest

CONSTANTS p, q, x, y, a, b

MCPaths == {p, q}
MCHashes == {x, y}
MCSavers == {a, b}
MCStamps == 1..3

(* Two manifests of the same files with other bytes, and one that lacks a  *)
(* file: what it takes to tell a mixture from either of its parts.         *)
MCOffers == {[f \in {p, q} |-> x], [f \in {p, q} |-> y], [f \in {p} |-> y]}
=============================================================================
