------------------------------ MODULE MCPublishSite ------------------------------
(* Instances of PublishSite for TLC. *)
EXTENDS PublishSite
=============================================================================
