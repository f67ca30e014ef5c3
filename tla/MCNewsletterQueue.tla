----------------------------- MODULE MCNewsletterQueue -----------------------------
(* Instances of NewsletterQueue for TLC. *)
EXTENDS NewsletterQueue
=============================================================================
