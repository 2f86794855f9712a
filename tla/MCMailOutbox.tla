----------------------------- MODULE MCMailOutbox -----------------------------
(* Model-checking instance of the mail outbox. *)
EXTENDS MailOutbox
=============================================================================
