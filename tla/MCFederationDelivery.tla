------------------------- MODULE MCFederationDelivery -------------------------
(* Model-checking instance of the federation delivery queue. *)
EXTENDS FederationDelivery
=============================================================================
