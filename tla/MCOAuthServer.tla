---------------------------- MODULE MCOAuthServer ----------------------------
(* Model-checking instances of the OAuth authorization server. *)
EXTENDS OAuthServer, TLC

Symmetry == Permutations(Codes) \union Permutations(Families) \union Permutations(Requests)
=============================================================================
