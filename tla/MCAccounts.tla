------------------------------ MODULE MCAccounts ------------------------------
(***************************************************************************)
(* Model-checking instance of what an account hands out and takes back:    *)
(* its credentials, and the tokens of OAuth applications.  A behaviour is  *)
(* about one of the two, chosen at the start.                              *)
(***************************************************************************)
EXTENDS Credentials, OAuthServer, TLC

VARIABLE subject

\* What a behaviour is not about has one initial state.
AccountsInit ==
  /\ subject \in {"credentials", "oauth"}
  /\ CredentialsInit /\ Init
  /\ subject # "credentials" => focus = "lockout"
  /\ subject # "oauth" => rowLocks

AccountsNext ==
  \/ subject = "credentials" /\ CredentialsNext /\ UNCHANGED <<subject, vars>>
  \/ subject = "oauth" /\ Next /\ UNCHANGED <<subject, credentialVars>>

AccountsSpec == AccountsInit /\ [][AccountsNext]_<<subject, credentialVars, vars>>

\* Keys and codes, callers and requests may have the same values in a cfg: no
\* state holds both.
Symmetry == UNION {Permutations(S) : S \in {Callers, WebAuthnKeys, Codes, Families, Requests}}
=============================================================================
