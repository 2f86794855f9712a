----------------------------- MODULE Credentials -----------------------------
(* The credentials of an account and the confirmations that protect them:     *)
(* auth/stepup.py, auth/policy.py, the handlers of web/routes/auth.py,         *)
(* web/routes/sso.py and web/routes/admin.py that change a credential, and the *)
(* commands `user` and `user mfa` of the CLI.                                  *)
(*                                                                             *)
(* Three things are looked at: the credentials of one account, the roles of    *)
(* the administrators and the lockout counter.  They share no column, so a     *)
(* behaviour follows one of them, its `focus`.                                 *)
(*                                                                             *)
(* A handler that locks the user row (lock_user_for_credential_change) and     *)
(* commits once is one action.  The handlers and commands that read, decide    *)
(* and write without that lock are two, with what they read in `held`.          *)
EXTENDS Naturals, FiniteSets

CONSTANTS
  WebAuthnKeys, TotpDevices,      \* ids of WebAuthn credentials and of TOTP devices
  Idents,          \* ids of linked identities of enabled providers
  Users,           \* accounts, for the roles
  Callers,         \* requests and CLI processes running at the same time
  MaxGrants,       \* bound: number of step-up grants issued
  Threshold,       \* lockout_threshold
  MaxWrong         \* bound: failed logins counted

ASSUME CredentialsAssumption ==
  /\ Threshold \in Nat \ {0}
  /\ MaxGrants \in Nat /\ MaxWrong \in Nat
  /\ WebAuthnKeys \intersect TotpDevices = {}
  /\ "admin" \notin WebAuthnKeys

Foci == {"credentials", "roles", "lockout"}
Authenticators == WebAuthnKeys \union TotpDevices
Grants == 1..MaxGrants

VARIABLES
  focus,           \* what this behaviour is about
  ssoMfa,          \* whether the settings ask for a second factor after SSO
  acc,             \* [have: the factors, pw: break-glass password, sso: identities]
  grants,           \* the step-up grants
  role,            \* role of each account
  lock,            \* [failed, locked]
  held,             \* what each worker holds
  uses,            \* how many operations each grant let pass
  wrong,           \* failed logins since the counter was last reset
  stale,           \* a decision was written after the rows it rests on had changed
  counted          \* all that a decision found left is no way to log in

credentialVars == <<focus, ssoMfa, acc, grants, role, lock, held, uses, wrong, stale, counted>>
ghosts == <<uses, wrong, stale, counted>>

\* The operations a grant is bound to: action and target.
Ops == {<<"remove_credential", f>> : f \in Authenticators}
         \union {<<"unlink", i>> : i \in Idents} \union {<<"link", i>> : i \in Idents}
         \union {<<"set_password", 0>>, <<"disable_password", 0>>, <<"add", 0>>}
PasswordOps == {"set_password", "disable_password"}
NoGrant == [op |-> <<"none", 0>>, by |-> "nobody", open |-> FALSE]
\* A grant that was consumed or has expired is only ever refused.
SpentGrant == [NoGrant EXCEPT !.by = "spent"]
NoTask == [stage |-> "idle", op |-> <<"none", 0>>, saw |-> {}, seen |-> 0]

-----------------------------------------------------------------------------
(* Policy *)

FidoOf(a) == a.have \intersect WebAuthnKeys
TotpOf(a) == a.have \intersect TotpDevices

\* requires_second_factor for an SSO login.
SsoWorks(a) == a.sso # {} /\ (ssoMfa => a.have # {})

\* usable_login_methods: TOTP is a factor, not a login alone.
LoginMethods(a) ==
  (IF FidoOf(a) # {} THEN {"webauthn"} ELSE {})
    \union (IF ~a.pw THEN {}
            ELSE IF a.have # {} THEN {"password+second_factor"} ELSE {"password_recovery"})
    \union (IF SsoWorks(a) THEN {"sso"} ELSE {})

\* usable_auth_paths, which assert_auth_path_remains wants not to be empty.
AuthPaths(a) == LoginMethods(a) \union (IF TotpOf(a) # {} THEN {"totp"} ELSE {})

\* What the login handlers let in: a passkey, SSO, or the password followed by an
\* authenticator.  breakglass_login refuses a password alone.
CanLogin(a) == FidoOf(a) # {} \/ SsoWorks(a) \/ (a.pw /\ a.have # {})

\* Paths a check accepts as what is left although none of them lets anyone in.
NoLogin(paths) == paths # {} /\ paths \subseteq {"password_recovery", "totp"}

MayRemove(a, f, by) ==
  IF f \in WebAuthnKeys
  THEN /\ by \in FidoOf(a)
       /\ FidoOf(a) # {f}
       /\ ~(Cardinality(FidoOf(a)) = 2 /\ by = f)
  ELSE /\ by \in a.have
       /\ TotpOf(a) = {f} => by \in WebAuthnKeys
       /\ ~(Cardinality(TotpOf(a)) = 2 /\ by = f)

-----------------------------------------------------------------------------
(* Step-up *)

Fresh == {g \in Grants : grants[g] = NoGrant}

\* stepup_begin; a TOTP may confirm only the removal of a TOTP.  The password is
\* changed by an administrator, with a credential of their own.
Confirming == acc.have \union {"admin"}
MayConfirm(op, f) ==
  IF op[1] \in PasswordOps THEN f = "admin"
  ELSE f \in WebAuthnKeys \/ (f \in TotpDevices /\ op[1] = "remove_credential" /\ op[2] \in TotpDevices)

\* grant_stepup.
IssueGrant(op, f) ==
  /\ focus = "credentials"
  /\ f \in Confirming /\ MayConfirm(op, f)
  /\ \E g \in Fresh : /\ \A h \in Fresh : g <= h
                      /\ grants' = [grants EXCEPT ![g] = [op |-> op, by |-> f, open |-> TRUE]]
  /\ UNCHANGED <<focus, ssoMfa, acc, role, lock, held, ghosts>>

\* From stepup_begin to the grant: the ceremony is bound to the session and
\* consumed before the proof is verified; whatever happens between its steps can
\* only make it fail.
StepupComplete(op) == \E f \in WebAuthnKeys \union {"admin"} : IssueGrant(op, f)
StepupTotpComplete(op) == \E f \in TotpDevices : IssueGrant(op, f)

\* assert_stepup: one guarded UPDATE per grant in the cookie finds the grant of
\* exactly this operation and consumes it.
\* Mutant: the grant is looked up but not consumed.
ConsumedNot(g) == grants
Matches(g, op) == grants[g].open /\ grants[g].op = op
Consumed(g) == [grants EXCEPT ![g] = SpentGrant]
Uses(g) == uses' = [uses EXCEPT ![g] = @ + 1]

StepupRevoke ==
  /\ \E g \in Grants : grants[g].open
  /\ grants' = [g \in Grants |-> IF grants[g].open THEN SpentGrant ELSE grants[g]]
  /\ UNCHANGED <<focus, ssoMfa, acc, role, lock, held, ghosts>>
GrantExpires(g) ==
  /\ grants[g].open
  /\ grants' = [grants EXCEPT ![g] = SpentGrant]
  /\ UNCHANGED <<focus, ssoMfa, acc, role, lock, held, ghosts>>

-----------------------------------------------------------------------------
(* Changes under the user lock, the grant consumed in the same transaction *)

\* totp_remove, webauthn_credential_remove.  A refusal keeps the consumption.
CredentialRemove(f, g) ==
  /\ Matches(g, <<"remove_credential", f>>)
  /\ grants' = Consumed(g)
  /\ IF f \in acc.have /\ MayRemove(acc, f, grants[g].by)
     THEN acc' = [acc EXCEPT !.have = @ \ {f}] /\ Uses(g)
     ELSE UNCHANGED <<acc, uses>>
  /\ UNCHANGED <<focus, ssoMfa, role, lock, held, wrong, stale, counted>>
TotpRemove(f, g) == f \in TotpDevices /\ CredentialRemove(f, g)
WebauthnRemove(f, g) == f \in WebAuthnKeys /\ CredentialRemove(f, g)

\* sso_identity_unlink rolls back, the grant included, when nothing would be left.
UnlinkAllowed(i) == LoginMethods([acc EXCEPT !.sso = @ \ {i}]) # {}
IdentityUnlink(i, g) ==
  /\ i \in acc.sso /\ Matches(g, <<"unlink", i>>)
  /\ UnlinkAllowed(i)
  /\ grants' = Consumed(g) /\ Uses(g)
  /\ acc' = [acc EXCEPT !.sso = @ \ {i}]
  /\ UNCHANGED <<focus, ssoMfa, role, lock, held, wrong, stale, counted>>

\* sso_link_confirm.
LinkConfirm(i, g) ==
  /\ i \notin acc.sso /\ Matches(g, <<"link", i>>)
  /\ grants' = Consumed(g) /\ Uses(g)
  /\ acc' = [acc EXCEPT !.sso = @ \union {i}]
  /\ UNCHANGED <<focus, ssoMfa, role, lock, held, wrong, stale, counted>>

-----------------------------------------------------------------------------
(* Changes whose grant was consumed by an earlier commit, and CLI commands *)

\* register_begin and totp_enrollment_begin, and the admin's password handlers,
\* consume the grant in a transaction of its own.
Confirm(w, g, op) ==
  /\ held[w] = NoTask /\ op[1] \in PasswordOps \union {"add"} /\ Matches(g, op)
  /\ grants' = Consumed(g) /\ Uses(g)
  /\ held' = [held EXCEPT ![w] = [NoTask EXCEPT !.stage = "confirmed", !.op = op]]
  /\ UNCHANGED <<focus, ssoMfa, acc, role, lock, wrong, stale, counted>>

\* The enrolment is completed (register_complete, totp_enrollment_complete) or
\* comes to nothing; `mfa add` of the CLI needs no grant.
FactorAdd(w) ==
  /\ held[w].stage = "confirmed" /\ held[w].op[1] = "add"
  /\ \E new \in SUBSET (Authenticators \ acc.have) :
       /\ Cardinality(new) <= 1
       /\ acc' = [acc EXCEPT !.have = @ \union new]
  /\ held' = [held EXCEPT ![w] = NoTask]
  /\ UNCHANGED <<focus, ssoMfa, grants, role, lock, ghosts>>
MfaAdd(t) ==
  /\ focus = "credentials" /\ t \in TotpDevices \ acc.have
  /\ acc' = [acc EXCEPT !.have = @ \union {t}]
  /\ UNCHANGED <<focus, ssoMfa, grants, role, lock, held, ghosts>>

PasswordOn(w) ==
  /\ focus = "credentials" /\ ~acc.pw
  /\ acc' = [acc EXCEPT !.pw = TRUE]
  /\ held' = [held EXCEPT ![w] = NoTask]
  /\ UNCHANGED <<focus, ssoMfa, grants, role, lock, ghosts>>
BreakglassPasswordSet(w) ==
  held[w].stage = "confirmed" /\ held[w].op[1] = "set_password" /\ PasswordOn(w)
PasswordSet(w) == held[w] = NoTask /\ PasswordOn(w)

\* The checks of user_breakglass_password_disable, `user password disable` and
\* `user mfa remove` (assert_auth_path_remains).
Without(a, op) ==
  IF op[1] = "disable_password" THEN [a EXCEPT !.pw = FALSE] ELSE [a EXCEPT !.have = @ \ {op[2]}]
\* Mutant: the removal is not checked.
PathChecked(a, op) == TRUE
PathLeft(a, op) == AuthPaths(Without(a, op)) # {}
RemovalCheck(w, op) ==
  /\ focus = "credentials"
  /\ IF PathLeft(acc, op)
     THEN held' = [held EXCEPT ![w] = [NoTask EXCEPT !.stage = "remove", !.op = op, !.saw = {acc}]]
     ELSE held' = [held EXCEPT ![w] = NoTask]
  /\ UNCHANGED <<focus, ssoMfa, acc, grants, role, lock, ghosts>>
BreakglassPasswordDisable(w) ==
  /\ held[w].stage = "confirmed" /\ held[w].op[1] = "disable_password"
  /\ RemovalCheck(w, <<"disable_password", 0>>)
PasswordDisable(w) == held[w] = NoTask /\ acc.pw /\ RemovalCheck(w, <<"disable_password", 0>>)
MfaRemove(w, t) ==
  held[w] = NoTask /\ t \in TotpOf(acc) /\ RemovalCheck(w, <<"remove_credential", t>>)

RemovalWrite(w) ==
  LET after == Without(acc, held[w].op)
  IN
  /\ held[w].stage = "remove"
  /\ acc' = after
  /\ stale' = (stale \/ acc \notin held[w].saw)
  /\ counted' = (counted \/ NoLogin(AuthPaths(after)))
  /\ held' = [held EXCEPT ![w] = NoTask]
  /\ UNCHANGED <<focus, ssoMfa, grants, role, lock, uses, wrong>>

-----------------------------------------------------------------------------
(* Roles *)

Admins == {u \in Users : role[u] = "admin"}
\* is_last_active_admin.
LastAdmin(u) == Admins = {u}

UserAdd(u) ==
  /\ focus = "roles" /\ role[u] = "none"
  /\ \E r \in {"admin", "viewer"} : role' = [role EXCEPT ![u] = r]
  /\ UNCHANGED <<focus, ssoMfa, acc, grants, lock, held, ghosts>>

\* `user disable`, `user roles` and the API check, then write.
\* Mutant: the check is missing.
MayDemoteAny(u, to) == TRUE
MayDemote(u, to) == to # "admin" => ~LastAdmin(u)
RoleCheck(w, u, to) ==
  /\ focus = "roles" /\ held[w] = NoTask
  /\ role[u] \notin {"none", "disabled", to}
  /\ MayDemote(u, to)
  /\ held' = [held EXCEPT ![w] = [NoTask EXCEPT !.stage = "role", !.op = <<to, u>>,
                                            !.saw = Admins \ {u}]]
  /\ UNCHANGED <<focus, ssoMfa, acc, grants, role, lock, ghosts>>
DisableUser(w, u) == RoleCheck(w, u, "disabled")
UserRoles(w, u) == \E to \in {"admin", "viewer"} : RoleCheck(w, u, to)
AdminApiUserSetRole(w, u) == UserRoles(w, u)
\* A role is written beside is_active, so a disabled account stays disabled.
RoleWrite(w) ==
  LET u == held[w].op[2] IN
  /\ held[w].stage = "role"
  /\ role' = [role EXCEPT ![u] = IF @ = "disabled" THEN @ ELSE held[w].op[1]]
  /\ stale' = (stale \/ ~(held[w].saw \subseteq Admins))
  /\ held' = [held EXCEPT ![w] = NoTask]
  /\ UNCHANGED <<focus, ssoMfa, acc, grants, lock, uses, wrong, counted>>

-----------------------------------------------------------------------------
(* Lockout *)

\* login_complete reads the user, verifies the assertion and writes the counter
\* it read plus one, without the user lock.
LoginRead(w) ==
  /\ focus = "lockout" /\ held[w] = NoTask /\ ~lock.locked
  /\ held' = [held EXCEPT ![w] = [NoTask EXCEPT !.stage = "login", !.seen = lock.failed]]
  /\ UNCHANGED <<focus, ssoMfa, acc, grants, role, lock, ghosts>>

\* Mutant: the failure that reaches the threshold only warns.
FailedNever(l, n) == [l EXCEPT !.failed = IF n < Threshold THEN n ELSE Threshold]
\* Counts above the threshold are all alike.
Failed(l, n) == [failed |-> IF n < Threshold THEN n ELSE Threshold,
                 locked |-> l.locked \/ n >= Threshold]
LoginFail(w) ==
  /\ held[w].stage = "login" /\ wrong < MaxWrong
  /\ lock' = Failed(lock, held[w].seen + 1)
  /\ wrong' = wrong + 1
  /\ stale' = (stale \/ lock.failed # held[w].seen \/ lock.locked)
  /\ held' = [held EXCEPT ![w] = NoTask]
  /\ UNCHANGED <<focus, ssoMfa, acc, grants, role, uses, counted>>
LoginOk(w) ==
  /\ held[w].stage = "login"
  /\ IF held[w].seen > 0
     THEN lock' = [failed |-> 0, locked |-> FALSE] /\ wrong' = 0
     ELSE UNCHANGED <<lock, wrong>>
  /\ held' = [held EXCEPT ![w] = NoTask]
  /\ UNCHANGED <<focus, ssoMfa, acc, grants, role, uses, stale, counted>>

\* breakglass_login holds the user lock from the read to the write.
BreakglassFail ==
  /\ focus = "lockout" /\ ~lock.locked /\ wrong < MaxWrong
  /\ lock' = Failed(lock, lock.failed + 1)
  /\ wrong' = wrong + 1
  /\ UNCHANGED <<focus, ssoMfa, acc, grants, role, held, uses, stale, counted>>
\* A password that is right resets the counter; so does `user unlock`.
BreakglassOk ==
  /\ focus = "lockout" /\ ~lock.locked /\ lock.failed > 0
  /\ lock' = [failed |-> 0, locked |-> FALSE] /\ wrong' = 0
  /\ UNCHANGED <<focus, ssoMfa, acc, grants, role, held, uses, stale, counted>>
UserUnlock ==
  /\ focus = "lockout" /\ lock.locked
  /\ lock' = [failed |-> 0, locked |-> FALSE] /\ wrong' = 0
  /\ UNCHANGED <<focus, ssoMfa, acc, grants, role, held, uses, stale, counted>>
\* locked_until passes; the counter stays.
LockLapses ==
  /\ lock.locked
  /\ lock' = [lock EXCEPT !.locked = FALSE] /\ wrong' = 0
  /\ UNCHANGED <<focus, ssoMfa, acc, grants, role, held, uses, stale, counted>>

-----------------------------------------------------------------------------

\* An account that can log in, two administrators, no failures.
CredentialsInit ==
  /\ focus \in Foci
  /\ ssoMfa \in BOOLEAN
  /\ acc \in [have: SUBSET Authenticators, pw: BOOLEAN, sso: SUBSET Idents]
  /\ IF focus = "credentials" THEN CanLogin(acc)
     ELSE ssoMfa = FALSE /\ acc = [have |-> {}, pw |-> TRUE, sso |-> {}]
  /\ grants = [g \in Grants |-> NoGrant]
  /\ role \in [Users -> {"admin", "none"}] /\ Cardinality(Admins) = 2
  /\ focus # "roles" => role = CHOOSE r \in [Users -> {"admin", "none"}] :
                                 Cardinality({u \in Users : r[u] = "admin"}) = 2
  /\ lock = [failed |-> 0, locked |-> FALSE]
  /\ held = [w \in Callers |-> NoTask]
  /\ uses = [g \in Grants |-> 0]
  /\ wrong = 0 /\ stale = FALSE /\ counted = FALSE

CredentialsNext ==
  \/ \E op \in Ops : StepupComplete(op) \/ StepupTotpComplete(op)
  \/ StepupRevoke \/ \E g \in Grants : GrantExpires(g)
  \/ \E f \in Authenticators, g \in Grants : TotpRemove(f, g) \/ WebauthnRemove(f, g)
  \/ \E w \in Callers, g \in Grants, op \in Ops : Confirm(w, g, op)
  \/ \E w \in Callers : \/ FactorAdd(w) \/ BreakglassPasswordSet(w) \/ PasswordSet(w)
                        \/ BreakglassPasswordDisable(w) \/ PasswordDisable(w)
                        \/ RemovalWrite(w)
  \/ \E w \in Callers, t \in TotpDevices : MfaRemove(w, t)
  \/ \E i \in Idents, g \in Grants : IdentityUnlink(i, g) \/ LinkConfirm(i, g)
  \/ \E t \in TotpDevices : MfaAdd(t)
  \/ \E u \in Users : UserAdd(u)
  \/ \E w \in Callers, u \in Users : DisableUser(w, u) \/ UserRoles(w, u) \/ AdminApiUserSetRole(w, u)
  \/ \E w \in Callers : RoleWrite(w) \/ LoginRead(w) \/ LoginFail(w) \/ LoginOk(w)
  \/ BreakglassFail \/ BreakglassOk \/ UserUnlock \/ LockLapses

CredentialsSpec == CredentialsInit /\ [][CredentialsNext]_credentialVars

-----------------------------------------------------------------------------
(* Properties *)

CredentialsTypeOK ==
  /\ acc.have \subseteq Authenticators /\ acc.pw \in BOOLEAN /\ acc.sso \subseteq Idents
  /\ \A g \in Grants : grants[g] \in {NoGrant, SpentGrant} \/ grants[g].op \in Ops
  /\ role \in [Users -> {"none", "admin", "viewer", "disabled"}]

\* The last path stays, whichever handlers and commands run at the same time:
\* there is always one that the policy counts, and it is a way through the login
\* handlers.  Two exceptions, both in the removals that do not take the user lock
\* (the admin's and the CLI's): the rows may change between their check and their
\* write; and all that a removal leaves may be a TOTP device or a bare password,
\* which its check counts and no login handler lets in.
PathRemains ==
  focus = "credentials" => stale \/ (AuthPaths(acc) # {} /\ (counted \/ CanLogin(acc)))

\* A confirmation is good for one change: whatever cookies are sent twice at the
\* same time, no grant lets two operations pass.
GrantOneShot == \A g \in Grants : uses[g] <= 1

\* There is an active administrator, unless two commands that each spared the
\* other's account overlapped (is_last_active_admin is read without a lock).
AdminRemains == focus = "roles" => stale \/ Admins # {}

\* At most Threshold wrong logins pass before the account locks, unless requests
\* overlapped and one wrote back a count that was no longer the last.
LockoutBound == stale \/ wrong <= Threshold
=============================================================================
