------------------------------- MODULE Recovery -------------------------------
(* One account's login sessions and its administrator-authorised recovery:     *)
(* auth/sessions.py, auth/pending.py and the handlers of web/routes/auth.py    *)
(* and web/routes/sso.py that call them.                                       *)
(*                                                                             *)
(* `db` holds the rows of the account.  A handler that runs in one transaction *)
(* with the user row locked is one action.  A handler that commits and goes on *)
(* (a ceremony is consumed before its proof is verified) is one action per     *)
(* transaction, with what it still holds in `req`.  A cookie only names a      *)
(* session row, and a copy of it may be sent again at any time, so a request   *)
(* may present every session and every ceremony that was ever issued.          *)
EXTENDS Naturals, FiniteSets, FiniteSetsExt

CONSTANTS
  Fido, Totp,      \* ids of WebAuthn credentials and TOTP devices
  Enrolled,        \* the factors the account has at first
  MaxSession,      \* bound: number of session rows
  MaxPending,      \* bound: number of ceremonies alive at one time
  MaxResets,       \* bound: number of recovery authorisations
  Workers,         \* requests served at the same time
  Limit            \* webauthn_credential_limit and the TOTP limit

ASSUME RecoveryAssumption ==
  /\ Enrolled \subseteq Fido \union Totp
  /\ Limit \in Nat \ {0}
  /\ MaxSession \in Nat /\ MaxPending \in Nat /\ MaxResets \in Nat

Factors == Fido \union Totp
Sids == 1..MaxSession
Pids == 1..MaxPending

VARIABLES
  db,              \* [active, factor, sess, pend]
  req,             \* what each request in flight holds
  resets,          \* recovery authorisations issued so far
  late             \* factors stored by an enrolment that a reset overtook

recoveryVars == <<db, req, resets, late>>

FactorStates == {"none", "usable", "staged", "gone"}

\* A session is live while it is valid and not expired.  A ceremony that was
\* consumed or expired is never anything but refused, so its row is dropped at
\* once; only a recovery that expired unconsumed keeps its row, because its
\* staged factors hang on it.
NoSession == [kind |-> "none", live |-> FALSE, rid |-> 0]
NoRow == [purpose |-> "none", expired |-> FALSE, sid |-> 0, parent |-> 0,
          base |-> {}, got |-> {}]
\* login_mfa stands for password_mfa and sso_mfa, which are treated alike.
NormalPurposes == {"webauthn_login", "login_mfa", "login_mfa_webauthn",
                   "webauthn_enrollment", "totp_enrollment"}
RecoveryPurposes == {"recovery_authorization", "recovery_session"}
Purposes == NormalPurposes \union RecoveryPurposes \union {"none", "oidc_login"}

Stages == {"idle", "guarded", "verified", "mfa", "sso",
           "enroll", "complete"}
NoRequest == [stage |-> "idle", sid |-> 0, pid |-> 0, kind |-> "none",
         row |-> NoRow, over |-> FALSE]
Row == [purpose: Purposes, expired: BOOLEAN, sid: 0..MaxSession,
        parent: 0..MaxPending, base: SUBSET Factors, got: SUBSET Factors]

RecoveryTypeOK ==
  /\ db.active \in BOOLEAN
  /\ db.factor \in [Factors -> FactorStates]
  /\ db.sess \in [Sids -> [kind: {"none", "normal", "recovery"}, live: BOOLEAN,
                           rid: 0..MaxPending]]
  /\ db.pend \in [Pids -> Row]
  /\ req \in [Workers -> [stage: Stages, sid: 0..MaxSession, pid: 0..MaxPending,
                          kind: {"none", "fido", "totp"}, row: Row,
                          over: BOOLEAN]]
  /\ resets \in 0..MaxResets
  /\ late \subseteq Factors

RecoveryInit ==
  /\ db = [active |-> TRUE,
           factor |-> [f \in Factors |-> IF f \in Enrolled THEN "usable" ELSE "none"],
           sess |-> [s \in Sids |-> NoSession],
           pend |-> [p \in Pids |-> NoRow]]
  /\ req = [w \in Workers |-> NoRequest]
  /\ resets = 0
  /\ late = {}

-----------------------------------------------------------------------------
(* Rows *)

Open(d, p, purpose) == d.pend[p].purpose = purpose /\ ~d.pend[p].expired
UsableFactors(d, kind) == {f \in (IF kind = "fido" THEN Fido ELSE Totp) : d.factor[f] = "usable"}

\* create_pending first deletes every row that has expired.
Sweep(d) ==
  [d EXCEPT !.pend = [p \in Pids |-> IF d.pend[p].expired THEN NoRow ELSE d.pend[p]]]

\* The ids of rows are random; the lowest one that nobody refers to stands for a
\* fresh one.
Unused(d) ==
  {p \in Pids : /\ d.pend[p].purpose = "none" \/ d.pend[p].expired
                /\ \A s \in Sids : d.sess[s].rid # p
                /\ \A w \in Workers : req[w].pid # p
                /\ \A q \in Pids : d.pend[q].parent # p}
FreeSids(d) ==
  {s \in Sids : /\ d.sess[s] = NoSession
                /\ \A p \in Pids : d.pend[p].sid # s
                /\ \A w \in Workers : req[w].sid # s}
CreatePending(d, row) == [Sweep(d) EXCEPT !.pend[Min(Unused(d))] = row]

\* consume_pending: the guarded UPDATE that lets one of two requests through.
ConsumePending(d, p) == [d EXCEPT !.pend[p] = NoRow]

\* A session that ended is only kept for the recovery that hangs on it.
EndSession(d, s) ==
  [d EXCEPT !.sess[s] = IF @.rid = 0 \/ d.pend[@.rid].purpose # "recovery_session"
                        THEN NoSession ELSE [@ EXCEPT !.live = FALSE]]

\* discard_recovery_enrollments for the recoveries ps: the factors they recorded
\* and did not finish are deleted, the enrolments begun in their session end.
Discard(d, ps) ==
  [d EXCEPT
     !.factor = [f \in Factors |->
        IF d.factor[f] = "staged" /\ \E p \in ps : f \in d.pend[p].got
        THEN "gone" ELSE d.factor[f]],
     !.pend = [q \in Pids |->
        IF /\ d.pend[q].purpose \in {"webauthn_enrollment", "totp_enrollment"}
           /\ \E p \in ps : d.pend[q].sid = d.pend[p].sid
        THEN NoRow ELSE d.pend[q]]]

\* invalidate_recovery_session for the recoveries ps.
InvalidateRecovery(d, ps) ==
  LET e == Discard(d, ps) IN
  [e EXCEPT
     !.pend = [q \in Pids |-> IF q \in ps THEN NoRow ELSE e.pend[q]],
     !.sess = [s \in Sids |-> IF \E p \in ps : d.pend[p].sid = s
                              THEN NoSession ELSE e.sess[s]]]

\* invalidate_normal_auth_pendings.
EndNormalPendings(d) ==
  [d EXCEPT !.pend = [p \in Pids |->
     IF d.pend[p].purpose \in NormalPurposes THEN NoRow ELSE d.pend[p]]]

OpenRecoveries(d) == {p \in Pids : d.pend[p].purpose = "recovery_session"}

\* has_active_recovery, and what it leaves behind when it finds none: the
\* recoveries that expired or lost their session are ended.
HasActiveRecovery(d) ==
  \E p \in Pids : \/ Open(d, p, "recovery_authorization")
                  \/ Open(d, p, "recovery_session") /\ d.sess[d.pend[p].sid].live
SettleRecoveries(d) == InvalidateRecovery(d, OpenRecoveries(d))

\* get_active_recovery_state: the recovery of session s, if it is still open.
ActiveRecovery(d, s) ==
  /\ d.sess[s].kind = "recovery" /\ d.sess[s].live
  /\ Open(d, d.sess[s].rid, "recovery_session") /\ d.pend[d.sess[s].rid].sid = s

\* create_user_session for a normal login, with the user row locked.
\* Mutant: the login does not ask for an open recovery.
MayLoginBlind(d) == d.active /\ FreeSids(d) # {}
MayLogin(d) == d.active /\ ~HasActiveRecovery(d) /\ FreeSids(d) # {}
NormalSession(d) ==
  [SettleRecoveries(d) EXCEPT !.sess[Min(FreeSids(d))] =
     [kind |-> "normal", live |-> TRUE, rid |-> 0]]

-----------------------------------------------------------------------------
(* Requests *)

Keeps(w, r) == req' = [req EXCEPT ![w] = r]
Answered(w) == Keeps(w, NoRequest)
Same == UNCHANGED <<resets, late>>

\* _auth_session_guard: refresh_session_identity in a transaction of its own.
\* The id of a ceremony travels in the cookie of the session that began it.
\* A recovery session that expired or was revoked takes its recovery with it.
SessionRefused(d, s) ==
  IF d.sess[s].kind = "recovery" /\ ~d.sess[s].live
  THEN EndSession(InvalidateRecovery(d, OpenRecoveries(d) \intersect {d.sess[s].rid}), s)
  ELSE IF d.sess[s].kind = "recovery" /\ ~ActiveRecovery(d, s) THEN EndSession(d, s)
  ELSE d
SessionAccepted(d, s) ==
  /\ d.active /\ d.sess[s].live
  /\ d.sess[s].kind = "recovery" => ActiveRecovery(d, s)
Guard(w, s, p) ==
  /\ req[w] = NoRequest /\ db.sess[s].kind # "none"
  /\ p # 0 => /\ db.pend[p].purpose \in {"webauthn_enrollment", "totp_enrollment"}
              /\ db.pend[p].sid = s
  /\ IF SessionAccepted(db, s)
     THEN /\ Keeps(w, [NoRequest EXCEPT !.stage = "guarded", !.sid = s, !.pid = p])
          /\ UNCHANGED db
     ELSE db' = SessionRefused(db, s) /\ UNCHANGED req
  /\ Same

(* WebAuthn login: the ceremony is consumed and committed, then the assertion  *)
(* is verified, then the session is created under the user lock.               *)
LoginBegin ==
  /\ db.active /\ Unused(db) # {}
  /\ db' = CreatePending(db, [NoRow EXCEPT !.purpose = "webauthn_login"])
  /\ UNCHANGED req /\ Same

\* Nothing but this request can see the ceremony it consumed, so consuming it and
\* verifying the assertion are one step; a locked account or a bad assertion is
\* answered here.
LoginConsume(w, p) ==
  /\ req[w] = NoRequest /\ Open(db, p, "webauthn_login")
  /\ db' = ConsumePending(db, p)
  /\ \/ db.active /\ UsableFactors(db, "fido") # {} /\ Keeps(w, [NoRequest EXCEPT !.stage = "verified"])
     \/ UNCHANGED req
  /\ Same

LoginSession(w) ==
  /\ req[w].stage = "verified"
  /\ db' = IF MayLogin(db) THEN NormalSession(db) ELSE db
  /\ Answered(w) /\ Same

(* The break-glass password is only the first of two factors.                  *)
BreakglassLogin ==
  /\ db.active /\ Unused(db) # {}
  /\ UsableFactors(db, "fido") \union UsableFactors(db, "totp") # {}
  /\ db' = CreatePending(db, [NoRow EXCEPT !.purpose = "login_mfa"])
  /\ UNCHANGED req /\ Same

MfaWebauthnBegin(p) ==
  /\ Open(db, p, "login_mfa")
  /\ UsableFactors(db, "fido") # {} /\ Unused(db) # {}
  /\ db' = CreatePending(db, [NoRow EXCEPT !.purpose = "login_mfa_webauthn",
                                           !.parent = p])
  /\ UNCHANGED req /\ Same

MfaWebauthnConsume(w, p) ==
  /\ req[w] = NoRequest /\ Open(db, p, "login_mfa_webauthn")
  /\ db' = ConsumePending(db, p)
  /\ Keeps(w, [NoRequest EXCEPT !.stage = "mfa", !.pid = db.pend[p].parent])
  /\ Same

\* The parent is consumed in the transaction that creates the session: a refused
\* session leaves it as it was.
MfaSession(d, p) ==
  IF MayLogin(d) THEN NormalSession(ConsumePending(d, p)) ELSE d
MfaWebauthnComplete(w) ==
  /\ req[w].stage = "mfa"
  /\ db' = IF /\ Open(db, req[w].pid, "login_mfa")
              /\ UsableFactors(db, "fido") # {}
           THEN MfaSession(db, req[w].pid) ELSE db
  /\ Answered(w) /\ Same

MfaTotpComplete(p) ==
  /\ Open(db, p, "login_mfa") /\ UsableFactors(db, "totp") # {}
  /\ MayLogin(db)
  /\ db' = MfaSession(db, p)
  /\ UNCHANGED req /\ Same

(* SSO: the state is consumed before the exchange with the provider, which     *)
(* takes as long as it takes.                                                  *)
SsoBegin ==
  /\ Unused(db) # {}
  /\ db' = CreatePending(db, [NoRow EXCEPT !.purpose = "oidc_login"])
  /\ UNCHANGED req /\ Same

SsoConsume(w, p) ==
  /\ req[w] = NoRequest /\ Open(db, p, "oidc_login")
  /\ db' = ConsumePending(db, p)
  /\ Keeps(w, [NoRequest EXCEPT !.stage = "sso"])
  /\ Same

SsoAnswer(w) ==
  /\ req[w].stage = "sso"
  /\ \/ /\ MayLogin(db) /\ db' = NormalSession(db)
     \/ /\ db.active /\ Unused(db) # {}
        /\ UsableFactors(db, "fido") \union UsableFactors(db, "totp") # {}
        /\ db' = CreatePending(db, [NoRow EXCEPT !.purpose = "login_mfa"])
     \/ UNCHANGED db
  /\ Answered(w) /\ Same

-----------------------------------------------------------------------------
(* Enrolment, in a normal session and in a recovery session *)

Purpose(kind) == IF kind = "fido" THEN "webauthn_enrollment" ELSE "totp_enrollment"
Ids(kind) == IF kind = "fido" THEN Fido ELSE Totp
Counted(d, kind, base) ==
  {f \in Ids(kind) \ base : d.factor[f] \in {"usable", "staged"}}
BelowLimit(d, kind, base) == Cardinality(Counted(d, kind, base)) < Limit
InRecovery(d, s) == d.sess[s].kind = "recovery"
Baseline(d, s) == IF InRecovery(d, s) THEN d.pend[d.sess[s].rid].base ELSE {}

EnrollBegin(w, kind) ==
  LET s == req[w].sid IN
  /\ req[w].stage = "guarded" /\ req[w].pid = 0 /\ Unused(db) # {}
  /\ db' = IF /\ InRecovery(db, s) => ActiveRecovery(db, s)
              /\ BelowLimit(db, kind, Baseline(db, s))
           THEN CreatePending(db, [NoRow EXCEPT !.purpose = Purpose(kind), !.sid = s])
           ELSE db
  /\ Answered(w) /\ Same
RegisterBegin(w) == EnrollBegin(w, "fido")
TotpBegin(w) == EnrollBegin(w, "totp")

\* The recovery row read here stays in the request's identity map: what the
\* second transaction sees of it is this copy.
EnrollConsume(w, kind) ==
  LET p == req[w].pid
      s == req[w].sid
  IN
  /\ req[w].stage = "guarded" /\ p # 0
  /\ db.pend[p].purpose = Purpose(kind)
  /\ IF /\ ~db.pend[p].expired
        /\ InRecovery(db, s) => ActiveRecovery(db, s)
     THEN /\ db' = ConsumePending(db, p)
          /\ Keeps(w, [NoRequest EXCEPT !.stage = "enroll", !.kind = kind, !.sid = s,
                          !.row = IF InRecovery(db, s) THEN db.pend[db.sess[s].rid]
                                  ELSE NoRow])
     ELSE UNCHANGED db /\ Answered(w)
  /\ Same
RegisterConsume(w) == EnrollConsume(w, "fido")
TotpConsume(w) == EnrollConsume(w, "totp")

\* append_recovery_credential_id: the row must still be open, but what is
\* written back is the context of the copy, with the new id added.
AppendCredential(d, s, row, f) ==
  [d EXCEPT !.pend[d.sess[s].rid].got = row.got \union {f}]

\* The factor is stored under the user lock, after the recovery was looked up
\* again.  A normal enrolment looks nothing up.
StoreStaged(w, f) ==
  LET s == req[w].sid IN
  /\ req[w].row # NoRow
  /\ ActiveRecovery(db, s)
  /\ BelowLimit(db, req[w].kind, req[w].row.base)
  /\ db' = AppendCredential([db EXCEPT !.factor[f] = "staged"], s, req[w].row, f)
  /\ UNCHANGED late
StoreNormal(w, f) ==
  /\ req[w].row = NoRow
  /\ BelowLimit(db, req[w].kind, {})
  /\ db' = [db EXCEPT !.factor[f] = "usable"]
  /\ late' = IF req[w].over THEN late \union {f} ELSE late
EnrollStore(w, kind) ==
  /\ req[w].stage = "enroll" /\ req[w].kind = kind
  /\ \/ \E f \in Ids(kind) : /\ db.factor[f] = "none"
                             /\ StoreStaged(w, f) \/ StoreNormal(w, f)
     \/ UNCHANGED <<db, late>>
  /\ Answered(w)
  /\ UNCHANGED resets
RegisterComplete(w) == EnrollStore(w, "fido")
TotpComplete(w) == EnrollStore(w, "totp")

-----------------------------------------------------------------------------
(* Recovery *)

Supersede(d) ==
  LET ps == {p \in OpenRecoveries(d) : ~d.pend[p].expired}
      e == InvalidateRecovery(d, ps)
  IN  [e EXCEPT !.pend = [p \in Pids |->
         IF e.pend[p].purpose = "recovery_authorization"
         THEN NoRow ELSE e.pend[p]]]
RevokeSessions(d) ==
  [d EXCEPT !.sess = [s \in Sids |-> EndSession(d, s).sess[s]]]
Authorise(d) ==
  LET e == EndNormalPendings(Supersede(d)) IN
  RevokeSessions(CreatePending(e,
    [NoRow EXCEPT !.purpose = "recovery_authorization",
                  !.base = {f \in Factors : e.factor[f] \in {"usable", "staged"}}]))
AuthenticatorReset ==
  /\ resets < MaxResets /\ Unused(EndNormalPendings(Supersede(db))) # {}
  /\ resets' = resets + 1
  /\ db' = Authorise(db)
  /\ req' = [w \in Workers |-> IF req[w].stage = "enroll" /\ req[w].row = NoRow
                               THEN [req[w] EXCEPT !.over = TRUE] ELSE req[w]]
  /\ UNCHANGED late

\* recovery_ticket_redeem: the ticket becomes a session that can only recover.
TicketRedeem(p) ==
  /\ db.active /\ Open(db, p, "recovery_authorization")
  /\ FreeSids(db) # {} /\ Unused(ConsumePending(db, p)) # {}
  /\ LET d == ConsumePending(db, p)
         s == Min(FreeSids(d))
         r == Min(Unused(d))
     IN db' = [CreatePending(d, [NoRow EXCEPT !.purpose = "recovery_session", !.sid = s,
                                              !.base = db.pend[p].base])
                 EXCEPT !.sess[s] = [kind |-> "recovery", live |-> TRUE, rid |-> r]]
  /\ UNCHANGED req /\ Same

\* recovery_complete reads the recovery, waits for the user lock, and looks the
\* recovery up again; the row it works with is the one it read first.
CompleteRead(w) ==
  LET s == req[w].sid IN
  /\ req[w].stage = "guarded" /\ req[w].pid = 0 /\ InRecovery(db, s)
  /\ IF ActiveRecovery(db, s)
     THEN Keeps(w, [NoRequest EXCEPT !.stage = "complete", !.sid = s,
                                !.row = db.pend[db.sess[s].rid]])
     ELSE Answered(w)
  /\ UNCHANGED db /\ Same

HasNewAuthPath(d, row) ==
  \E f \in Fido \intersect row.got : d.factor[f] = "staged" /\ f \notin row.base
\* Mutant: the factors of the time before the recovery stay.
PromotedOnly(d, row) ==
  [d EXCEPT !.factor = [f \in Factors |->
     IF f \in row.got /\ d.factor[f] = "staged" THEN "usable" ELSE d.factor[f]]]
Promoted(d, row) ==
  [d EXCEPT !.factor = [f \in Factors |->
     IF f \in row.base /\ d.factor[f] # "none" THEN "gone"
     ELSE IF f \in row.got /\ d.factor[f] = "staged" THEN "usable"
     ELSE d.factor[f]]]
Finished(d, s, row) ==
  LET r == d.sess[s].rid
      seen == [Promoted(EndNormalPendings(d), row) EXCEPT !.pend[r].got = row.got]
      e == Discard(seen, {r})
  IN  EndSession(ConsumePending(e, r), s)
WithinLimits(d, base) ==
  \A kind \in {"fido", "totp"} : Cardinality(Counted(d, kind, base)) <= Limit
RecoveryComplete(w) ==
  LET s == req[w].sid IN
  /\ req[w].stage = "complete"
  /\ db' = IF /\ db.active /\ ActiveRecovery(db, s)
              /\ HasNewAuthPath(db, req[w].row) /\ WithinLimits(db, req[w].row.base)
           THEN Finished(db, s, req[w].row) ELSE db
  /\ Answered(w) /\ Same

-----------------------------------------------------------------------------
(* Ends of sessions, time and the administrator *)

Logout(s) ==
  /\ db.sess[s].kind # "none"
  /\ db' = EndSession(InvalidateRecovery(db, OpenRecoveries(db) \intersect {db.sess[s].rid}), s)
  /\ UNCHANGED req /\ Same

SessionRevoke(s) ==
  /\ db.sess[s].live
  /\ db' = EndSession(db, s)
  /\ UNCHANGED req /\ Same

UserDisable == /\ db.active /\ db' = [db EXCEPT !.active = FALSE]
               /\ UNCHANGED req /\ Same
SessionExpires(s) ==
  /\ db.sess[s].live
  /\ db' = EndSession(db, s)
  /\ UNCHANGED req /\ Same
\* A recovery's session was inserted before it, with the same time to live.
PendingExpires(p) ==
  /\ db.pend[p].purpose # "none" /\ ~db.pend[p].expired
  /\ db' = IF db.pend[p].purpose = "recovery_session"
           THEN EndSession([db EXCEPT !.pend[p].expired = TRUE], db.pend[p].sid)
           ELSE ConsumePending(db, p)
  /\ UNCHANGED req /\ Same

RecoveryNext ==
  \/ \E w \in Workers :
       \/ \E s \in Sids, p \in Pids \union {0} : Guard(w, s, p)
       \/ \E p \in Pids : LoginConsume(w, p)
       \/ \E p \in Pids : MfaWebauthnConsume(w, p)
       \/ \E p \in Pids : SsoConsume(w, p)
       \/ LoginSession(w)
       \/ MfaWebauthnComplete(w) \/ SsoAnswer(w)
       \/ RegisterBegin(w) \/ RegisterConsume(w) \/ RegisterComplete(w)
       \/ TotpBegin(w) \/ TotpConsume(w) \/ TotpComplete(w)
       \/ CompleteRead(w) \/ RecoveryComplete(w)
  \/ LoginBegin \/ BreakglassLogin \/ SsoBegin
  \/ \E p \in Pids : MfaWebauthnBegin(p) \/ MfaTotpComplete(p)
  \/ AuthenticatorReset
  \/ \E p \in Pids : TicketRedeem(p)
  \/ \E s \in Sids : Logout(s) \/ SessionRevoke(s) \/ SessionExpires(s)
  \/ \E p \in Pids : PendingExpires(p)
  \/ UserDisable

RecoverySpec == RecoveryInit /\ [][RecoveryNext]_recoveryVars

-----------------------------------------------------------------------------
(* Properties *)

\* Nobody holds a live normal session of an account while a recovery of it is
\* authorised or under way (the promise of create_user_session): a login that
\* was verified before the ticket was issued must not finish after it.
Exclusive ==
  (\E s \in Sids : db.sess[s].kind = "normal" /\ db.sess[s].live)
    => ~HasActiveRecovery(db)

\* The step that finishes a recovery leaves no usable factor but the ones the
\* recovery staged; the only exception is a normal enrolment that had consumed
\* its ceremony when the ticket was issued and stored its factor afterwards.
RecoveryReplaces ==
  [][(\E f \in Factors : db.factor[f] = "staged" /\ db'.factor[f] = "usable")
       => {f \in Factors : db'.factor[f] = "usable"}
            \subseteq {f \in Factors : db.factor[f] = "staged"} \union late]_recoveryVars

=============================================================================
