----------------------------- MODULE OAuthServer -----------------------------
(***************************************************************************)
(* The OAuth authorization server for one user and one confidential        *)
(* client: consent and grant, authorization codes, token families with     *)
(* rotating refresh tokens, revocation by the user, by the client and by   *)
(* the administrator (web/routes/oauth_provider.py, auth/oauth_server.py,  *)
(* the OAuth client pages of web/routes/admin.py).                         *)
(*                                                                         *)
(* A rotation issues an access and a refresh token together: token[f][n]   *)
(* stands for the n-th pair of family f.  FOR UPDATE locks rows until the  *)
(* commit when the database has row locks; SQLite ignores it and admits    *)
(* one writer at a time, from the first UPDATE of a transaction on.        *)
(***************************************************************************)
EXTENDS Naturals, FiniteSets

CONSTANTS
  Scopes, Codes, Families, Requests,
  NoOne,
  MaxPairs,    \* bound: pairs of tokens per family
  MaxEpochs    \* bound: changes of the client by the administrator

ASSUME ConstantsAssumption ==
  /\ MaxPairs \in Nat \ {0}
  /\ MaxEpochs \in Nat
  /\ NoOne \notin Codes
  /\ Scopes # {}

VARIABLES
  rowLocks,  \* the database: FOR UPDATE locks the row it reads, or is ignored
  client,    \* oauth_clients: enabled, allowed_scopes
  grant,     \* oauth_grants
  pending,   \* session["oauth_consent"]: requested scopes
  code,      \* oauth_authorization_codes, with the epoch of issue (observer)
  family,    \* oauth_token_families
  token,     \* oauth_tokens, in pairs
  request,   \* requests to /oauth/token between their reads and their commit
  \* Observers.
  epoch,     \* changes that must invalidate every code and token
  origin,    \* the code a family was issued for, and its epoch
  doomed,    \* families and exchanges that a revoked grant must invalidate
  overtaken, \* the families of exchanges in flight when the grant was revoked
  reused     \* families of which a consumed refresh token was presented

observers == <<epoch, origin, doomed, overtaken, reused>>
vars == <<rowLocks, client, grant, pending, code, family, token, request, observers>>

ScopeSets == (SUBSET Scopes) \ {{}}
Pairs == 1..MaxPairs
NoPair == [scopes |-> {}, consumed |-> FALSE, access |-> FALSE]
Pair == [scopes: SUBSET Scopes, consumed: BOOLEAN, access: BOOLEAN]
CodeRow == [state: {"none", "issued", "consumed", "expired"}, scopes: SUBSET Scopes,
            epoch: 0..MaxEpochs]
Issued(f, n) == token[f][n].scopes # {}

Init ==
  /\ rowLocks \in BOOLEAN
  /\ client = [enabled |-> TRUE, allowed |-> Scopes]
  /\ grant = [state |-> "none", scopes |-> {}]
  /\ pending = {}
  /\ code = [c \in Codes |-> [state |-> "none", scopes |-> {}, epoch |-> 0]]
  /\ family = [f \in Families |-> "none"]
  /\ token = [f \in Families |-> [n \in Pairs |-> NoPair]]
  /\ request = [r \in Requests |-> NoOne]
  /\ epoch = 0
  /\ origin = [f \in Families |-> [code |-> NoOne, epoch |-> 0]]
  /\ doomed = {} /\ overtaken = {} /\ reused = {}

(***************************************************************************)
(* Authorization.                                                          *)
(***************************************************************************)
IssueCode(scopes) ==
  \E c \in Codes :
    /\ code[c].state = "none"
    /\ code' = [code EXCEPT ![c] = [state |-> "issued", scopes |-> scopes,
                                    epoch |-> epoch]]

\* authorize: a standing grant yields a code, otherwise the user is asked.
AuthorizeGranted(scopes) ==
  /\ client.enabled /\ scopes \subseteq client.allowed
  /\ grant.state = "active" /\ scopes \subseteq grant.scopes
  /\ IssueCode(scopes)
  /\ UNCHANGED <<client, grant, pending, family, token, request, observers>>

AuthorizeAsk(scopes) ==
  /\ client.enabled /\ scopes \subseteq client.allowed
  /\ ~(grant.state = "active" /\ scopes \subseteq grant.scopes)
  /\ pending' = scopes
  /\ UNCHANGED <<client, grant, code, family, token, request, observers>>

\* consent, approved: it merges the scopes of the pending request.
Consent ==
  /\ pending # {}
  /\ client.enabled
  /\ pending' = {}
  /\ grant' = [state |-> "active",
               scopes |-> pending \union (IF grant.state = "active" THEN grant.scopes ELSE {})]
  /\ IssueCode(pending)
  /\ UNCHANGED <<client, family, token, request, observers>>

\* consent, denied, expired after ten minutes, or the client is disabled.
ConsentDropped ==
  /\ pending # {}
  /\ pending' = {}
  /\ UNCHANGED <<client, grant, code, family, token, request, observers>>

ExpireCode(c) ==
  /\ code[c].state = "issued"
  /\ \A r \in Requests : request[r] # NoOne => request[r].code # c
  /\ code' = [code EXCEPT ![c].state = "expired"]
  /\ UNCHANGED <<client, grant, pending, family, token, request, observers>>

(***************************************************************************)
(* POST /oauth/token, grant_type=authorization_code.                       *)
(***************************************************************************)
Exchanging(c) == \E r \in Requests :
  request[r] # NoOne /\ request[r].kind = "exchange" /\ request[r].code = c
Refreshing(f) == \E r \in Requests :
  request[r] # NoOne /\ request[r].kind = "refresh" /\ request[r].family = f

\* seen: what the request concludes from the rows it read.
NewRequest(r, kind, c, f, n, seen) ==
  request' = [request EXCEPT ![r] =
    [kind |-> kind, code |-> c, family |-> f, pair |-> n, seen |-> seen]]

\* The code is read (and claimed, with row locks) and so is the grant.
ExchangeRead(r, c) ==
  /\ request[r] = NoOne
  /\ client.enabled
  /\ code[c].state = "issued"
  /\ rowLocks => ~Exchanging(c)
  /\ \E f \in Families :
       /\ family[f] = "none"
       /\ \A s \in Requests : request[s] # NoOne => request[s].family # f
       /\ NewRequest(r, "exchange", c, f, 1,
                     IF grant.state = "active" THEN "valid" ELSE "invalid")
  /\ UNCHANGED <<client, grant, pending, code, family, token, observers>>

\* The guarded update of consumed_at.
Claimed(c) == code[c].state = "issued"

Spent(c) == [code[c] EXCEPT !.state = "consumed"]

\* The grant as the exchange sees it: read before the commit with row locks;
\* SQLite reads it with the write lock held.
GrantSeen(r) == IF rowLocks THEN request[r].seen = "valid" ELSE grant.state = "active"

NewPair(scopes) == [scopes |-> scopes, consumed |-> FALSE, access |-> TRUE]

ExchangeCommit(r) ==
  /\ request[r] # NoOne /\ request[r].kind = "exchange"
  /\ LET c == request[r].code
         f == request[r].family
     IN  /\ Claimed(c)
         /\ GrantSeen(r)
         /\ code' = [code EXCEPT ![c] = Spent(c)]
         /\ family' = [family EXCEPT ![f] = "active"]
         /\ token' = [token EXCEPT ![f][1] = NewPair(code[c].scopes)]
         /\ origin' = [origin EXCEPT ![f] = [code |-> c, epoch |-> code[c].epoch]]
  /\ request' = [request EXCEPT ![r] = NoOne]
  /\ UNCHANGED <<client, grant, pending, epoch, doomed, overtaken, reused>>

\* invalid_grant or an aborted transaction: rolled back, the claim included.
ExchangeFails(r) ==
  /\ request[r] # NoOne /\ request[r].kind = "exchange"
  /\ request' = [request EXCEPT ![r] = NoOne]
  /\ UNCHANGED <<client, grant, pending, code, family, token, observers>>

(***************************************************************************)
(* POST /oauth/token, grant_type=refresh_token: rotate_refresh.            *)
(***************************************************************************)
Valid(f, n) ==
  /\ family[f] = "active" /\ grant.state = "active"
  /\ token[f][n].scopes \subseteq grant.scopes

RefreshRead(r, f, n) ==
  /\ request[r] = NoOne
  /\ client.enabled
  /\ Issued(f, n) /\ n < MaxPairs
  /\ rowLocks => ~Refreshing(f)
  /\ NewRequest(r, "refresh", NoOne, f, n,
                CASE token[f][n].consumed -> "reuse"
                  [] ~token[f][n].consumed /\ Valid(f, n) -> "valid"
                  [] OTHER -> "invalid")
  /\ UNCHANGED <<client, grant, pending, code, family, token, observers>>

RevokeFamilies(fs) ==
  /\ family' = [f \in Families |->
       IF f \in fs /\ family[f] = "active" THEN "revoked" ELSE family[f]]
  /\ token' = [f \in Families |->
       IF f \in fs THEN [n \in Pairs |-> [token[f][n] EXCEPT !.access = FALSE]] ELSE token[f]]

Latest(f) == CHOOSE n \in Pairs : Issued(f, n) /\ \A m \in Pairs : Issued(f, m) => m <= n

RefreshOf(r) == request[r] # NoOne /\ request[r].kind = "refresh"

\* Mutant: the update that claims the token does not test consumed_at.
UnclaimedRefreshBlind(f, n) == family[f] = "active"
UnclaimedRefresh(f, n) == ~token[f][n].consumed /\ family[f] = "active"

\* The pair is claimed and a new one is issued, perhaps with fewer scopes.
RefreshCommit(r, scopes) ==
  /\ RefreshOf(r) /\ request[r].seen = "valid"
  /\ LET f == request[r].family
         n == request[r].pair
         m == Latest(f) + 1
     IN  /\ m \in Pairs
         /\ UnclaimedRefresh(f, n)
         /\ scopes \subseteq token[f][n].scopes \intersect client.allowed
         /\ token' = [token EXCEPT ![f][n].consumed = TRUE, ![f][m] = NewPair(scopes)]
  /\ request' = [request EXCEPT ![r] = NoOne]
  /\ UNCHANGED <<client, grant, pending, code, family, observers>>

\* Mutant: a consumed refresh token is refused and nothing else.
RefreshReuseRefused(r) ==
  /\ RefreshOf(r)
  /\ \/ request[r].seen = "reuse"
     \/ request[r].seen = "valid" /\ ~UnclaimedRefresh(request[r].family, request[r].pair)
  /\ UNCHANGED <<family, token>>
  /\ reused' = reused \union {request[r].family}
  /\ request' = [request EXCEPT ![r] = NoOne]
  /\ UNCHANGED <<client, grant, pending, code, epoch, origin, doomed, overtaken>>

\* The token was consumed before, or another request won the claim: the whole family is revoked, with a commit.
RefreshReuse(r) ==
  /\ RefreshOf(r)
  /\ \/ request[r].seen = "reuse"
     \/ request[r].seen = "valid" /\ ~UnclaimedRefresh(request[r].family, request[r].pair)
  /\ RevokeFamilies({request[r].family})
  /\ reused' = reused \union {request[r].family}
  /\ request' = [request EXCEPT ![r] = NoOne]
  /\ UNCHANGED <<client, grant, pending, code, epoch, origin, doomed, overtaken>>

\* invalid_grant without reuse, invalid_scope, or an aborted transaction.
RefreshFails(r) ==
  /\ RefreshOf(r)
  /\ request' = [request EXCEPT ![r] = NoOne]
  /\ UNCHANGED <<client, grant, pending, code, family, token, observers>>

(***************************************************************************)
(* Revocation.                                                             *)
(***************************************************************************)
\* revoke: a client gives back a token; a refresh token takes its family along.
RevokeAccess(f, n) ==
  /\ client.enabled /\ token[f][n].access
  /\ token' = [token EXCEPT ![f][n].access = FALSE]
  /\ UNCHANGED <<client, grant, pending, code, family, request, observers>>

RevokeRefresh(f) ==
  /\ client.enabled /\ family[f] = "active"
  /\ rowLocks => ~Refreshing(f)
  /\ RevokeFamilies({f})
  /\ UNCHANGED <<client, grant, pending, code, request, observers>>

InFlight == {f \in Families : \E r \in Requests :
  request[r] # NoOne /\ request[r].kind = "exchange" /\ request[r].family = f}
Standing == {f \in Families : family[f] # "none"}

\* Mutant: only the grant is marked.
RevokeGrantOnly ==
  /\ grant.state = "active"
  /\ rowLocks => \A f \in Families : ~Refreshing(f)
  /\ grant' = [grant EXCEPT !.state = "revoked"]
  /\ doomed' = doomed \union Standing \union InFlight
  /\ overtaken' = overtaken \union InFlight
  /\ UNCHANGED <<client, pending, code, family, token, request, epoch, origin, reused>>

\* revoke_grant: the user withdraws the consent.
RevokeGrant ==
  /\ grant.state = "active"
  /\ rowLocks => \A f \in Families : ~Refreshing(f)
  /\ grant' = [grant EXCEPT !.state = "revoked"]
  /\ RevokeFamilies(Families)
  /\ doomed' = doomed \union Standing \union InFlight
  /\ overtaken' = overtaken \union InFlight
  /\ UNCHANGED <<client, pending, code, request, epoch, origin, reused>>

\* Mutant: the codes of the client are left alone.
InvalidateTokens ==
  /\ rowLocks => \A r \in Requests : request[r] = NoOne
  /\ RevokeFamilies(Families)
  /\ UNCHANGED code
  /\ epoch' = epoch + 1

\* What every change of the client does: families, tokens and codes.  With row
\* locks it waits for the requests that hold them.
Invalidate ==
  /\ rowLocks => \A r \in Requests : request[r] = NoOne
  /\ RevokeFamilies(Families)
  /\ code' = [c \in Codes |->
       IF code[c].state = "issued" THEN [code[c] EXCEPT !.state = "consumed"] ELSE code[c]]
  /\ epoch' = epoch + 1

\* oauth_client_toggle.
ClientDisable ==
  /\ client.enabled /\ epoch < MaxEpochs
  /\ client' = [client EXCEPT !.enabled = FALSE]
  /\ Invalidate
  /\ UNCHANGED <<grant, pending, request, origin, doomed, overtaken, reused>>

ClientEnable ==
  /\ ~client.enabled
  /\ client' = [client EXCEPT !.enabled = TRUE]
  /\ UNCHANGED <<grant, pending, code, family, token, request, observers>>

\* oauth_client_edit: excess consent is dropped.
ClientEdit(scopes) ==
  /\ epoch < MaxEpochs
  /\ client' = [client EXCEPT !.allowed = scopes]
  /\ grant' = IF grant.state = "active"
              THEN [grant EXCEPT !.scopes = @ \intersect scopes] ELSE grant
  /\ Invalidate
  /\ UNCHANGED <<pending, request, origin, doomed, overtaken, reused>>

\* oauth_client_secret_rotate.
SecretRotate ==
  /\ epoch < MaxEpochs
  /\ Invalidate
  /\ UNCHANGED <<client, grant, pending, request, origin, doomed, overtaken, reused>>

-----------------------------------------------------------------------------
Step ==
  \/ \E scopes \in ScopeSets :
       \/ AuthorizeGranted(scopes) \/ AuthorizeAsk(scopes) \/ ClientEdit(scopes)
       \/ \E r \in Requests : RefreshCommit(r, scopes)
  \/ Consent \/ ConsentDropped
  \/ \E c \in Codes : ExpireCode(c)
  \/ \E r \in Requests :
       \/ \E c \in Codes : ExchangeRead(r, c)
       \/ \E f \in Families, n \in Pairs : RefreshRead(r, f, n)
       \/ ExchangeCommit(r) \/ ExchangeFails(r) \/ RefreshReuse(r) \/ RefreshFails(r)
  \/ \E f \in Families : RevokeRefresh(f) \/ \E n \in Pairs : RevokeAccess(f, n)
  \/ RevokeGrant \/ ClientDisable \/ ClientEnable \/ SecretRotate

Next == Step /\ UNCHANGED rowLocks

Spec == Init /\ [][Next]_vars

-----------------------------------------------------------------------------
(***************************************************************************)
(* Properties.                                                             *)
(***************************************************************************)
\* consume_bearer: the access token opens the resource API.
Usable(f, n) ==
  /\ token[f][n].access
  /\ family[f] = "active"
  /\ grant.state = "active"
  /\ client.enabled
  /\ token[f][n].scopes \subseteq grant.scopes

\* Every variable of the authorization server keeps its type.
TypeOK ==
  /\ rowLocks \in BOOLEAN
  /\ client \in [enabled: BOOLEAN, allowed: ScopeSets]
  /\ grant \in [state: {"none", "active", "revoked"}, scopes: SUBSET Scopes]
  /\ pending \subseteq Scopes
  /\ code \in [Codes -> CodeRow]
  /\ family \in [Families -> {"none", "active", "revoked"}]
  /\ token \in [Families -> [Pairs -> Pair]]
  /\ \A f \in Families, n \in Pairs : Issued(f, n) => family[f] # "none"
  /\ epoch \in 0..MaxEpochs
  /\ origin \in [Families -> [code: Codes \union {NoOne}, epoch: 0..MaxEpochs]]
  /\ doomed \subseteq Families /\ overtaken \subseteq doomed /\ reused \subseteq Families

\* A family has at most one refresh token that was not used, also when two
\* requests present the same token at the same time.
OneLiveRefresh ==
  \A f \in Families : family[f] = "active" =>
    Cardinality({n \in Pairs : Issued(f, n) /\ ~token[f][n].consumed}) <= 1

\* Once a used refresh token came back no token of its family opens anything.
ReuseIsFatal ==
  \A f \in reused, n \in Pairs : ~Usable(f, n)

\* A change of the client (disabled, edited, new secret) ends every code and
\* token of before, the ones a request in flight is about to use included.
ChangeInvalidates ==
  \A f \in Families, n \in Pairs : Usable(f, n) => origin[f].epoch = epoch

\* A token that existed when the user withdrew the consent is not revived by a
\* later consent of the same user for the same client (one grant row).
RevocationHolds ==
  \A f \in doomed \ overtaken, n \in Pairs : ~Usable(f, n)

\* "grant revocation invalidate[s] token families": also the family of an
\* exchange that was under way.
RevocationComplete == \A f \in doomed, n \in Pairs : ~Usable(f, n)

\* "A registered scope reduction immediately drops excess consent and
\* invalidates tokens carrying rights no longer approved by policy."
ScopesAllowed ==
  \A f \in Families, n \in Pairs : Usable(f, n) => token[f][n].scopes \subseteq client.allowed
=============================================================================
