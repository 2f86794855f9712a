---------------------------- MODULE AccountProofs ----------------------------
(***************************************************************************)
(* Machine-checked proofs about what an account hands out and takes back:  *)
(* the authorization codes and tokens of the OAuth server, the             *)
(* credentials, step-up grants, roles and lockout counter of accounts, and *)
(* the login sessions beside a recovery.                                   *)
(***************************************************************************)
EXTENDS OAuthServer, Credentials, Recovery, FiniteSetTheorems, TLAPS

-----------------------------------------------------------------------------
(***************************************************************************)
(* The OAuth server: the parts of the inductive invariant.                 *)
(***************************************************************************)
TokenRequest ==
  [kind: {"exchange", "refresh"}, code: Codes \union {NoOne}, family: Families,
   pair: Pairs, seen: {"valid", "invalid", "reuse"}]
TokenRequests == request \in [Requests -> TokenRequest \union {NoOne}]

\* A refresh in flight presents a pair that was issued.
RefreshIssued ==
  \A r \in Requests : RefreshOf(r) => Issued(request[r].family, request[r].pair)

\* An exchange in flight has a code, and a family of its own that does not exist
\* yet.
ExchangeOf(r) == request[r] # NoOne /\ request[r].kind = "exchange"
ExchangeApart ==
  \A r \in Requests : ExchangeOf(r) =>
    /\ request[r].code \in Codes
    /\ family[request[r].family] = "none"
    /\ \A s \in Requests :
         ExchangeOf(s) /\ request[s].family = request[r].family => r = s

\* The pair that was not used is the last one of its family.
LiveIsLast ==
  \A f \in Families, n, m \in Pairs :
    Issued(f, n) /\ ~token[f][n].consumed /\ Issued(f, m) => m <= n

\* What a reuse or a withdrawn consent condemned is revoked for good.
ReusedRevoked == \A f \in reused : family[f] = "revoked"
DoomedRevoked == \A f \in doomed \ overtaken : family[f] = "revoked"

\* Only codes and families of this epoch are alive.
EpochCurrent ==
  /\ \A c \in Codes : code[c].state = "issued" => code[c].epoch = epoch
  /\ \A f \in Families : family[f] = "active" => origin[f].epoch = epoch

OAuthInv ==
  /\ TypeOK /\ TokenRequests
  /\ RefreshIssued /\ ExchangeApart /\ LiveIsLast
  /\ ReusedRevoked /\ DoomedRevoked /\ EpochCurrent

-----------------------------------------------------------------------------
\* The initial state of the server satisfies the invariant.
LEMMA OAuthInit == Init => OAuthInv
<1> SUFFICES ASSUME Init PROVE OAuthInv
  OBVIOUS
<1> USE ConstantsAssumption DEF Init
<1>1. /\ client \in [enabled: BOOLEAN, allowed: ScopeSets]
      /\ grant \in [state: {"none", "active", "revoked"}, scopes: SUBSET Scopes]
      /\ code \in [Codes -> CodeRow]
      /\ origin \in [Families -> [code: Codes \union {NoOne}, epoch: 0..MaxEpochs]]
  BY DEF ScopeSets, CodeRow
<1>2. token \in [Families -> [Pairs -> Pair]] /\ \A f \in Families, n \in Pairs : ~Issued(f, n)
  BY DEF Pair, NoPair, Issued
<1>3. TypeOK /\ TokenRequests
  BY <1>1, <1>2 DEF TypeOK, TokenRequests
<1>4. RefreshIssued /\ ExchangeApart
  BY DEF RefreshIssued, ExchangeApart, RefreshOf, ExchangeOf
<1>5. LiveIsLast /\ ReusedRevoked /\ DoomedRevoked /\ EpochCurrent
  BY <1>2 DEF LiveIsLast, ReusedRevoked, DoomedRevoked, EpochCurrent
<1>. QED
  BY <1>3, <1>4, <1>5 DEF OAuthInv

\* A code that is consumed or expires keeps its scopes and its epoch.
LEMMA CodeRowOperations ==
  ASSUME TypeOK, NEW c \in Codes
  PROVE  /\ code[c] \in CodeRow
         /\ \A s \in {"consumed", "expired"} :
              /\ [code[c] EXCEPT !.state = s] \in CodeRow
              /\ [code[c] EXCEPT !.state = s].state = s
<1>1. code[c] \in CodeRow
  BY DEF TypeOK
<1>. QED
  BY <1>1 DEF CodeRow

\* A pair that loses its access token, or is consumed, is a pair with its scopes.
LEMMA PairOperations ==
  ASSUME NEW p \in Pair
  PROVE  /\ [p EXCEPT !.access = FALSE] \in Pair
         /\ [p EXCEPT !.access = FALSE].scopes = p.scopes
         /\ [p EXCEPT !.access = FALSE].consumed = p.consumed
         /\ [p EXCEPT !.consumed = TRUE] \in Pair
         /\ [p EXCEPT !.consumed = TRUE].scopes = p.scopes
         /\ [p EXCEPT !.consumed = TRUE].consumed
  BY DEF Pair

\* Revoking families keeps the types and the pairs: it ends active families and
\* withdraws access tokens, nothing else.
LEMMA RevokeFamiliesEffect ==
  ASSUME TypeOK, NEW fs \in SUBSET Families, RevokeFamilies(fs)
  PROVE  /\ family' \in [Families -> {"none", "active", "revoked"}]
         /\ token' \in [Families -> [Pairs -> Pair]]
         /\ \A f \in Families : /\ family'[f] = "none" <=> family[f] = "none"
                                /\ family[f] = "revoked" => family'[f] = "revoked"
                                /\ family'[f] = "active" => family[f] = "active" /\ f \notin fs
         /\ \A f \in Families, n \in Pairs :
              token'[f][n].scopes = token[f][n].scopes
              /\ token'[f][n].consumed = token[f][n].consumed
<1>1. \A f \in Families, n \in Pairs : token[f][n] \in Pair
  BY DEF TypeOK
<1>2. \A f \in Families, n \in Pairs :
        /\ [token[f][n] EXCEPT !.access = FALSE] \in Pair
        /\ [token[f][n] EXCEPT !.access = FALSE].scopes = token[f][n].scopes
        /\ [token[f][n] EXCEPT !.access = FALSE].consumed = token[f][n].consumed
  BY <1>1, PairOperations
<1>3. \A f \in Families :
        token'[f] = IF f \in fs THEN [n \in Pairs |-> [token[f][n] EXCEPT !.access = FALSE]]
                    ELSE token[f]
  BY DEF RevokeFamilies
<1>4. ASSUME NEW f \in Families PROVE token'[f] \in [Pairs -> Pair]
  <2>1. CASE f \in fs
    <3>1. token'[f] = [n \in Pairs |-> [token[f][n] EXCEPT !.access = FALSE]]
      BY <1>3, <2>1
    <3>. QED
      BY <1>2, <3>1
  <2>2. CASE f \notin fs
    BY <1>3, <2>2 DEF TypeOK
  <2>. QED
    BY <2>1, <2>2
<1>5. token' \in [Families -> [Pairs -> Pair]]
  BY <1>4 DEF RevokeFamilies
<1>6. \A f \in Families, n \in Pairs :
        token'[f][n].scopes = token[f][n].scopes /\ token'[f][n].consumed = token[f][n].consumed
  BY <1>2, <1>3, ZenonT(60)
<1>7. /\ family' \in [Families -> {"none", "active", "revoked"}]
      /\ \A f \in Families : /\ family'[f] = "none" <=> family[f] = "none"
                             /\ family[f] = "revoked" => family'[f] = "revoked"
                             /\ family'[f] = "active" => family[f] = "active" /\ f \notin fs
  BY DEF RevokeFamilies, TypeOK
<1>. QED
  BY <1>5, <1>6, <1>7

\* The claim of an unused pair succeeds for the last one, and its successor is the
\* only unused pair afterwards.
LEMMA RefreshEffect ==
  ASSUME OAuthInv, NEW r \in Requests, NEW scopes \in ScopeSets, RefreshCommit(r, scopes)
  PROVE  \E f \in Families, n \in Pairs :
           /\ family[f] = "active"
           /\ n + 1 \in Pairs
           /\ token' \in [Families -> [Pairs -> Pair]]
           /\ \A g \in Families \ {f} : token'[g] = token[g]
           /\ \A k \in Pairs \ {n, n + 1} : token'[f][k] = token[f][k]
           /\ Issued(f, n) /\ ~token[f][n].consumed
           /\ token'[f][n].scopes = token[f][n].scopes /\ token'[f][n].consumed
           /\ token'[f][n + 1] = NewPair(scopes)
<1> DEFINE f == request[r].family
           n == request[r].pair
<1>1. f \in Families /\ n \in Pairs /\ Issued(f, n)
  BY DEF RefreshCommit, RefreshOf, OAuthInv, TokenRequests, TokenRequest, RefreshIssued
<1>2. ~token[f][n].consumed /\ family[f] = "active"
  BY DEF RefreshCommit, UnclaimedRefresh
<1>3. \A m \in Pairs : Issued(f, m) => m <= n
  BY <1>1, <1>2 DEF OAuthInv, LiveIsLast
<1>4. Latest(f) = n
  <2>1. \A k \in Pairs : (Issued(f, k) /\ \A m \in Pairs : Issued(f, m) => m <= k) => k = n
    BY <1>1, <1>3, ConstantsAssumption DEF Pairs
  <2>. QED
    BY <1>1, <1>3, <2>1 DEF Latest
<1>5. n + 1 \in Pairs /\ n # n + 1
  <2>1. Latest(f) + 1 \in Pairs
    BY Zenon DEF RefreshCommit
  <2>2. n \in Nat
    BY <1>1, ConstantsAssumption DEF Pairs
  <2>3. n + 1 \in Pairs
    BY <1>4, <2>1, Zenon
  <2>. QED
    BY <2>2, <2>3
<1>6. token' = [token EXCEPT ![f][n].consumed = TRUE, ![f][n + 1] = NewPair(scopes)]
  BY <1>4 DEF RefreshCommit
<1>7. NewPair(scopes) \in Pair
  BY DEF NewPair, Pair, ScopeSets
<1>8. /\ [token[f][n] EXCEPT !.consumed = TRUE] \in Pair
      /\ [token[f][n] EXCEPT !.consumed = TRUE].scopes = token[f][n].scopes
      /\ [token[f][n] EXCEPT !.consumed = TRUE].consumed
  <2>1. token[f][n] \in Pair
    BY <1>1 DEF OAuthInv, TypeOK
  <2> HIDE DEF f, n
  <2>. QED
    BY <2>1, PairOperations
<1>9. token \in [Families -> [Pairs -> Pair]]
  BY DEF OAuthInv, TypeOK
<1> DEFINE used == [token[f][n] EXCEPT !.consumed = TRUE]
           new == NewPair(scopes)
           row == [token[f] EXCEPT ![n] = used, ![n + 1] = new]
<1>10. token' = [token EXCEPT ![f] = row]
  BY <1>1, <1>5, <1>6, <1>9
<1> HIDE DEF used, new
<1>11. /\ row \in [Pairs -> Pair]
       /\ row[n] = used
       /\ row[n + 1] = new
       /\ \A k \in Pairs \ {n, n + 1} : row[k] = token[f][k]
  <2>1. used \in Pair /\ new \in Pair
    BY <1>7, <1>8 DEF used, new
  <2>. QED
    BY <1>1, <1>5, <1>9, <2>1
<1> HIDE DEF row
<1>12. /\ token' \in [Families -> [Pairs -> Pair]]
       /\ \A g \in Families \ {f} : token'[g] = token[g]
       /\ token'[f] = row
  BY <1>1, <1>9, <1>10, <1>11
<1> USE DEF used, new
<1>13. /\ n + 1 \in Pairs
       /\ \A k \in Pairs \ {n, n + 1} : token'[f][k] = token[f][k]
       /\ token'[f][n].scopes = token[f][n].scopes /\ token'[f][n].consumed
       /\ token'[f][n + 1] = NewPair(scopes)
  BY <1>5, <1>8, <1>11, <1>12
<1> HIDE DEF f, n
<1>. QED
  BY <1>1, <1>2, <1>12, <1>13

\* Every step of a request, the user or the administrator keeps the types.
LEMMA OAuthTypeStep == OAuthInv /\ [Next]_vars => TypeOK' /\ TokenRequests'
<1> SUFFICES ASSUME OAuthInv, [Next]_vars PROVE TypeOK' /\ TokenRequests'
  OBVIOUS
<1> DEFINE CodeRows == [Codes -> CodeRow]
<1> USE ConstantsAssumption DEF OAuthInv, TypeOK, TokenRequests, observers
<1>t. rowLocks' = rowLocks
  BY DEF Next, vars
<1>0. ASSUME NEW scopes \in SUBSET Scopes, IssueCode(scopes) PROVE code' \in CodeRows
  <2>1. PICK c \in Codes :
          code' = [code EXCEPT ![c] = [state |-> "issued", scopes |-> scopes, epoch |-> epoch]]
    BY <1>0 DEF IssueCode
  <2>2. [state |-> "issued", scopes |-> scopes, epoch |-> epoch]
          \in CodeRow
    BY DEF CodeRow
  <2>. QED
    BY <2>1, <2>2
<1>1. ASSUME NEW scopes \in ScopeSets, AuthorizeGranted(scopes) \/ AuthorizeAsk(scopes)
      PROVE  TypeOK' /\ TokenRequests'
  <2>1. code' \in CodeRows /\ pending' \subseteq Scopes
    BY <1>0, <1>1 DEF AuthorizeGranted, AuthorizeAsk, ScopeSets
  <2>. QED
    BY <1>t, <1>1, <2>1 DEF AuthorizeGranted, AuthorizeAsk, Issued
<1>2. CASE Consent \/ ConsentDropped
  <2>1. code' \in CodeRows
    BY <1>0, <1>2 DEF Consent, ConsentDropped
  <2>2. /\ grant' \in [state: {"none", "active", "revoked"}, scopes: SUBSET Scopes]
        /\ pending' \subseteq Scopes
    BY <1>2 DEF Consent, ConsentDropped
  <2>. QED
    BY <1>t, <1>2, <2>1, <2>2 DEF Consent, ConsentDropped, Issued
<1>3. ASSUME NEW c \in Codes, ExpireCode(c) PROVE TypeOK' /\ TokenRequests'
  <2>1. [code[c] EXCEPT !.state = "expired"] \in CodeRow
    BY CodeRowOperations
  <2>2. code' \in CodeRows
    BY <1>3, <2>1 DEF ExpireCode
  <2>. QED
    BY <1>t, <1>3, <2>2 DEF ExpireCode, Issued
<1>4. ASSUME NEW r \in Requests, NEW c \in Codes, ExchangeRead(r, c)
      PROVE  TypeOK' /\ TokenRequests'
  <2>1. request' \in [Requests -> TokenRequest \union {NoOne}]
    BY <1>4 DEF ExchangeRead, NewRequest, TokenRequest, Pairs
  <2>. QED
    BY <1>t, <1>4, <2>1 DEF ExchangeRead, Issued
<1>5. ASSUME NEW r \in Requests, NEW f \in Families, NEW n \in Pairs, RefreshRead(r, f, n)
      PROVE  TypeOK' /\ TokenRequests'
  <2>1. request' \in [Requests -> TokenRequest \union {NoOne}]
    BY <1>5 DEF RefreshRead, NewRequest, TokenRequest
  <2>. QED
    BY <1>t, <1>5, <2>1 DEF RefreshRead, Issued
<1>6. ASSUME NEW r \in Requests, ExchangeCommit(r) PROVE TypeOK' /\ TokenRequests'
  <2> DEFINE c == request[r].code
             f == request[r].family
  <2>1. f \in Families /\ c \in Codes
    BY <1>6 DEF ExchangeCommit, TokenRequest, ExchangeApart, ExchangeOf
  <2>2. /\ code' = [code EXCEPT ![c] = [code[c] EXCEPT !.state = "consumed"]]
        /\ family' = [family EXCEPT ![f] = "active"]
        /\ token' = [token EXCEPT ![f][1] = NewPair(code[c].scopes)]
        /\ origin' = [origin EXCEPT ![f] = [code |-> c, epoch |-> code[c].epoch]]
        /\ request' = [request EXCEPT ![r] = NoOne]
        /\ UNCHANGED <<client, grant, pending, epoch, doomed, overtaken, reused>>
    BY <1>6 DEF ExchangeCommit, Spent
  <2> HIDE DEF c, f
  <2>3. code[c] \in CodeRow /\ [code[c] EXCEPT !.state = "consumed"] \in CodeRow
    BY <2>1, CodeRowOperations
  <2>4. code' \in CodeRows
    BY <2>1, <2>2, <2>3
  <2>5. token' \in [Families -> [Pairs -> Pair]]
    <3>1. NewPair(code[c].scopes) \in Pair
      BY <2>3 DEF CodeRow, NewPair, Pair
    <3>2. [token[f] EXCEPT ![1] = NewPair(code[c].scopes)] \in [Pairs -> Pair]
      BY <2>1, <3>1
    <3>. QED
      BY <2>1, <2>2, <3>2
  <2>6. \A g \in Families \ {f}, n \in Pairs : token'[g][n] = token[g][n]
    BY <2>1, <2>2
  <2>7. /\ family' \in [Families -> {"none", "active", "revoked"}]
        /\ \A g \in Families, n \in Pairs : Issued(g, n)' => family'[g] # "none"
    BY <2>1, <2>2, <2>6 DEF Issued
  <2>8. origin' \in [Families -> [code: Codes \union {NoOne}, epoch: 0..MaxEpochs]]
    BY <2>1, <2>2, <2>3 DEF CodeRow
  <2>9. request' \in [Requests -> TokenRequest \union {NoOne}]
    BY <2>2
  <2>. QED
    BY <1>t, <2>2, <2>4, <2>5, <2>7, <2>8, <2>9 DEF CodeRow
<1>7. ASSUME NEW r \in Requests, ExchangeFails(r) \/ RefreshFails(r)
      PROVE  TypeOK' /\ TokenRequests'
  BY <1>t, <1>7 DEF ExchangeFails, RefreshFails, Issued
<1>8. ASSUME NEW r \in Requests, NEW scopes \in ScopeSets, RefreshCommit(r, scopes)
      PROVE  TypeOK' /\ TokenRequests'
  <2>1. PICK f \in Families, n \in Pairs :
          /\ family[f] = "active"
          /\ token' \in [Families -> [Pairs -> Pair]]
          /\ \A g \in Families \ {f} : token'[g] = token[g]
    BY <1>8, RefreshEffect
  <2>2. /\ request' \in [Requests -> TokenRequest \union {NoOne}]
        /\ UNCHANGED <<client, grant, pending, code, family, observers>>
    BY <1>8 DEF RefreshCommit
  <2>. QED
    BY <1>t, <2>1, <2>2 DEF Issued
<1>9. ASSUME NEW fs \in SUBSET Families, RevokeFamilies(fs)
      PROVE  /\ family' \in [Families -> {"none", "active", "revoked"}]
             /\ token' \in [Families -> [Pairs -> Pair]]
             /\ \A f \in Families, n \in Pairs : Issued(f, n)' => family'[f] # "none"
  <2>1. /\ family' \in [Families -> {"none", "active", "revoked"}]
        /\ token' \in [Families -> [Pairs -> Pair]]
        /\ \A f \in Families : family'[f] = "none" => family[f] = "none"
        /\ \A f \in Families, n \in Pairs : token'[f][n].scopes = token[f][n].scopes
    BY <1>9, RevokeFamiliesEffect
  <2>2. ASSUME NEW f \in Families, NEW n \in Pairs, Issued(f, n)' PROVE family'[f] # "none"
    <3>1. Issued(f, n)
      BY <2>1, <2>2 DEF Issued
    <3>2. family[f] # "none"
      BY <3>1
    <3>. QED
      BY <2>1, <3>2
  <2>. QED
    BY <2>1, <2>2
<1>10. ASSUME NEW r \in Requests, RefreshReuse(r) PROVE TypeOK' /\ TokenRequests'
  <2>1. request[r].family \in Families
    BY <1>10 DEF RefreshReuse, RefreshOf, TokenRequest
  <2>. QED
    BY <1>t, <1>9, <1>10, <2>1 DEF RefreshReuse
<1>11. ASSUME NEW f \in Families, NEW n \in Pairs, RevokeAccess(f, n)
       PROVE  TypeOK' /\ TokenRequests'
  <2>1. /\ [token[f][n] EXCEPT !.access = FALSE] \in Pair
        /\ [token[f][n] EXCEPT !.access = FALSE].scopes = token[f][n].scopes
    <3>1. token[f][n] \in Pair
      OBVIOUS
    <3>. QED
      BY <3>1, PairOperations
  <2>2. /\ token' \in [Families -> [Pairs -> Pair]]
        /\ \A g \in Families, m \in Pairs : token'[g][m].scopes = token[g][m].scopes
    BY <1>11, <2>1 DEF RevokeAccess
  <2>. QED
    BY <1>t, <1>11, <2>2 DEF RevokeAccess, Issued
<1>12. ASSUME NEW f \in Families, RevokeRefresh(f) PROVE TypeOK' /\ TokenRequests'
  BY <1>t, <1>9, <1>12 DEF RevokeRefresh
<1>13. CASE RevokeGrant
  <2>1. [grant EXCEPT !.state = "revoked"]
          \in [state: {"none", "active", "revoked"}, scopes: SUBSET Scopes]
    OBVIOUS
  <2>. QED
    BY <1>t, <1>9, <1>13, <2>1 DEF RevokeGrant, Standing, InFlight
<1>14. ASSUME Invalidate, epoch < MaxEpochs
       PROVE  /\ code' \in CodeRows /\ epoch' \in 0..MaxEpochs
              /\ family' \in [Families -> {"none", "active", "revoked"}]
              /\ token' \in [Families -> [Pairs -> Pair]]
              /\ \A f \in Families, n \in Pairs : Issued(f, n)' => family'[f] # "none"
  <2>1. \A c \in Codes : code[c] \in CodeRow
                        /\ [code[c] EXCEPT !.state = "consumed"] \in CodeRow
    BY CodeRowOperations
  <2>. QED
    BY <1>9, <1>14, <2>1 DEF Invalidate
<1>15. CASE ClientDisable
  <2>1. [client EXCEPT !.enabled = FALSE] \in [enabled: BOOLEAN, allowed: ScopeSets]
    OBVIOUS
  <2>. QED
    BY <1>t, <1>14, <1>15, <2>1 DEF ClientDisable, CodeRow
<1>16. CASE ClientEnable
  <2>1. [client EXCEPT !.enabled = TRUE] \in [enabled: BOOLEAN, allowed: ScopeSets]
    OBVIOUS
  <2>. QED
    BY <1>t, <1>16, <2>1 DEF ClientEnable, Issued
<1>17. ASSUME NEW scopes \in ScopeSets, ClientEdit(scopes) PROVE TypeOK' /\ TokenRequests'
  <2>1. /\ [client EXCEPT !.allowed = scopes] \in [enabled: BOOLEAN, allowed: ScopeSets]
        /\ [grant EXCEPT !.scopes = grant.scopes \intersect scopes]
             \in [state: {"none", "active", "revoked"}, scopes: SUBSET Scopes]
    OBVIOUS
  <2>. QED
    BY <1>t, <1>14, <1>17, <2>1 DEF ClientEdit, CodeRow
<1>18. CASE SecretRotate
  BY <1>t, <1>14, <1>18 DEF SecretRotate, CodeRow
<1>19. CASE UNCHANGED vars
  BY <1>19 DEF vars, Issued
<1>. QED
  BY <1>1, <1>2, <1>3, <1>4, <1>5, <1>6, <1>7, <1>8, <1>10, <1>11, <1>12, <1>13, <1>15,
     <1>16, <1>17, <1>18, <1>19
  DEF Next, Step

\* The effects of a step on families and tokens, one disjunct per kind of step:
\* everything the invariants below depend on.
FamilySteps ==
  \/ UNCHANGED <<family, reused, doomed, overtaken, epoch, origin>>
  \/ \E r \in Requests : ExchangeCommit(r) \/ RefreshReuse(r)
  \/ \E f \in Families : RevokeRefresh(f)
  \/ RevokeGrant
  \/ Invalidate /\ UNCHANGED <<reused, doomed, overtaken, origin>>

\* Every step of the server is one of these.
LEMMA FamilyStep == [Next]_vars => FamilySteps
<1> SUFFICES ASSUME [Next]_vars PROVE FamilySteps
  OBVIOUS
<1> USE DEF FamilySteps, observers
<1>1. ASSUME NEW scopes \in ScopeSets,
             \/ AuthorizeGranted(scopes) \/ AuthorizeAsk(scopes) \/ ClientEdit(scopes)
             \/ \E r \in Requests : RefreshCommit(r, scopes)
      PROVE  FamilySteps
  BY <1>1 DEF AuthorizeGranted, AuthorizeAsk, ClientEdit, RefreshCommit
<1>2. CASE Consent \/ ConsentDropped \/ ClientDisable \/ ClientEnable \/ SecretRotate
  BY <1>2 DEF Consent, ConsentDropped, ClientDisable, ClientEnable, SecretRotate
<1>3. ASSUME NEW c \in Codes, ExpireCode(c) PROVE FamilySteps
  BY <1>3 DEF ExpireCode
<1>4. ASSUME NEW r \in Requests,
             \/ \E c \in Codes : ExchangeRead(r, c)
             \/ \E f \in Families, n \in Pairs : RefreshRead(r, f, n)
             \/ ExchangeFails(r) \/ RefreshFails(r)
      PROVE  FamilySteps
  BY <1>4 DEF ExchangeRead, RefreshRead, ExchangeFails, RefreshFails
<1>5. ASSUME NEW f \in Families, NEW n \in Pairs, RevokeAccess(f, n) PROVE FamilySteps
  BY <1>5 DEF RevokeAccess
<1>6. CASE UNCHANGED vars
  BY <1>6 DEF vars
<1>. QED
  BY <1>1, <1>2, <1>3, <1>4, <1>5, <1>6 DEF Next, Step

\* A family is created by an exchange, from nothing, and never leaves "revoked".
LEMMA RevokedStays ==
  ASSUME OAuthInv, FamilySteps, NEW f \in Families
  PROVE  /\ family[f] = "revoked" => family'[f] = "revoked"
         /\ family[f] # "none" => family'[f] # "none"
<1> USE DEF OAuthInv, TypeOK
<1>1. ASSUME NEW r \in Requests, ExchangeCommit(r)
      PROVE  /\ family[f] = "revoked" => family'[f] = "revoked"
             /\ family[f] # "none" => family'[f] # "none"
  <2>1. family[request[r].family] = "none"
    BY <1>1 DEF ExchangeCommit, ExchangeApart, ExchangeOf
  <2>. QED
    BY <1>1, <2>1 DEF ExchangeCommit
<1>2. ASSUME NEW fs \in SUBSET Families, RevokeFamilies(fs)
      PROVE  /\ family[f] = "revoked" => family'[f] = "revoked"
             /\ family[f] # "none" => family'[f] # "none"
  BY <1>2, RevokeFamiliesEffect
<1>3. ASSUME NEW r \in Requests, RefreshReuse(r) PROVE request[r].family \in Families
  BY <1>3 DEF RefreshReuse, RefreshOf, TokenRequests, TokenRequest
<1>. QED
  BY <1>1, <1>2, <1>3, ZenonT(60) DEF FamilySteps, RefreshReuse, RevokeRefresh, RevokeGrant, Invalidate

\* What a reuse condemned stays revoked.
LEMMA ReusedStep == OAuthInv /\ [Next]_vars => ReusedRevoked'
<1> SUFFICES ASSUME OAuthInv, FamilySteps, NEW f \in reused' PROVE family'[f] = "revoked"
  BY FamilyStep DEF ReusedRevoked
<1>1. ASSUME NEW r \in Requests, RefreshReuse(r), f = request[r].family
      PROVE  family'[f] = "revoked"
  <2>1. f \in Families /\ family[f] # "none"
    BY <1>1 DEF RefreshReuse, OAuthInv, RefreshIssued, RefreshOf, TypeOK, TokenRequests,
                TokenRequest
  <2>. QED
    BY <1>1, <2>1, RevokeFamiliesEffect DEF RefreshReuse, OAuthInv, TypeOK
<1>2. CASE f \in reused
  BY <1>2, RevokedStays DEF OAuthInv, ReusedRevoked, TypeOK
<1>. QED
  BY <1>1, <1>2
  DEF FamilySteps, ExchangeCommit, RefreshReuse, RevokeRefresh, RevokeGrant, observers

\* What a withdrawn consent condemned stays revoked.
LEMMA DoomedStep == OAuthInv /\ [Next]_vars => DoomedRevoked'
<1> SUFFICES ASSUME OAuthInv, FamilySteps, NEW f \in doomed' \ overtaken'
             PROVE  family'[f] = "revoked"
  BY FamilyStep DEF DoomedRevoked
<1>1. CASE RevokeGrant /\ f \in Standing
  <2>1. f \in Families /\ family[f] # "none" /\ RevokeFamilies(Families)
    BY <1>1 DEF Standing, RevokeGrant
  <2>. QED
    BY <2>1, RevokeFamiliesEffect DEF OAuthInv, TypeOK
<1>2. CASE f \in doomed \ overtaken
  BY <1>2, RevokedStays DEF OAuthInv, DoomedRevoked, TypeOK
<1>. QED
  BY <1>1, <1>2
  DEF FamilySteps, ExchangeCommit, RefreshReuse, RevokeRefresh, RevokeGrant, observers

\* A code or family that is alive was issued after the last change of the client.
LEMMA EpochStep == OAuthInv /\ [Next]_vars => EpochCurrent'
<1> SUFFICES ASSUME OAuthInv, [Next]_vars PROVE EpochCurrent'
  OBVIOUS
<1> USE ConstantsAssumption DEF EpochCurrent, observers
<1>t. EpochCurrent /\ TypeOK
  BY DEF OAuthInv
<1>0. ASSUME NEW fs \in SUBSET Families, RevokeFamilies(fs)
      PROVE  \A f \in Families : family'[f] = "active" => family[f] = "active" /\ f \notin fs
  BY <1>t, <1>0, RevokeFamiliesEffect
<1>1. ASSUME NEW scopes, IssueCode(scopes)
      PROVE  \A c \in Codes : code'[c].state = "issued" => code'[c].epoch = epoch
  BY <1>t, <1>1 DEF IssueCode, TypeOK
<1>2. ASSUME NEW scopes \in ScopeSets,
             \/ AuthorizeGranted(scopes) \/ AuthorizeAsk(scopes)
             \/ \E r \in Requests : RefreshCommit(r, scopes)
      PROVE  EpochCurrent'
  BY <1>t, <1>1, <1>2 DEF AuthorizeGranted, AuthorizeAsk, RefreshCommit
<1>3. CASE Consent \/ ConsentDropped \/ ClientEnable
  BY <1>t, <1>1, <1>3 DEF Consent, ConsentDropped, ClientEnable
<1>4. ASSUME NEW c \in Codes, ExpireCode(c) PROVE EpochCurrent'
  BY <1>t, <1>4, CodeRowOperations DEF ExpireCode, TypeOK
<1>5. ASSUME NEW r \in Requests,
             \/ \E c \in Codes : ExchangeRead(r, c)
             \/ \E f \in Families, n \in Pairs : RefreshRead(r, f, n)
             \/ ExchangeFails(r) \/ RefreshFails(r)
      PROVE  EpochCurrent'
  BY <1>t, <1>5 DEF ExchangeRead, RefreshRead, ExchangeFails, RefreshFails
<1>6. ASSUME NEW r \in Requests, ExchangeCommit(r) PROVE EpochCurrent'
  <2> DEFINE c == request[r].code
             f == request[r].family
  <2>1. c \in Codes /\ f \in Families /\ code[c].state = "issued"
    BY <1>6 DEF ExchangeCommit, Claimed, OAuthInv, TokenRequests, TokenRequest, ExchangeApart,
                ExchangeOf
  <2>2. /\ code' = [code EXCEPT ![c] = [code[c] EXCEPT !.state = "consumed"]]
        /\ family' = [family EXCEPT ![f] = "active"]
        /\ origin' = [origin EXCEPT ![f] = [code |-> c, epoch |-> code[c].epoch]]
        /\ epoch' = epoch
    BY <1>6 DEF ExchangeCommit, Spent
  <2> HIDE DEF c, f
  <2>3. [code[c] EXCEPT !.state = "consumed"].state = "consumed"
    BY <1>t, <2>1, CodeRowOperations
  <2>4. \A d \in Codes : code'[d].state = "issued" => code'[d].epoch = epoch
    BY <1>t, <2>1, <2>2, <2>3 DEF TypeOK
  <2>5. \A g \in Families : family'[g] = "active" => origin'[g].epoch = epoch
    BY <1>t, <2>1, <2>2 DEF TypeOK
  <2>. QED
    BY <2>2, <2>4, <2>5
<1>7. ASSUME NEW r \in Requests, RefreshReuse(r) PROVE EpochCurrent'
  <2>1. request[r].family \in Families
    BY <1>7 DEF RefreshReuse, RefreshOf, OAuthInv, TokenRequests, TokenRequest
  <2>. QED
    BY <1>t, <1>0, <1>7, <2>1 DEF RefreshReuse
<1>8. ASSUME NEW f \in Families, RevokeRefresh(f) PROVE EpochCurrent'
  BY <1>t, <1>0, <1>8 DEF RevokeRefresh
<1>9. ASSUME NEW f \in Families, NEW n \in Pairs, RevokeAccess(f, n) PROVE EpochCurrent'
  BY <1>t, <1>9 DEF RevokeAccess
<1>10. CASE RevokeGrant
  BY <1>t, <1>0, <1>10 DEF RevokeGrant
<1>11. ASSUME Invalidate PROVE EpochCurrent'
  <2>1. \A f \in Families : family'[f] # "active"
    BY <1>0, <1>11 DEF Invalidate
  <2>2. \A c \in Codes : code'[c].state # "issued"
    BY <1>t, <1>11, CodeRowOperations DEF Invalidate
  <2>. QED
    BY <2>1, <2>2
<1>12. ASSUME ClientDisable \/ SecretRotate \/ \E scopes \in ScopeSets : ClientEdit(scopes)
       PROVE  Invalidate
  BY <1>12 DEF ClientDisable, SecretRotate, ClientEdit
<1>13. CASE UNCHANGED vars
  BY <1>t, <1>13 DEF vars
<1>. QED
  BY <1>2, <1>3, <1>4, <1>5, <1>6, <1>7, <1>8, <1>9, <1>10, <1>11, <1>12, <1>13
  DEF Next, Step

\* The requests that stay, or arrive, with a step.
RequestSteps ==
  \/ request' = request
  \/ \E r \in Requests, c \in Codes : ExchangeRead(r, c)
  \/ \E r \in Requests, f \in Families, n \in Pairs : RefreshRead(r, f, n)
  \/ \E r \in Requests : request' = [request EXCEPT ![r] = NoOne]

\* Every step of the server is one of these.
LEMMA RequestStep == [Next]_vars => RequestSteps
<1> SUFFICES ASSUME [Next]_vars PROVE RequestSteps
  OBVIOUS
<1> USE DEF RequestSteps
<1>1. ASSUME NEW scopes \in ScopeSets,
             \/ AuthorizeGranted(scopes) \/ AuthorizeAsk(scopes) \/ ClientEdit(scopes)
             \/ \E r \in Requests : RefreshCommit(r, scopes)
      PROVE  RequestSteps
  BY <1>1 DEF AuthorizeGranted, AuthorizeAsk, ClientEdit, RefreshCommit
<1>2. CASE \/ Consent \/ ConsentDropped \/ ClientDisable \/ ClientEnable \/ SecretRotate
           \/ RevokeGrant
  BY <1>2 DEF Consent, ConsentDropped, ClientDisable, ClientEnable, SecretRotate, RevokeGrant
<1>3. ASSUME NEW c \in Codes, ExpireCode(c) PROVE RequestSteps
  BY <1>3 DEF ExpireCode
<1>4. ASSUME NEW r \in Requests,
             \/ \E c \in Codes : ExchangeRead(r, c)
             \/ \E f \in Families, n \in Pairs : RefreshRead(r, f, n)
             \/ ExchangeFails(r) \/ RefreshFails(r) \/ ExchangeCommit(r) \/ RefreshReuse(r)
      PROVE  RequestSteps
  BY <1>4 DEF ExchangeFails, RefreshFails, ExchangeCommit, RefreshReuse
<1>5. ASSUME NEW f \in Families, RevokeRefresh(f) \/ \E n \in Pairs : RevokeAccess(f, n)
      PROVE  RequestSteps
  BY <1>5 DEF RevokeRefresh, RevokeAccess
<1>6. CASE UNCHANGED vars
  BY <1>6 DEF vars
<1>. QED
  BY <1>1, <1>2, <1>3, <1>4, <1>5, <1>6 DEF Next, Step

\* The steps that write tokens.
TokenSteps ==
  \/ token' = token
  \/ \E r \in Requests : ExchangeCommit(r)
  \/ \E r \in Requests, scopes \in ScopeSets : RefreshCommit(r, scopes)
  \/ \E fs \in SUBSET Families : RevokeFamilies(fs)
  \/ \E f \in Families, n \in Pairs : RevokeAccess(f, n)

\* Every step of the server is one of these.
LEMMA TokenStep == OAuthInv /\ [Next]_vars => TokenSteps
<1> SUFFICES ASSUME OAuthInv, [Next]_vars PROVE TokenSteps
  OBVIOUS
<1> USE DEF TokenSteps
<1>1. ASSUME NEW scopes \in ScopeSets,
             AuthorizeGranted(scopes) \/ AuthorizeAsk(scopes)
      PROVE  TokenSteps
  BY <1>1 DEF AuthorizeGranted, AuthorizeAsk
<1>2. CASE Consent \/ ConsentDropped \/ ClientEnable
  BY <1>2 DEF Consent, ConsentDropped, ClientEnable
<1>3. ASSUME \/ ClientDisable \/ SecretRotate \/ RevokeGrant
             \/ \E scopes \in ScopeSets : ClientEdit(scopes)
      PROVE  TokenSteps
  BY <1>3 DEF ClientDisable, SecretRotate, RevokeGrant, ClientEdit, Invalidate
<1>4. ASSUME NEW c \in Codes, ExpireCode(c) PROVE TokenSteps
  BY <1>4 DEF ExpireCode
<1>5. ASSUME NEW r \in Requests,
             \/ \E c \in Codes : ExchangeRead(r, c)
             \/ \E f \in Families, n \in Pairs : RefreshRead(r, f, n)
             \/ ExchangeFails(r) \/ RefreshFails(r)
      PROVE  TokenSteps
  BY <1>5 DEF ExchangeRead, RefreshRead, ExchangeFails, RefreshFails
<1>6. ASSUME NEW r \in Requests, RefreshReuse(r) PROVE TokenSteps
  <2>1. {request[r].family} \in SUBSET Families
    BY <1>6 DEF RefreshReuse, RefreshOf, OAuthInv, TokenRequests, TokenRequest
  <2>. QED
    BY <1>6, <2>1 DEF RefreshReuse
<1>7. ASSUME NEW f \in Families, RevokeRefresh(f) PROVE TokenSteps
  BY <1>7 DEF RevokeRefresh
<1>8. CASE UNCHANGED vars
  BY <1>8 DEF vars
<1>. QED
  BY <1>1, <1>2, <1>3, <1>4, <1>5, <1>6, <1>7, <1>8 DEF Next, Step

\* No step takes back a pair that was issued, or gives it other scopes.
LEMMA IssuedStays ==
  ASSUME OAuthInv, [Next]_vars, NEW f \in Families, NEW n \in Pairs, Issued(f, n)
  PROVE  Issued(f, n)'
<1> USE DEF Issued
<1>t. TypeOK /\ family[f] # "none"
  BY DEF OAuthInv, TypeOK
<1>1. ASSUME NEW r \in Requests, ExchangeCommit(r) PROVE Issued(f, n)'
  <2>1. request[r].family \in Families \ {f}
    BY <1>t, <1>1 DEF ExchangeCommit, OAuthInv, TokenRequests, TokenRequest, ExchangeApart,
                      ExchangeOf
  <2>. QED
    BY <1>t, <1>1, <2>1 DEF ExchangeCommit, TypeOK
<1>2. ASSUME NEW r \in Requests, NEW scopes \in ScopeSets, RefreshCommit(r, scopes)
      PROVE  Issued(f, n)'
  <2>1. PICK g \in Families, k \in Pairs :
          /\ \A h \in Families \ {g} : token'[h] = token[h]
          /\ \A m \in Pairs \ {k, k + 1} : token'[g][m] = token[g][m]
          /\ token'[g][k].scopes = token[g][k].scopes
          /\ token'[g][k + 1] = NewPair(scopes)
    BY <1>2, RefreshEffect
  <2>. QED
    BY <2>1 DEF NewPair, ScopeSets
<1>3. ASSUME NEW fs \in SUBSET Families, RevokeFamilies(fs) PROVE Issued(f, n)'
  BY <1>t, <1>3, RevokeFamiliesEffect
<1>4. ASSUME NEW g \in Families, NEW m \in Pairs, RevokeAccess(g, m) PROVE Issued(f, n)'
  BY <1>t, <1>4, PairOperations DEF RevokeAccess, TypeOK
<1>. QED
  BY <1>1, <1>2, <1>3, <1>4, TokenStep DEF TokenSteps

\* Requests in flight keep what they rely on: the family of an exchange is created
\* by its own commit only, and a pair that is presented stays issued.
LEMMA RequestsStep == OAuthInv /\ [Next]_vars => RefreshIssued' /\ ExchangeApart'
<1> SUFFICES ASSUME OAuthInv, [Next]_vars PROVE RefreshIssued' /\ ExchangeApart'
  OBVIOUS
<1>t. /\ TypeOK /\ RefreshIssued /\ ExchangeApart
      /\ request \in [Requests -> TokenRequest \union {NoOne}]
  BY DEF OAuthInv, TokenRequests
<1>1. ASSUME NEW r \in Requests, RefreshOf(r)' PROVE Issued(request[r].family, request[r].pair)'
  <2>1. CASE request'[r] = request[r]
    <3>1. /\ Issued(request[r].family, request[r].pair)
          /\ request[r].family \in Families /\ request[r].pair \in Pairs
      BY <1>1, <1>t, <2>1 DEF RefreshIssued, RefreshOf, TokenRequest
    <3>. QED
      BY <2>1, <3>1, IssuedStays DEF Issued
  <2>2. ASSUME NEW f \in Families, NEW n \in Pairs, RefreshRead(r, f, n)
        PROVE  Issued(request[r].family, request[r].pair)'
    BY <1>t, <2>2 DEF RefreshRead, NewRequest, Issued
  <2>3. ASSUME NEW c \in Codes, ExchangeRead(r, c) PROVE FALSE
    BY <1>1, <1>t, <2>3 DEF ExchangeRead, NewRequest, RefreshOf
  <2>4. ASSUME NEW s \in Requests,
               \/ \E c \in Codes : ExchangeRead(s, c)
               \/ \E f \in Families, n \in Pairs : RefreshRead(s, f, n)
               \/ request' = [request EXCEPT ![s] = NoOne]
        PROVE  s = r \/ request'[r] = request[r]
    BY <1>t, <2>4 DEF ExchangeRead, RefreshRead, NewRequest
  <2>5. ASSUME request' = [request EXCEPT ![r] = NoOne] PROVE FALSE
    BY <1>1, <1>t, <2>5 DEF RefreshOf
  <2>. QED
    BY <2>1, <2>2, <2>3, <2>4, <2>5, RequestStep DEF RequestSteps
<1>2. ASSUME NEW r \in Requests, ExchangeOf(r), request'[r] = request[r],
             request[r] # NoOne
      PROVE  family'[request[r].family] = "none"
  <2> DEFINE f == request[r].family
  <2>1. f \in Families /\ family[f] = "none"
    BY <1>2, <1>t DEF ExchangeApart, ExchangeOf, TokenRequest
  <2>2. ASSUME NEW s \in Requests, ExchangeCommit(s) PROVE request[s].family # f
    BY <1>2, <1>t, <2>2 DEF ExchangeCommit, ExchangeApart, ExchangeOf
  <2>3. ASSUME NEW s \in Requests, ExchangeCommit(s) PROVE family'[f] = "none"
    BY <1>t, <2>1, <2>2, <2>3 DEF ExchangeCommit, TypeOK
  <2>4. ASSUME NEW fs \in SUBSET Families, RevokeFamilies(fs) PROVE family'[f] = "none"
    BY <1>t, <2>1, <2>4, RevokeFamiliesEffect
  <2>5. ASSUME NEW s \in Requests, RefreshReuse(s) PROVE request[s].family \in Families
    BY <1>t, <2>5 DEF RefreshReuse, RefreshOf, TokenRequest
  <2>. QED
    BY <2>1, <2>3, <2>4, <2>5, FamilyStep
    DEF FamilySteps, RefreshReuse, RevokeRefresh, RevokeGrant, Invalidate
<1>3. ASSUME NEW q \in Requests, NEW c \in Codes, ExchangeRead(q, c) PROVE ExchangeApart'
  <2>1. PICK f \in Families :
          /\ family[f] = "none"
          /\ \A s \in Requests : request[s] # NoOne => request[s].family # f
          /\ request'[q].code = c /\ request'[q].family = f
    BY <1>t, <1>3 DEF ExchangeRead, NewRequest
  <2>2. /\ family' = family
        /\ \A s \in Requests \ {q} : request'[s] = request[s]
    BY <1>t, <1>3 DEF ExchangeRead, NewRequest
  <2>. QED
    BY <1>t, <2>1, <2>2 DEF ExchangeApart, ExchangeOf
<1>4. ASSUME \A r \in Requests : ExchangeOf(r)' => request'[r] = request[r]
      PROVE  ExchangeApart'
  <2>1. ASSUME NEW r \in Requests, ExchangeOf(r)'
        PROVE  ExchangeOf(r) /\ request'[r] = request[r]
    BY <1>4, <2>1 DEF ExchangeOf
  <2>. QED
    BY <1>t, <1>2, <2>1 DEF ExchangeApart, ExchangeOf
<1>5. ASSUME NEW q \in Requests, NEW f \in Families, NEW n \in Pairs, RefreshRead(q, f, n)
      PROVE  ExchangeApart'
  <2>1. request'[q].kind = "refresh" /\ \A s \in Requests \ {q} : request'[s] = request[s]
    BY <1>t, <1>5 DEF RefreshRead, NewRequest
  <2>. QED
    BY <1>4, <2>1 DEF ExchangeOf
<1>6. ASSUME NEW q \in Requests, request' = [request EXCEPT ![q] = NoOne]
      PROVE  ExchangeApart'
  BY <1>t, <1>4, <1>6 DEF ExchangeOf
<1>7. ExchangeApart'
  BY <1>3, <1>4, <1>5, <1>6, RequestStep DEF RequestSteps
<1>. QED
  BY <1>1, <1>7 DEF RefreshIssued

\* A family has one pair that was not used, its last: a rotation uses it and issues
\* its successor in the same transaction.
LEMMA LiveIsLastStep == OAuthInv /\ [Next]_vars => LiveIsLast'
<1> SUFFICES ASSUME OAuthInv, TokenSteps PROVE LiveIsLast'
  BY TokenStep
<1> USE ConstantsAssumption DEF Issued
<1>t. TypeOK /\ LiveIsLast
  BY DEF OAuthInv
<1>1. ASSUME \A f \in Families, n \in Pairs :
               token'[f][n].scopes = token[f][n].scopes
               /\ token'[f][n].consumed = token[f][n].consumed
      PROVE  LiveIsLast'
  BY <1>t, <1>1 DEF LiveIsLast
<1>2. ASSUME NEW fs \in SUBSET Families, RevokeFamilies(fs) PROVE LiveIsLast'
  BY <1>t, <1>1, <1>2, RevokeFamiliesEffect
<1>3. ASSUME NEW g \in Families, NEW m \in Pairs, RevokeAccess(g, m) PROVE LiveIsLast'
  <2>1. token[g][m] \in Pair
    BY <1>t DEF TypeOK
  <2>. QED
    BY <1>t, <1>1, <1>3, <2>1, PairOperations DEF RevokeAccess, TypeOK
<1>4. ASSUME NEW r \in Requests, ExchangeCommit(r) PROVE LiveIsLast'
  <2> DEFINE f == request[r].family
  <2>1. f \in Families /\ family[f] = "none"
    BY <1>4 DEF ExchangeCommit, OAuthInv, TokenRequests, TokenRequest, ExchangeApart, ExchangeOf
  <2>2. \A n \in Pairs : ~Issued(f, n)
    BY <1>t, <2>1 DEF TypeOK
  <2>3. token' = [token EXCEPT ![f][1] = NewPair(code[request[r].code].scopes)]
    BY <1>4 DEF ExchangeCommit
  <2> HIDE DEF f
  <2>4. /\ \A g \in Families \ {f} : token'[g] = token[g]
        /\ \A n \in Pairs \ {1} : token'[f][n] = token[f][n]
    BY <1>t, <2>1, <2>3 DEF TypeOK
  <2>. QED
    BY <1>t, <2>2, <2>4 DEF LiveIsLast, Pairs
<1>5. ASSUME NEW r \in Requests, NEW scopes \in ScopeSets, RefreshCommit(r, scopes)
      PROVE  LiveIsLast'
  <2>1. PICK f \in Families, n \in Pairs :
          /\ n + 1 \in Pairs
          /\ \A g \in Families \ {f} : token'[g] = token[g]
          /\ \A k \in Pairs \ {n, n + 1} : token'[f][k] = token[f][k]
          /\ Issued(f, n) /\ ~token[f][n].consumed
          /\ token'[f][n].consumed
    BY <1>5, RefreshEffect
  <2>2. \A k \in Pairs : Issued(f, k) => k <= n
    BY <1>t, <2>1 DEF LiveIsLast
  <2>3. \A k \in Pairs : Issued(f, k) /\ ~token[f][k].consumed => k = n
    BY <1>t, <2>1, <2>2 DEF LiveIsLast, Pairs
  <2>4. \A k \in Pairs : Issued(f, k)' => k <= n + 1
    BY <2>1, <2>2 DEF Pairs
  <2>5. \A k \in Pairs : Issued(f, k)' /\ ~token'[f][k].consumed => k = n + 1
    BY <2>1, <2>3
  <2>6. \A k, m \in Pairs : Issued(f, k)' /\ ~token'[f][k].consumed /\ Issued(f, m)' => m <= k
    BY <2>4, <2>5
  <2>. QED
    BY <1>t, <2>1, <2>6 DEF LiveIsLast
<1>6. CASE token' = token
  BY <1>1, <1>6
<1>. QED
  BY <1>2, <1>3, <1>4, <1>5, <1>6 DEF TokenSteps

-----------------------------------------------------------------------------
(***************************************************************************)
(* The OAuth server: the theorems.                                         *)
(***************************************************************************)
\* The invariant of the OAuth server holds in every reachable state.
THEOREM OAuthInvariance == Spec => []OAuthInv
<1>1. OAuthInv /\ [Next]_vars => OAuthInv'
  BY OAuthTypeStep, RequestsStep, LiveIsLastStep, ReusedStep, DoomedStep, EpochStep
  DEF OAuthInv
<1>. QED
  BY OAuthInit, <1>1, PTL DEF Spec

\* Every reachable state of the OAuth server is well typed.
THEOREM OAuthTypeCorrect == Spec => []TypeOK
<1>1. OAuthInv => TypeOK
  BY DEF OAuthInv
<1>. QED
  BY <1>1, OAuthInvariance, PTL

\* A family has at most one refresh token that was not used, for any number of
\* requests that present it at the same time and on both kinds of database.
THEOREM RefreshIsUnique == Spec => []OneLiveRefresh
<1>1. OAuthInv => OneLiveRefresh
  <2> SUFFICES ASSUME OAuthInv, NEW f \in Families
               PROVE  Cardinality({n \in Pairs : Issued(f, n) /\ ~token[f][n].consumed}) <= 1
    BY DEF OneLiveRefresh
  <2> DEFINE live == {n \in Pairs : Issued(f, n) /\ ~token[f][n].consumed}
  <2>1. \A n, m \in live : n = m
    BY ConstantsAssumption DEF OAuthInv, LiveIsLast, Pairs
  <2>2. live = {} \/ \E n \in live : live = {n}
    BY <2>1
  <2>3. live = {} => Cardinality(live) = 0
    BY FS_EmptySet
  <2>4. ASSUME NEW n \in live, live = {n} PROVE Cardinality(live) = 1
    BY <2>4, FS_Singleton
  <2> HIDE DEF live
  <2>5. Cardinality(live) <= 1
    BY <2>2, <2>3, <2>4
  <2>. QED
    BY <2>5 DEF live
<1>. QED
  BY <1>1, OAuthInvariance, PTL

\* Once a used refresh token came back no token of its family opens anything.
THEOREM ReuseEndsFamily == Spec => []ReuseIsFatal
<1>1. OAuthInv => ReuseIsFatal
  BY DEF OAuthInv, TypeOK, ReusedRevoked, ReuseIsFatal, Usable
<1>. QED
  BY <1>1, OAuthInvariance, PTL

\* A change of the client ends every code and token issued before it, also those a
\* request in flight has read.
THEOREM ClientChangeInvalidates == Spec => []ChangeInvalidates
<1>1. OAuthInv => ChangeInvalidates
  BY DEF OAuthInv, EpochCurrent, ChangeInvalidates, Usable
<1>. QED
  BY <1>1, OAuthInvariance, PTL

\* A token that existed when the consent was withdrawn is not revived by a later
\* consent; only an exchange under way at that moment escapes.
THEOREM WithdrawnStaysWithdrawn == Spec => []RevocationHolds
<1>1. OAuthInv => RevocationHolds
  BY DEF OAuthInv, TypeOK, DoomedRevoked, RevocationHolds, Usable
<1>. QED
  BY <1>1, OAuthInvariance, PTL

-----------------------------------------------------------------------------
(***************************************************************************)
(* Credentials: the parts of the inductive invariant.                      *)
(***************************************************************************)
AccountRow == [have: SUBSET Authenticators, pw: BOOLEAN, sso: SUBSET Idents]
OpenGrant == [op: Ops, by: Authenticators \union {"admin"}, open: {TRUE}]
RoleOps == {"admin", "viewer", "disabled"} \X Users
Task ==
  [stage: {"idle", "confirmed", "remove", "role", "login"},
   op: Ops \union {NoTask.op} \union RoleOps, saw: SUBSET (AccountRow \union Users),
   seen: Nat]
Lock == [failed: 0..Threshold, locked: BOOLEAN]

CredentialTypes ==
  /\ acc \in AccountRow
  /\ grants \in [Grants -> OpenGrant \union {NoGrant, SpentGrant}]
  /\ role \in [Users -> {"none", "admin", "viewer", "disabled"}]
  /\ lock \in Lock
  /\ held \in [Callers -> Task]
  /\ \A w \in Callers : held[w].stage = "role" => held[w].op \in RoleOps
  /\ uses \in [Grants -> Nat]
  /\ wrong \in Nat
  /\ stale \in BOOLEAN /\ counted \in BOOLEAN

\* What a removal without the user lock has checked about the rows it saw.
RemovalChecked ==
  \A w \in Callers : held[w].stage = "remove" =>
    \A a \in held[w].saw : AuthPaths(Without(a, held[w].op)) # {}

\* A step closes neither the paths that the policy counts nor the way through the
\* login handlers.
PathKept ==
  /\ CanLogin(acc) => CanLogin(acc)'
  /\ AuthPaths(acc) # {} => AuthPaths(acc)' # {}

\* A grant that is still open has let nothing pass.
UsesOfGrants ==
  \A g \in Grants : uses[g] <= 1 /\ (grants[g] # SpentGrant => uses[g] = 0)

\* Who takes the role of an administrator away has seen another one.
OtherAdminSeen ==
  \A w \in Callers :
    held[w].stage = "role" /\ held[w].op[1] # "admin"
      => held[w].saw # {} /\ held[w].op[2] \notin held[w].saw

\* The counter is at least the number of wrong logins since it was reset, and it
\* reaches the threshold only together with the lock.
CounterCounts ==
  /\ wrong <= lock.failed
  /\ lock.failed = Threshold /\ ~lock.locked => wrong = 0

\* Who may unlink an identity holds a passkey: the one that confirmed it, or one
\* that was left in its place.  The removals that do not ask for a passkey to stay
\* take TOTP devices and the password only.
KeyInv ==
  /\ \A g \in Grants : grants[g].open /\ grants[g].op[1] = "unlink" => FidoOf(acc) # {}
  /\ \A w \in Callers : held[w].stage = "remove" =>
       held[w].op[1] = "disable_password" \/ held[w].op[2] \in TotpDevices

CredentialsInv ==
  /\ CredentialTypes /\ RemovalChecked /\ PathRemains /\ UsesOfGrants
  /\ focus = "roles" => stale \/ (Admins # {} /\ OtherAdminSeen)
  /\ stale \/ CounterCounts

-----------------------------------------------------------------------------
\* A grant that was issued, or spent, is a grant.
LEMMA GrantOperations ==
  /\ SpentGrant # NoGrant /\ ~SpentGrant.open /\ ~NoGrant.open
  /\ \A op \in Ops, f \in Authenticators \union {"admin"} :
       /\ [op |-> op, by |-> f, open |-> TRUE] \in OpenGrant
       /\ [op |-> op, by |-> f, open |-> TRUE] # SpentGrant
  BY DEF OpenGrant, NoGrant, SpentGrant

\* What a caller may hold after reading: nothing, a confirmation, a checked removal,
\* a checked role, or a count.
LEMMA TaskOperations ==
  /\ NoTask \in Task /\ NoTask.stage = "idle"
  /\ \A op \in Ops :
       /\ [NoTask EXCEPT !.stage = "confirmed", !.op = op] \in Task
       /\ [NoTask EXCEPT !.stage = "confirmed", !.op = op].stage = "confirmed"
  /\ \A op \in Ops, a \in AccountRow :
       LET t == [NoTask EXCEPT !.stage = "remove", !.op = op, !.saw = {a}]
       IN  t \in Task /\ t.stage = "remove" /\ t.op = op /\ t.saw = {a}
  /\ \A op \in RoleOps, us \in SUBSET Users :
       LET t == [NoTask EXCEPT !.stage = "role", !.op = op, !.saw = us]
       IN  t \in Task /\ t.stage = "role" /\ t.op = op /\ t.saw = us
  /\ \A n \in Nat :
       LET t == [NoTask EXCEPT !.stage = "login", !.seen = n]
       IN  t \in Task /\ t.stage = "login"
<1> USE DEF Task, NoTask
<1>1. NoTask \in Task /\ NoTask.stage = "idle"
  OBVIOUS
<1>2. ASSUME NEW op \in Ops
      PROVE  /\ [NoTask EXCEPT !.stage = "confirmed", !.op = op] \in Task
             /\ [NoTask EXCEPT !.stage = "confirmed", !.op = op].stage = "confirmed"
  OBVIOUS
<1>3. ASSUME NEW op \in Ops, NEW a \in AccountRow
      PROVE  LET t == [NoTask EXCEPT !.stage = "remove", !.op = op, !.saw = {a}]
             IN  t \in Task /\ t.stage = "remove" /\ t.op = op /\ t.saw = {a}
  OBVIOUS
<1>4. ASSUME NEW op \in RoleOps, NEW us \in SUBSET Users
      PROVE  LET t == [NoTask EXCEPT !.stage = "role", !.op = op, !.saw = us]
             IN  t \in Task /\ t.stage = "role" /\ t.op = op /\ t.saw = us
  OBVIOUS
<1>5. ASSUME NEW n \in Nat
      PROVE  LET t == [NoTask EXCEPT !.stage = "login", !.seen = n]
             IN  t \in Task /\ t.stage = "login"
  OBVIOUS
<1>. QED
  BY <1>1, <1>2, <1>3, <1>4, <1>5

\* A change of one column keeps the account an account.
LEMMA AccountOperations ==
  ASSUME NEW a \in AccountRow
  PROVE  /\ \A h \in SUBSET Authenticators :
              LET b == [a EXCEPT !.have = h]
              IN  b \in AccountRow /\ b.have = h /\ b.pw = a.pw /\ b.sso = a.sso
         /\ \A i \in SUBSET Idents :
              LET b == [a EXCEPT !.sso = i]
              IN  b \in AccountRow /\ b.have = a.have /\ b.pw = a.pw /\ b.sso = i
         /\ \A p \in BOOLEAN :
              LET b == [a EXCEPT !.pw = p]
              IN  b \in AccountRow /\ b.have = a.have /\ b.pw = p /\ b.sso = a.sso
         /\ \A op : Without(a, op) \in AccountRow
  BY DEF AccountRow, Without

\* What usable_auth_paths counts.
LEMMA PathsCounted ==
  ASSUME NEW a
  PROVE  AuthPaths(a) # {} <=> FidoOf(a) # {} \/ a.pw \/ SsoWorks(a) \/ TotpOf(a) # {}
  BY DEF AuthPaths, LoginMethods

\* A step that leaves the account and the policy of single sign-on alone.
LEMMA PathUnchanged ==
  ASSUME UNCHANGED <<acc, ssoMfa>>
  PROVE  PathKept
<1>1. CanLogin(acc)' = CanLogin(acc)
  BY DEF CanLogin, SsoWorks, FidoOf
<1>2. AuthPaths(acc)' = AuthPaths(acc)
  BY DEF AuthPaths, LoginMethods, SsoWorks, FidoOf, TotpOf
<1>. QED
  BY <1>1, <1>2 DEF PathKept

\* A step that makes the account one with no path less.
LEMMA PathOfAccount ==
  ASSUME NEW b, acc' = b, ssoMfa' = ssoMfa,
         CanLogin(acc) => CanLogin(b), AuthPaths(acc) # {} => AuthPaths(b) # {}
  PROVE  PathKept
<1>1. CanLogin(acc)' <=> CanLogin(b)
  BY DEF CanLogin, SsoWorks, FidoOf
<1>2. AuthPaths(acc)' = AuthPaths(b)
  BY DEF AuthPaths, LoginMethods, SsoWorks, FidoOf, TotpOf
<1>. QED
  BY <1>1, <1>2 DEF PathKept

\* More factors, identities or a password never close a path.
LEMMA MoreMethods ==
  ASSUME NEW a \in AccountRow, NEW b \in AccountRow,
         a.have \subseteq b.have, a.pw => b.pw, a.sso \subseteq b.sso
  PROVE  /\ CanLogin(a) => CanLogin(b)
         /\ AuthPaths(a) # {} => AuthPaths(b) # {}
<1>1. FidoOf(a) # {} => FidoOf(b) # {}
  BY DEF FidoOf
<1>2. TotpOf(a) # {} => TotpOf(b) # {}
  BY DEF TotpOf
<1>3. SsoWorks(a) => SsoWorks(b)
  BY DEF SsoWorks
<1>4. CanLogin(a) => CanLogin(b)
  BY <1>1, <1>3 DEF CanLogin
<1>. QED
  BY <1>1, <1>2, <1>3, <1>4, PathsCounted

\* What MayRemove lets go leaves a path, and a way to log in if there was one: the
\* rules about the proof cover the single sign-on that needs a second factor as well.
LEMMA RemovalLeavesMethod ==
  ASSUME NEW a \in AccountRow, NEW f \in Authenticators, NEW by,
         f \in a.have, MayRemove(a, f, by)
  PROVE  LET b == [a EXCEPT !.have = a.have \ {f}]
         IN  (CanLogin(a) => CanLogin(b)) /\ AuthPaths(b) # {}
<1> DEFINE b == [a EXCEPT !.have = a.have \ {f}]
<1>1. b.have = a.have \ {f} /\ b.pw = a.pw /\ b.sso = a.sso
  BY AccountOperations DEF AccountRow
<1> HIDE DEF b
<1> USE DEF FidoOf, TotpOf, MayRemove
<1>2. ASSUME FidoOf(b) # {} PROVE CanLogin(b) /\ AuthPaths(b) # {}
  BY <1>2, PathsCounted DEF CanLogin
<1>3. CASE f \in WebAuthnKeys
  <2>1. \E k \in FidoOf(a) : k # f
    BY <1>3
  <2>2. FidoOf(b) # {}
    BY <1>1, <2>1
  <2>. QED
    BY <1>2, <2>2 DEF b
<1>4. CASE f \notin WebAuthnKeys /\ FidoOf(a) # {}
  <2>1. FidoOf(b) # {}
    BY <1>1, <1>4
  <2>. QED
    BY <1>2, <2>1 DEF b
<1>5. CASE f \notin WebAuthnKeys /\ FidoOf(a) = {}
  <2>1. f \in TotpOf(a)
    BY <1>5 DEF Authenticators
  <2>2. TotpOf(a) # {f}
    BY <1>5
  <2>3. TotpOf(b) # {} /\ b.have # {}
    BY <1>1, <2>1, <2>2
  <2>4. CanLogin(a) => CanLogin(b)
    BY <1>1, <1>5, <2>3 DEF CanLogin, SsoWorks
  <2>5. AuthPaths(b) # {}
    BY <2>3, PathsCounted
  <2>. QED
    BY <2>4, <2>5 DEF b
<1>. QED
  BY <1>3, <1>4, <1>5

\* The initial account, roles and counter satisfy the invariant.
LEMMA CredentialsInitInv == CredentialsInit => CredentialsInv
<1> SUFFICES ASSUME CredentialsInit PROVE CredentialsInv
  OBVIOUS
<1> USE CredentialsAssumption DEF CredentialsInit
<1>1. /\ acc \in AccountRow
      /\ lock \in Lock
      /\ lock.failed = 0
  BY DEF AccountRow, Lock
<1>2. held \in [Callers -> Task] /\ \A w \in Callers : held[w].stage = "idle"
  BY TaskOperations
<1>3. /\ uses \in [Grants -> Nat] /\ \A g \in Grants : uses[g] = 0
      /\ role \in [Users -> {"none", "admin", "viewer", "disabled"}]
      /\ grants \in [Grants -> OpenGrant \union {NoGrant, SpentGrant}]
  OBVIOUS
<1>4. CredentialTypes
  BY <1>1, <1>2, <1>3 DEF CredentialTypes
<1>5. focus = "credentials" => CanLogin(acc) /\ AuthPaths(acc) # {}
  <2> SUFFICES ASSUME CanLogin(acc) PROVE AuthPaths(acc) # {}
    OBVIOUS
  <2>. QED
    BY PathsCounted DEF CanLogin
<1>6. Admins # {}
  BY FS_EmptySet, SMTT(30)
<1>7. RemovalChecked /\ OtherAdminSeen /\ UsesOfGrants /\ CounterCounts /\ PathRemains
  BY <1>1, <1>2, <1>3, <1>5
  DEF RemovalChecked, OtherAdminSeen, UsesOfGrants, CounterCounts, PathRemains
<1>. QED
  BY <1>4, <1>6, <1>7 DEF CredentialsInv

\* What a removal has checked stays true of the rows it saw.
LEMMA RemovalCheckedStays ==
  ASSUME RemovalChecked, held' = held, ssoMfa' = ssoMfa
  PROVE  RemovalChecked'
<1> SUFFICES ASSUME NEW w \in Callers, held[w].stage = "remove", NEW a \in held[w].saw
             PROVE  AuthPaths(Without(a, held[w].op))' # {}
  BY DEF RemovalChecked
<1>1. AuthPaths(Without(a, held[w].op))' = AuthPaths(Without(a, held[w].op))
  BY DEF AuthPaths, LoginMethods, SsoWorks, Without
<1>. QED
  BY <1>1 DEF RemovalChecked

\* A step that changes only the account, and possibly a grant, keeps the rest.
LEMMA AccountStep ==
  ASSUME CredentialsInv, acc' \in AccountRow, PathKept,
         UsesOfGrants', grants' \in [Grants -> OpenGrant \union {NoGrant, SpentGrant}],
         uses' \in [Grants -> Nat],
         UNCHANGED <<focus, ssoMfa, role, lock, held, wrong, stale, counted>>
  PROVE  CredentialsInv'
<1>1. RemovalChecked'
  BY RemovalCheckedStays DEF CredentialsInv
<1>. QED
  BY <1>1
  DEF CredentialsInv, CredentialTypes, PathRemains, PathKept, OtherAdminSeen, CounterCounts, Admins

\* The step-up actions touch the grants alone.
LEMMA StepupStep ==
  ASSUME CredentialsInv,
         \/ \E op \in Ops : StepupComplete(op) \/ StepupTotpComplete(op)
         \/ StepupRevoke
         \/ \E g \in Grants : GrantExpires(g)
  PROVE  CredentialsInv'
<1> USE DEF CredentialsInv, CredentialTypes, UsesOfGrants, ghosts
<1>0. ASSUME UNCHANGED <<focus, ssoMfa, acc, role, lock, held, ghosts>>,
             grants' \in [Grants -> OpenGrant \union {NoGrant, SpentGrant}],
             \A g \in Grants : grants'[g] # SpentGrant => grants[g] # SpentGrant
      PROVE  CredentialsInv'
  <2>1. PathKept
    BY <1>0, PathUnchanged
  <2>2. UsesOfGrants'
    BY <1>0
  <2>. QED
    BY <1>0, <2>1, <2>2, AccountStep
<1>1. ASSUME NEW op \in Ops, StepupComplete(op) \/ StepupTotpComplete(op)
      PROVE  CredentialsInv'
  <2>1. PICK f \in Authenticators \union {"admin"} : IssueGrant(op, f)
    BY <1>1 DEF StepupComplete, StepupTotpComplete, Authenticators
  <2>2. PICK g \in Fresh : grants' = [grants EXCEPT ![g] = [op |-> op, by |-> f, open |-> TRUE]]
    BY <2>1 DEF IssueGrant
  <2>3. g \in Grants /\ grants[g] = NoGrant
    BY <2>2 DEF Fresh
  <2>4. [op |-> op, by |-> f, open |-> TRUE] \in OpenGrant
    BY GrantOperations
  <2>5. /\ grants' \in [Grants -> OpenGrant \union {NoGrant, SpentGrant}]
        /\ \A h \in Grants : grants'[h] # SpentGrant => grants[h] # SpentGrant
    BY <2>2, <2>3, <2>4, GrantOperations
  <2>. QED
    BY <1>0, <2>1, <2>5 DEF IssueGrant
<1>2. CASE StepupRevoke
  <2>1. \A g \in Grants : grants[g].open => grants[g] # SpentGrant
    BY GrantOperations
  <2>2. /\ grants' \in [Grants -> OpenGrant \union {NoGrant, SpentGrant}]
        /\ \A h \in Grants : grants'[h] # SpentGrant => grants[h] # SpentGrant
    BY <1>2 DEF StepupRevoke
  <2>. QED
    BY <1>0, <1>2, <2>2 DEF StepupRevoke
<1>3. ASSUME NEW g \in Grants, GrantExpires(g) PROVE CredentialsInv'
  <2>1. /\ grants' \in [Grants -> OpenGrant \union {NoGrant, SpentGrant}]
        /\ \A h \in Grants : grants'[h] # SpentGrant => grants[h] # SpentGrant
    BY <1>3 DEF GrantExpires
  <2>. QED
    BY <1>0, <1>3, <2>1 DEF GrantExpires
<1>. QED
  BY <1>1, <1>2, <1>3

\* An operation that consumes its grant uses a grant that let nothing pass before.
LEMMA ConsumedOnce ==
  ASSUME CredentialTypes, UsesOfGrants, NEW g \in Grants, NEW op, Matches(g, op),
         grants' = Consumed(g), Uses(g) \/ UNCHANGED uses
  PROVE  /\ UsesOfGrants'
         /\ grants' \in [Grants -> OpenGrant \union {NoGrant, SpentGrant}]
         /\ uses' \in [Grants -> Nat]
<1>1. grants[g] # SpentGrant /\ uses[g] = 0
  BY GrantOperations DEF Matches, UsesOfGrants
<1>2. /\ grants' = [grants EXCEPT ![g] = SpentGrant]
      /\ uses' = [uses EXCEPT ![g] = 1] \/ uses' = uses
  BY <1>1 DEF Consumed, Uses, CredentialTypes
<1>. QED
  BY <1>1, <1>2 DEF CredentialTypes, UsesOfGrants

\* The changes of credentials under the user lock keep a way to log in.
LEMMA LockedStep ==
  ASSUME CredentialsInv, KeyInv, NEW g \in Grants,
         \/ \E f \in Authenticators : TotpRemove(f, g) \/ WebauthnRemove(f, g)
         \/ \E i \in Idents : IdentityUnlink(i, g) \/ LinkConfirm(i, g)
  PROVE  CredentialsInv'
<1>t. CredentialTypes /\ UsesOfGrants /\ acc \in AccountRow
  BY DEF CredentialsInv, CredentialTypes
<1>1. ASSUME NEW f \in Authenticators, CredentialRemove(f, g) PROVE CredentialsInv'
  <2>1. /\ UsesOfGrants'
        /\ grants' \in [Grants -> OpenGrant \union {NoGrant, SpentGrant}]
        /\ uses' \in [Grants -> Nat]
    BY <1>t, <1>1, ConsumedOnce DEF CredentialRemove
  <2>2. CASE f \in acc.have /\ MayRemove(acc, f, grants[g].by)
    <3>1. acc' = [acc EXCEPT !.have = acc.have \ {f}]
      BY <1>1, <2>2 DEF CredentialRemove
    <3>2. acc' \in AccountRow
      BY <1>t, <3>1, AccountOperations DEF AccountRow
    <3>3. ssoMfa' = ssoMfa
      BY <1>1 DEF CredentialRemove
    <3>4. PathKept
      BY <1>t, <2>2, <3>1, <3>3, RemovalLeavesMethod, PathOfAccount
    <3>. QED
      BY <1>1, <2>1, <3>2, <3>4, AccountStep DEF CredentialRemove
  <2>3. CASE ~(f \in acc.have /\ MayRemove(acc, f, grants[g].by))
    <3>1. UNCHANGED <<acc, ssoMfa>>
      BY <1>1, <2>3 DEF CredentialRemove
    <3>2. PathKept
      BY <3>1, PathUnchanged
    <3>. QED
      BY <1>t, <1>1, <2>1, <3>1, <3>2, AccountStep DEF CredentialRemove
  <2>. QED
    BY <2>2, <2>3
<1>2. ASSUME NEW i \in Idents, IdentityUnlink(i, g) PROVE CredentialsInv'
  <2>1. /\ UsesOfGrants'
        /\ grants' \in [Grants -> OpenGrant \union {NoGrant, SpentGrant}]
        /\ uses' \in [Grants -> Nat]
    BY <1>t, <1>2, ConsumedOnce DEF IdentityUnlink
  <2>2. acc' = [acc EXCEPT !.sso = acc.sso \ {i}] /\ UNCHANGED <<focus, ssoMfa, role, lock, held, wrong, stale, counted>>
    BY <1>2 DEF IdentityUnlink
  <2>3. acc' \in AccountRow /\ acc'.have = acc.have
    BY <1>t, <2>2, AccountOperations DEF AccountRow
  <2>4. FidoOf(acc) # {}
    BY <1>2 DEF IdentityUnlink, Matches, KeyInv
  <2>5. FidoOf(acc') # {}
    BY <2>3, <2>4 DEF FidoOf
  <2>6. CanLogin(acc') /\ AuthPaths(acc') # {}
    BY <2>5 DEF CanLogin, AuthPaths, LoginMethods
  <2>7. PathKept
    BY <2>2, <2>6, PathOfAccount
  <2>. QED
    BY <2>1, <2>2, <2>3, <2>7, AccountStep
<1>3. ASSUME NEW i \in Idents, LinkConfirm(i, g) PROVE CredentialsInv'
  <2>1. /\ UsesOfGrants'
        /\ grants' \in [Grants -> OpenGrant \union {NoGrant, SpentGrant}]
        /\ uses' \in [Grants -> Nat]
    BY <1>t, <1>3, ConsumedOnce DEF LinkConfirm
  <2> DEFINE after == [acc EXCEPT !.sso = acc.sso \union {i}]
  <2>2. acc' = after /\ ssoMfa' = ssoMfa
    BY <1>3 DEF LinkConfirm
  <2>3. after \in AccountRow /\ acc.have = after.have /\ acc.pw = after.pw
        /\ acc.sso \subseteq after.sso
    BY <1>t, AccountOperations DEF AccountRow
  <2> HIDE DEF after
  <2>4. (CanLogin(acc) => CanLogin(after)) /\ (AuthPaths(acc) # {} => AuthPaths(after) # {})
    BY <1>t, <2>3, MoreMethods
  <2>5. PathKept
    BY <2>2, <2>4, PathOfAccount
  <2>. QED
    BY <1>3, <2>1, <2>2, <2>3, <2>5, AccountStep DEF LinkConfirm
<1>. QED
  BY <1>1, <1>2, <1>3 DEF TotpRemove, WebauthnRemove

\* A caller that takes up, or lays down, a task other than a role or a removal.
LEMMA HeldStep ==
  ASSUME CredentialTypes, RemovalChecked, NEW w \in Callers, NEW t \in Task,
         held' = [held EXCEPT ![w] = t], ssoMfa' = ssoMfa,
         t.stage = "role" => t.op \in RoleOps,
         t.stage = "remove" => \A a \in t.saw : AuthPaths(Without(a, t.op)) # {}
  PROVE  /\ held' \in [Callers -> Task]
         /\ \A v \in Callers : held'[v].stage = "role" => held'[v].op \in RoleOps
         /\ RemovalChecked'
         /\ t.stage # "role" /\ OtherAdminSeen => OtherAdminSeen'
<1>1. \A v \in Callers : held'[v] = IF v = w THEN t ELSE held[v]
  BY DEF CredentialTypes
<1>2. held' \in [Callers -> Task]
  BY DEF CredentialTypes
<1>3. \A v \in Callers : held'[v].stage = "role" => held'[v].op \in RoleOps
  BY <1>1 DEF CredentialTypes
<1>4. t.stage # "role" /\ OtherAdminSeen => OtherAdminSeen'
  BY <1>1 DEF OtherAdminSeen
<1>5. RemovalChecked'
  <2> SUFFICES ASSUME NEW v \in Callers, held'[v].stage = "remove", NEW a \in held'[v].saw
               PROVE  AuthPaths(Without(a, held[v].op))' # {}
    BY DEF RemovalChecked
  <2>1. AuthPaths(Without(a, held[v].op))' = AuthPaths(Without(a, held'[v].op))
    BY DEF AuthPaths, LoginMethods, SsoWorks, Without
  <2>2. AuthPaths(Without(a, held'[v].op)) # {}
    BY <1>1 DEF RemovalChecked
  <2>. QED
    BY <2>1, <2>2
<1>. QED
  BY <1>2, <1>3, <1>4, <1>5

\* A confirmation consumes its grant and is held until it is used.
LEMMA ConfirmStep ==
  ASSUME CredentialsInv, NEW w \in Callers, NEW g \in Grants, NEW op \in Ops, Confirm(w, g, op)
  PROVE  CredentialsInv'
<1> DEFINE t == [NoTask EXCEPT !.stage = "confirmed", !.op = op]
<1>t. CredentialTypes /\ RemovalChecked /\ UsesOfGrants
  BY DEF CredentialsInv
<1>1. t \in Task /\ t.stage = "confirmed"
  BY TaskOperations
<1>2. held' = [held EXCEPT ![w] = t]
  BY DEF Confirm
<1> HIDE DEF t
<1>3. /\ held' \in [Callers -> Task]
      /\ \A v \in Callers : held'[v].stage = "role" => held'[v].op \in RoleOps
      /\ RemovalChecked'
      /\ OtherAdminSeen => OtherAdminSeen'
  BY <1>t, <1>1, <1>2, HeldStep DEF Confirm
<1>4. /\ UsesOfGrants'
      /\ grants' \in [Grants -> OpenGrant \union {NoGrant, SpentGrant}]
      /\ uses' \in [Grants -> Nat]
  BY <1>t, ConsumedOnce DEF Confirm
<1>5. PathKept
  BY PathUnchanged DEF Confirm
<1>. QED
  BY <1>3, <1>4, <1>5
  DEF Confirm, CredentialsInv, CredentialTypes, PathRemains, PathKept, CounterCounts, Admins

\* A change of the account by a caller that then holds nothing, or a caller that
\* takes up a task which is no role.
LEMMA CallerStep ==
  ASSUME CredentialsInv, NEW w \in Callers, NEW t \in Task,
         held' = [held EXCEPT ![w] = t],
         t.stage # "role",
         t.stage = "remove" => \A a \in t.saw : AuthPaths(Without(a, t.op)) # {},
         acc' \in AccountRow, PathKept,
         UNCHANGED <<focus, ssoMfa, grants, role, lock, ghosts>>
  PROVE  CredentialsInv'
<1>t. CredentialTypes /\ RemovalChecked
  BY DEF CredentialsInv
<1>1. /\ held' \in [Callers -> Task]
      /\ \A v \in Callers : held'[v].stage = "role" => held'[v].op \in RoleOps
      /\ RemovalChecked'
      /\ OtherAdminSeen => OtherAdminSeen'
  BY <1>t, HeldStep
<1>. QED
  BY <1>1
  DEF CredentialsInv, CredentialTypes, PathRemains, PathKept, CounterCounts, Admins, UsesOfGrants, ghosts

\* Adding a factor or a password keeps what there was.
LEMMA AddStep ==
  ASSUME CredentialsInv,
         \/ \E w \in Callers : FactorAdd(w) \/ BreakglassPasswordSet(w) \/ PasswordSet(w)
         \/ \E t \in TotpDevices : MfaAdd(t)
  PROVE  CredentialsInv'
<1>t. CredentialTypes /\ acc \in AccountRow /\ UsesOfGrants
  BY DEF CredentialsInv, CredentialTypes
<1>0. ASSUME NEW b \in AccountRow, acc' = b, ssoMfa' = ssoMfa,
             acc.have \subseteq b.have, acc.pw => b.pw, acc.sso \subseteq b.sso
      PROVE  acc' \in AccountRow /\ PathKept
  <2>1. (CanLogin(acc) => CanLogin(b)) /\ (AuthPaths(acc) # {} => AuthPaths(b) # {})
    BY <1>t, <1>0, MoreMethods
  <2>. QED
    BY <1>0, <2>1, PathOfAccount
<1>1. ASSUME NEW w \in Callers, FactorAdd(w) PROVE CredentialsInv'
  <2>1. PICK new \in SUBSET (Authenticators \ acc.have) :
          acc' = [acc EXCEPT !.have = acc.have \union new]
    BY <1>1 DEF FactorAdd
  <2> DEFINE b == [acc EXCEPT !.have = acc.have \union new]
  <2>2. /\ b \in AccountRow
        /\ acc.have \subseteq b.have /\ acc.pw = b.pw /\ acc.sso = b.sso
    BY <1>t, AccountOperations DEF AccountRow
  <2>3. acc' = b
    BY <2>1
  <2> HIDE DEF b
  <2>4. acc' \in AccountRow /\ PathKept
    BY <1>0, <1>1, <2>2, <2>3 DEF FactorAdd
  <2>. QED
    BY <1>1, <2>4, TaskOperations, CallerStep DEF FactorAdd
<1>2. ASSUME NEW w \in Callers, PasswordOn(w) PROVE CredentialsInv'
  <2> DEFINE b == [acc EXCEPT !.pw = TRUE]
  <2>1. /\ b \in AccountRow
        /\ acc.have = b.have /\ b.pw /\ acc.sso = b.sso
    BY <1>t, AccountOperations
  <2>2. acc' = b
    BY <1>2 DEF PasswordOn
  <2> HIDE DEF b
  <2>3. acc' \in AccountRow /\ PathKept
    BY <1>0, <1>2, <2>1, <2>2 DEF PasswordOn
  <2>. QED
    BY <1>2, <2>3, TaskOperations, CallerStep DEF PasswordOn
<1>3. ASSUME NEW t \in TotpDevices, MfaAdd(t) PROVE CredentialsInv'
  <2> DEFINE b == [acc EXCEPT !.have = acc.have \union {t}]
  <2>1. /\ b \in AccountRow
        /\ acc.have \subseteq b.have /\ acc.pw = b.pw /\ acc.sso = b.sso
    BY <1>t, AccountOperations DEF AccountRow, Authenticators
  <2>2. acc' = b
    BY <1>3 DEF MfaAdd
  <2> HIDE DEF b
  <2>3. acc' \in AccountRow /\ PathKept
    BY <1>0, <1>3, <2>1, <2>2 DEF MfaAdd
  <2>4. UsesOfGrants'
    BY <1>t, <1>3 DEF MfaAdd, UsesOfGrants, ghosts
  <2>. QED
    BY <1>t, <1>3, <2>3, <2>4, AccountStep DEF MfaAdd, CredentialTypes, ghosts
<1>. QED
  BY <1>1, <1>2, <1>3 DEF BreakglassPasswordSet, PasswordSet

\* A removal without the user lock: the check sees the rows as they are.
LEMMA RemovalCheckStep ==
  ASSUME CredentialsInv, NEW w \in Callers, NEW op \in Ops, RemovalCheck(w, op)
  PROVE  CredentialsInv'
<1> DEFINE t == [NoTask EXCEPT !.stage = "remove", !.op = op, !.saw = {acc}]
<1>1. acc \in AccountRow /\ acc' = acc
  BY DEF CredentialsInv, CredentialTypes, RemovalCheck
<1>2. t \in Task /\ t.stage = "remove" /\ t.op = op /\ t.saw = {acc}
  BY <1>1, TaskOperations
<1>3. PathKept
  BY PathUnchanged DEF RemovalCheck
<1>4. CASE PathLeft(acc, op)
  <2>1. held' = [held EXCEPT ![w] = t]
    BY <1>4 DEF RemovalCheck
  <2> HIDE DEF t
  <2>2. \A a \in t.saw : AuthPaths(Without(a, t.op)) # {}
    BY <1>2, <1>4 DEF PathLeft
  <2>. QED
    BY <1>1, <1>2, <1>3, <2>1, <2>2, CallerStep DEF RemovalCheck
<1>5. CASE ~PathLeft(acc, op)
  <2>1. held' = [held EXCEPT ![w] = NoTask]
    BY <1>5 DEF RemovalCheck
  <2>2. NoTask \in Task /\ NoTask.stage = "idle"
    BY TaskOperations
  <2> HIDE DEF t
  <2>. QED
    BY <1>1, <1>3, <2>1, <2>2, CallerStep DEF RemovalCheck
<1>. QED
  BY <1>4, <1>5

\* Without a way to log in, all that the checks can find is no way to log in.
LEMMA PathsOfNone ==
  ASSUME NEW a, ~CanLogin(a), AuthPaths(a) # {}
  PROVE  NoLogin(AuthPaths(a))
<1>1. FidoOf(a) = {} /\ ~SsoWorks(a) /\ (a.pw => a.have = {})
  BY DEF CanLogin
<1>2. LoginMethods(a) \subseteq {"password_recovery"}
  BY <1>1 DEF LoginMethods
<1>. QED
  BY <1>2 DEF AuthPaths, NoLogin

\* The write of a removal leaves a way to log in if the rows are those of the check
\* and what it found left was one.
LEMMA RemovalWriteStep ==
  ASSUME CredentialsInv, NEW w \in Callers, RemovalWrite(w)
  PROVE  CredentialsInv'
<1> DEFINE after == Without(acc, held[w].op)
<1>t. CredentialTypes /\ RemovalChecked /\ acc \in AccountRow
  BY DEF CredentialsInv, CredentialTypes
<1>1. /\ held' \in [Callers -> Task]
      /\ \A v \in Callers : held'[v].stage = "role" => held'[v].op \in RoleOps
      /\ RemovalChecked'
      /\ OtherAdminSeen => OtherAdminSeen'
  BY <1>t, TaskOperations, HeldStep DEF RemovalWrite
<1>2. acc' = after /\ after \in AccountRow
  BY <1>t, AccountOperations DEF RemovalWrite
<1>3. PathRemains'
  <2> SUFFICES ASSUME ~stale' PROVE AuthPaths(acc)' # {} /\ (counted' \/ CanLogin(acc)')
    BY DEF PathRemains
  <2>1. acc \in held[w].saw /\ (~counted' => ~NoLogin(AuthPaths(after)))
    BY DEF RemovalWrite
  <2>2. AuthPaths(after) # {}
    BY <2>1 DEF RemovalWrite, CredentialsInv, RemovalChecked
  <2>3. ssoMfa' = ssoMfa
    BY DEF RemovalWrite
  <2> HIDE DEF after
  <2>4. counted' \/ CanLogin(after)
    BY <2>1, <2>2, PathsOfNone
  <2>5. CanLogin(acc)' <=> CanLogin(after)
    BY <1>2, <2>3 DEF CanLogin, SsoWorks, FidoOf
  <2>6. AuthPaths(acc)' = AuthPaths(after)
    BY <1>2, <2>3 DEF AuthPaths, LoginMethods, SsoWorks, FidoOf, TotpOf
  <2>. QED
    BY <2>2, <2>4, <2>5, <2>6
<1>. QED
  BY <1>1, <1>2, <1>3
  DEF RemovalWrite, CredentialsInv, CredentialTypes, CounterCounts, Admins, UsesOfGrants

\* An account is added: nobody loses a role.
LEMMA UserAddStep ==
  ASSUME CredentialsInv, NEW u \in Users, UserAdd(u)
  PROVE  CredentialsInv'
<1>1. PathKept
  BY PathUnchanged DEF UserAdd
<1>2. RemovalChecked'
  BY RemovalCheckedStays DEF UserAdd, CredentialsInv
<1>3. /\ role' \in [Users -> {"none", "admin", "viewer", "disabled"}]
      /\ Admins # {} => Admins' # {}
  BY DEF UserAdd, CredentialsInv, CredentialTypes, Admins
<1>. QED
  BY <1>1, <1>2, <1>3
  DEF UserAdd, CredentialsInv, CredentialTypes, PathRemains, PathKept, OtherAdminSeen, CounterCounts,
      UsesOfGrants, ghosts

\* The check of a role change sees the other administrators.
LEMMA RoleCheckStep ==
  ASSUME CredentialsInv, NEW w \in Callers, NEW u \in Users,
         NEW to \in {"admin", "viewer", "disabled"}, RoleCheck(w, u, to)
  PROVE  CredentialsInv'
<1> DEFINE p == <<to, u>>
           others == Admins \ {u}
           t == [NoTask EXCEPT !.stage = "role", !.op = p, !.saw = others]
<1>t. CredentialTypes /\ RemovalChecked /\ (stale \/ (Admins # {} /\ OtherAdminSeen))
  BY DEF CredentialsInv, RoleCheck
<1>1. p \in RoleOps /\ others \in SUBSET Users /\ p[1] = to /\ p[2] = u
  BY DEF RoleOps, Admins
<1>2. held' = [held EXCEPT ![w] = t]
  BY DEF RoleCheck
<1>a. to # "admin" /\ ~stale => others # {} /\ u \notin others
  BY <1>t DEF RoleCheck, MayDemote, LastAdmin
<1> HIDE DEF p, others
<1>3. t \in Task /\ t.stage = "role" /\ t.op = p /\ t.saw = others
  BY <1>1 DEF Task, NoTask
<1> HIDE DEF t
<1>4. /\ held' \in [Callers -> Task]
      /\ \A v \in Callers : held'[v].stage = "role" => held'[v].op \in RoleOps
      /\ RemovalChecked'
  BY <1>t, <1>1, <1>2, <1>3, HeldStep DEF RoleCheck
<1>5. stale \/ OtherAdminSeen'
  <2>1. \A v \in Callers : held'[v] = IF v = w THEN t ELSE held[v]
    BY <1>2, <1>t DEF CredentialTypes
  <2>. QED
    BY <1>t, <1>a, <1>1, <1>3, <2>1 DEF OtherAdminSeen
<1>6. PathKept
  BY PathUnchanged DEF RoleCheck
<1>. QED
  BY <1>4, <1>5, <1>6
  DEF RoleCheck, CredentialsInv, CredentialTypes, PathRemains, PathKept, CounterCounts, Admins,
      UsesOfGrants, ghosts

\* The write of a role leaves an administrator if those the check saw still are.
LEMMA RoleWriteStep ==
  ASSUME CredentialsInv, NEW w \in Callers, RoleWrite(w)
  PROVE  CredentialsInv'
<1> DEFINE u == held[w].op[2]
           to == held[w].op[1]
<1>t. CredentialTypes /\ RemovalChecked
  BY DEF CredentialsInv
<1>1. u \in Users /\ to \in {"admin", "viewer", "disabled"}
  BY <1>t DEF RoleWrite, CredentialTypes, RoleOps
<1>2. /\ held' \in [Callers -> Task]
      /\ \A v \in Callers : held'[v].stage = "role" => held'[v].op \in RoleOps
      /\ RemovalChecked'
      /\ OtherAdminSeen => OtherAdminSeen'
  BY <1>t, TaskOperations, HeldStep DEF RoleWrite
<1>3. role' = [role EXCEPT ![u] = IF role[u] = "disabled" THEN "disabled" ELSE to]
  BY DEF RoleWrite
<1>4. role' \in [Users -> {"none", "admin", "viewer", "disabled"}]
  BY <1>t, <1>1, <1>3 DEF CredentialTypes
<1>5. ASSUME focus = "roles", ~stale' PROVE Admins' # {}
  <2>1. ~stale /\ held[w].saw \subseteq Admins /\ Admins # {} /\ OtherAdminSeen
    BY <1>5 DEF RoleWrite, CredentialsInv
  <2>2. CASE to = "admin"
    <3>1. PICK a \in Admins : TRUE
      BY <2>1
    <3>2. role'[a] = "admin"
      BY <1>t, <1>1, <1>3, <2>2, <3>1 DEF Admins, CredentialTypes
    <3>. QED
      BY <3>1, <3>2 DEF Admins
  <2>3. CASE to # "admin"
    <3>1. PICK a \in held[w].saw : a # u
      BY <2>1, <2>3 DEF OtherAdminSeen, RoleWrite
    <3>2. a \in Users /\ role[a] = "admin"
      BY <2>1, <3>1 DEF Admins
    <3>3. role'[a] = "admin"
      BY <1>t, <1>1, <1>3, <3>1, <3>2 DEF CredentialTypes
    <3>. QED
      BY <3>2, <3>3 DEF Admins
  <2>. QED
    BY <2>2, <2>3
<1>6. PathKept
  BY PathUnchanged DEF RoleWrite
<1>. QED
  BY <1>2, <1>4, <1>5, <1>6
  DEF RoleWrite, CredentialsInv, CredentialTypes, PathRemains, PathKept, CounterCounts, UsesOfGrants

\* What a failed login makes of the counter.
LEMMA FailedCounts ==
  ASSUME NEW l \in Lock, NEW n \in Nat
  PROVE  /\ Failed(l, n) \in Lock
         /\ n < Threshold => Failed(l, n).failed = n
         /\ n >= Threshold => Failed(l, n).failed = Threshold /\ Failed(l, n).locked
<1> DEFINE f == IF n < Threshold THEN n ELSE Threshold
           k == l.locked \/ n >= Threshold
<1>1. f \in 0..Threshold /\ (n < Threshold => f = n) /\ (n >= Threshold => f = Threshold)
  BY CredentialsAssumption
<1>2. k \in BOOLEAN /\ (n >= Threshold => k = TRUE)
  OBVIOUS
<1>3. Failed(l, n) = [failed |-> f, locked |-> k]
  BY DEF Failed
<1> HIDE DEF f, k
<1>. QED
  BY <1>1, <1>2, <1>3 DEF Lock

\* What a right login, and the passing of time, make of it.
LEMMA LockReleased ==
  /\ [failed |-> 0, locked |-> FALSE] \in Lock
  /\ \A l \in Lock : [l EXCEPT !.locked = FALSE] \in Lock
<1>1. 0 \in 0..Threshold
  BY CredentialsAssumption
<1>. QED
  BY <1>1 DEF Lock

\* The counter counts: a login that fails on a count that is still the last raises
\* it, and at the threshold locks the account.
LEMMA LockoutStep ==
  ASSUME CredentialsInv,
         \/ \E w \in Callers : LoginRead(w) \/ LoginFail(w) \/ LoginOk(w)
         \/ BreakglassFail \/ BreakglassOk \/ UserUnlock \/ LockLapses
  PROVE  CredentialsInv'
<1>t. CredentialTypes /\ RemovalChecked /\ lock \in Lock /\ wrong \in Nat /\ lock.failed \in Nat
  BY CredentialsAssumption DEF CredentialsInv, CredentialTypes, Lock
<1>0. ASSUME UNCHANGED <<focus, ssoMfa, acc, grants, role, uses, counted>>,
             held' \in [Callers -> Task],
             \A v \in Callers : held'[v].stage = "role" => held'[v].op \in RoleOps,
             RemovalChecked', OtherAdminSeen => OtherAdminSeen',
             lock' \in Lock, wrong' \in Nat, stale' \in BOOLEAN, stale => stale',
             stale' \/ CounterCounts'
      PROVE  CredentialsInv'
  <2>1. PathKept
    BY <1>0, PathUnchanged
  <2>. QED
    BY <1>0, <2>1 DEF CredentialsInv, CredentialTypes, PathRemains, PathKept, Admins, UsesOfGrants
<1>h. ASSUME NEW w \in Callers, held' = [held EXCEPT ![w] = NoTask], ssoMfa' = ssoMfa
      PROVE  /\ held' \in [Callers -> Task]
             /\ \A v \in Callers : held'[v].stage = "role" => held'[v].op \in RoleOps
             /\ RemovalChecked'
             /\ OtherAdminSeen => OtherAdminSeen'
  BY <1>t, <1>h, TaskOperations, HeldStep
<1>u. ASSUME held' = held, ssoMfa' = ssoMfa
      PROVE  /\ held' \in [Callers -> Task]
             /\ \A v \in Callers : held'[v].stage = "role" => held'[v].op \in RoleOps
             /\ RemovalChecked'
             /\ OtherAdminSeen => OtherAdminSeen'
  <2>1. RemovalChecked'
    BY <1>t, <1>u, RemovalCheckedStays
  <2>. QED
    BY <1>t, <1>u, <2>1 DEF CredentialTypes, OtherAdminSeen
<1>l. ASSUME NEW n \in Nat
      PROVE  /\ Failed(lock, n + 1) \in Lock
             /\ n + 1 < Threshold => Failed(lock, n + 1).failed = n + 1
             /\ n + 1 >= Threshold => /\ Failed(lock, n + 1).failed = Threshold
                                     /\ Failed(lock, n + 1).locked
  <2> DEFINE m == n + 1
  <2>1. m \in Nat
    OBVIOUS
  <2> HIDE DEF m
  <2>2. /\ Failed(lock, m) \in Lock
        /\ m < Threshold => Failed(lock, m).failed = m
        /\ m >= Threshold => Failed(lock, m).failed = Threshold /\ Failed(lock, m).locked
    BY <1>t, <2>1, FailedCounts
  <2>. QED
    BY <2>2 DEF m
<1>f. ASSUME lock' = Failed(lock, lock.failed + 1), wrong' = wrong + 1, ~lock.locked,
             CounterCounts
      PROVE  CounterCounts'
  <2>1. lock.failed \in 0..Threshold
    BY <1>t DEF Lock
  <2>2. CASE lock.failed + 1 < Threshold
    <3>1. lock'.failed = lock.failed + 1
      BY <1>t, <1>f, <1>l, <2>2
    <3>. QED
      BY <1>t, <1>f, <2>1, <2>2, <3>1, CredentialsAssumption DEF CounterCounts
  <2>3. CASE lock.failed + 1 >= Threshold
    <3>1. lock'.failed = Threshold /\ lock'.locked
      BY <1>t, <1>f, <1>l, <2>3
    <3>2. wrong + 1 <= Threshold
      BY <1>t, <1>f, <2>1, CredentialsAssumption DEF CounterCounts
    <3>. QED
      BY <1>f, <3>1, <3>2 DEF CounterCounts
  <2>. QED
    BY <1>t, <2>2, <2>3, CredentialsAssumption
<1>z. ASSUME wrong' = 0, lock' \in Lock PROVE CounterCounts'
  BY <1>z DEF CounterCounts, Lock
<1>1. ASSUME NEW w \in Callers, LoginRead(w) PROVE CredentialsInv'
  <2> DEFINE t == [NoTask EXCEPT !.stage = "login", !.seen = lock.failed]
  <2>1. t \in Task /\ t.stage = "login"
    BY <1>t, TaskOperations
  <2>2. held' = [held EXCEPT ![w] = t]
    BY <1>1 DEF LoginRead
  <2> HIDE DEF t
  <2>3. /\ held' \in [Callers -> Task]
        /\ \A v \in Callers : held'[v].stage = "role" => held'[v].op \in RoleOps
        /\ RemovalChecked'
        /\ OtherAdminSeen => OtherAdminSeen'
    BY <1>t, <1>1, <2>1, <2>2, HeldStep DEF LoginRead
  <2>4. stale' \/ CounterCounts'
    BY <1>1 DEF LoginRead, CredentialsInv, CounterCounts, ghosts
  <2>. QED
    BY <1>t, <1>0, <1>1, <2>3, <2>4 DEF LoginRead, CredentialTypes, ghosts
<1>2. ASSUME NEW w \in Callers, LoginFail(w) PROVE CredentialsInv'
  <2>1. held[w].seen \in Nat
    BY <1>t DEF CredentialTypes, Task
  <2>2. lock' \in Lock /\ wrong' \in Nat
    BY <1>t, <1>l, <1>2, <2>1 DEF LoginFail
  <2>3. stale' \/ CounterCounts'
    BY <1>2, <1>f DEF LoginFail, CredentialsInv
  <2>. QED
    BY <1>t, <1>0, <1>2, <1>h, <2>2, <2>3 DEF LoginFail, CredentialTypes
<1>3. ASSUME NEW w \in Callers, LoginOk(w) PROVE CredentialsInv'
  <2>1. lock' \in Lock /\ wrong' \in Nat
    BY <1>t, <1>3, LockReleased DEF LoginOk
  <2>2. stale' \/ CounterCounts'
    BY <1>3, <1>z, <2>1 DEF LoginOk, CredentialsInv, CounterCounts
  <2>. QED
    BY <1>t, <1>0, <1>3, <1>h, <2>1, <2>2 DEF LoginOk, CredentialTypes
<1>4. CASE BreakglassFail
  <2>1. lock' \in Lock /\ wrong' \in Nat
    BY <1>t, <1>l, <1>4 DEF BreakglassFail
  <2>2. stale' \/ CounterCounts'
    BY <1>4, <1>f DEF BreakglassFail, CredentialsInv
  <2>. QED
    BY <1>t, <1>0, <1>4, <1>u, <2>1, <2>2 DEF BreakglassFail, CredentialTypes
<1>5. CASE BreakglassOk \/ UserUnlock \/ LockLapses
  <2>1. lock' \in Lock /\ wrong' = 0
    BY <1>t, <1>5, LockReleased DEF BreakglassOk, UserUnlock, LockLapses
  <2>. QED
    BY <1>t, <1>0, <1>5, <1>u, <1>z, <2>1
    DEF BreakglassOk, UserUnlock, LockLapses, CredentialTypes
<1>. QED
  BY <1>1, <1>2, <1>3, <1>4, <1>5

\* Every step of the credentials preserves the invariant.
LEMMA CredentialsNextInv ==
  CredentialsInv /\ KeyInv /\ [CredentialsNext]_credentialVars => CredentialsInv'
<1> SUFFICES ASSUME CredentialsInv, KeyInv, [CredentialsNext]_credentialVars
             PROVE  CredentialsInv'
  OBVIOUS
<1>1. CASE \/ \E op \in Ops : StepupComplete(op) \/ StepupTotpComplete(op)
           \/ StepupRevoke \/ \E g \in Grants : GrantExpires(g)
  BY <1>1, StepupStep
<1>2. CASE \/ \E f \in Authenticators, g \in Grants : TotpRemove(f, g) \/ WebauthnRemove(f, g)
           \/ \E i \in Idents, g \in Grants : IdentityUnlink(i, g) \/ LinkConfirm(i, g)
  <2>1. PICK g \in Grants : \/ \E f \in Authenticators : TotpRemove(f, g) \/ WebauthnRemove(f, g)
                            \/ \E i \in Idents : IdentityUnlink(i, g) \/ LinkConfirm(i, g)
    BY <1>2
  <2>. QED
    BY <2>1, LockedStep
<1>3. ASSUME NEW w \in Callers, NEW g \in Grants, NEW op \in Ops, Confirm(w, g, op)
      PROVE  CredentialsInv'
  BY <1>3, ConfirmStep
<1>4. CASE \/ \E w \in Callers : FactorAdd(w) \/ BreakglassPasswordSet(w) \/ PasswordSet(w)
           \/ \E t \in TotpDevices : MfaAdd(t)
  BY <1>4, AddStep
<1>5. ASSUME NEW w \in Callers, BreakglassPasswordDisable(w) \/ PasswordDisable(w)
      PROVE  CredentialsInv'
  <2>1. <<"disable_password", 0>> \in Ops /\ RemovalCheck(w, <<"disable_password", 0>>)
    BY <1>5 DEF BreakglassPasswordDisable, PasswordDisable, Ops
  <2>. QED
    BY <2>1, RemovalCheckStep
<1>6. ASSUME NEW w \in Callers, NEW t \in TotpDevices, MfaRemove(w, t)
      PROVE  CredentialsInv'
  <2>1. <<"remove_credential", t>> \in Ops /\ RemovalCheck(w, <<"remove_credential", t>>)
    BY <1>6 DEF MfaRemove, Ops, Authenticators
  <2>. QED
    BY <2>1, RemovalCheckStep
<1>7. ASSUME NEW w \in Callers, RemovalWrite(w) PROVE CredentialsInv'
  BY <1>7, RemovalWriteStep
<1>8. ASSUME NEW u \in Users, UserAdd(u) PROVE CredentialsInv'
  BY <1>8, UserAddStep
<1>9. ASSUME NEW w \in Callers, NEW u \in Users,
             DisableUser(w, u) \/ UserRoles(w, u) \/ AdminApiUserSetRole(w, u)
      PROVE  CredentialsInv'
  <2>1. PICK to \in {"admin", "viewer", "disabled"} : RoleCheck(w, u, to)
    BY <1>9 DEF DisableUser, UserRoles, AdminApiUserSetRole
  <2>. QED
    BY <2>1, RoleCheckStep
<1>10. ASSUME NEW w \in Callers, RoleWrite(w) PROVE CredentialsInv'
  BY <1>10, RoleWriteStep
<1>11. CASE \/ \E w \in Callers : LoginRead(w) \/ LoginFail(w) \/ LoginOk(w)
            \/ BreakglassFail \/ BreakglassOk \/ UserUnlock \/ LockLapses
  BY <1>11, LockoutStep
<1>12. CASE UNCHANGED credentialVars
  <2>1. PathKept
    BY <1>12, PathUnchanged DEF credentialVars
  <2>2. UsesOfGrants'
    BY <1>12 DEF credentialVars, UsesOfGrants, CredentialsInv
  <2>. QED
    BY <1>12, <2>1, <2>2, AccountStep DEF credentialVars, CredentialsInv, CredentialTypes
<1>. QED
  BY <1>1, <1>2, <1>3, <1>4, <1>5, <1>6, <1>7, <1>8, <1>9, <1>10, <1>11, <1>12
  DEF CredentialsNext

\* A step that changes the account keeps a passkey.
LEMMA KeyStays ==
  ASSUME CredentialTypes, KeyInv, CredentialsNext, FidoOf(acc) # {}
  PROVE  FidoOf(acc)' # {}
<1>t. acc \in AccountRow
  BY DEF CredentialTypes
<1>1. ASSUME NEW f \in Authenticators, NEW g \in Grants, CredentialRemove(f, g)
      PROVE  FidoOf(acc)' # {}
  <2>1. CASE f \in acc.have /\ MayRemove(acc, f, grants[g].by)
    <3>1. acc'.have = acc.have \ {f}
      BY <1>t, <1>1, <2>1 DEF CredentialRemove, AccountRow
    <3>2. \E k \in FidoOf(acc) : k # f
      BY <2>1 DEF MayRemove, FidoOf
    <3>. QED
      BY <3>1, <3>2 DEF FidoOf
  <2>2. CASE ~(f \in acc.have /\ MayRemove(acc, f, grants[g].by))
    BY <1>1, <2>2 DEF CredentialRemove
  <2>. QED
    BY <2>1, <2>2
<1>2. ASSUME NEW w \in Callers, RemovalWrite(w) PROVE FidoOf(acc)' # {}
  <2>1. acc' = Without(acc, held[w].op)
    BY <1>2 DEF RemovalWrite
  <2>2. CASE held[w].op[1] = "disable_password"
    BY <1>t, <2>1, <2>2 DEF Without, AccountRow, FidoOf
  <2>3. CASE held[w].op[1] # "disable_password"
    <3>1. acc'.have = acc.have \ {held[w].op[2]}
      BY <1>t, <2>1, <2>3 DEF Without, AccountRow
    <3>2. held[w].op[2] \notin WebAuthnKeys
      BY <1>2, <2>3, CredentialsAssumption DEF RemovalWrite, KeyInv
    <3>. QED
      BY <3>1, <3>2 DEF FidoOf
  <2>. QED
    BY <2>2, <2>3
<1>3. ASSUME acc.have \subseteq acc'.have PROVE FidoOf(acc)' # {}
  BY <1>3 DEF FidoOf
<1>4. \A i : [acc EXCEPT !.sso = i].have = acc.have /\ [acc EXCEPT !.pw = i].have = acc.have
            /\ [acc EXCEPT !.have = i].have = i
  BY <1>t DEF AccountRow
<1>5. ASSUME NEW w \in Callers, FactorAdd(w) PROVE acc.have \subseteq acc'.have
  BY <1>4, <1>5 DEF FactorAdd
<1>6. ASSUME NEW t \in TotpDevices, MfaAdd(t) PROVE acc.have \subseteq acc'.have
  BY <1>4, <1>6 DEF MfaAdd
<1>7. ASSUME NEW w \in Callers, BreakglassPasswordSet(w) \/ PasswordSet(w)
      PROVE  acc.have \subseteq acc'.have
  BY <1>4, <1>7 DEF BreakglassPasswordSet, PasswordSet, PasswordOn
<1>8. ASSUME NEW i \in Idents, NEW g \in Grants, IdentityUnlink(i, g) \/ LinkConfirm(i, g)
      PROVE  acc.have \subseteq acc'.have
  BY <1>4, <1>8 DEF IdentityUnlink, LinkConfirm
<1>9. ASSUME UNCHANGED acc PROVE FidoOf(acc)' # {}
  BY <1>9 DEF FidoOf
<1>. QED
  BY <1>1, <1>2, <1>3, <1>5, <1>6, <1>7, <1>8, <1>9
  DEF CredentialsNext, TotpRemove, WebauthnRemove, StepupComplete, StepupTotpComplete, IssueGrant,
      StepupRevoke, GrantExpires, Confirm, BreakglassPasswordDisable, PasswordDisable, MfaRemove,
      RemovalCheck, UserAdd, DisableUser, UserRoles, AdminApiUserSetRole, RoleCheck, RoleWrite,
      LoginRead, LoginFail, LoginOk, BreakglassFail, BreakglassOk, UserUnlock, LockLapses

\* A grant that is open was open before, or is confirmed now.
LEMMA OpenBefore ==
  ASSUME CredentialTypes, CredentialsNext, NEW g \in Grants, grants'[g].open
  PROVE  \/ grants[g].open /\ grants'[g].op = grants[g].op
         \/ grants'[g].op[1] = "unlink" => FidoOf(acc)' # {}
<1>1. ASSUME NEW op \in Ops, NEW f, IssueGrant(op, f)
      PROVE  \/ grants[g].open /\ grants'[g].op = grants[g].op
             \/ grants'[g].op[1] = "unlink" => FidoOf(acc)' # {}
  <2>1. PICK h \in Grants : grants' = [grants EXCEPT ![h] = [op |-> op, by |-> f, open |-> TRUE]]
    BY <1>1 DEF IssueGrant, Fresh
  <2>2. CASE g # h
    BY <2>1, <2>2 DEF CredentialTypes
  <2>3. CASE g = h
    <3>1. grants'[g].op = op
      BY <2>1, <2>3 DEF CredentialTypes
    <3>2. ASSUME op[1] = "unlink" PROVE f \in WebAuthnKeys /\ f \in acc.have
      <4>1. f \in WebAuthnKeys
        BY <1>1, <3>2 DEF IssueGrant, MayConfirm, PasswordOps
      <4>. QED
        BY <1>1, <4>1, CredentialsAssumption DEF IssueGrant, Confirming
    <3>. QED
      BY <1>1, <3>1, <3>2 DEF IssueGrant, FidoOf
  <2>. QED
    BY <2>2, <2>3
<1>2. ASSUME NEW h \in Grants, grants' = Consumed(h)
      PROVE  grants[g].open /\ grants'[g].op = grants[g].op
  BY <1>2, GrantOperations DEF Consumed, CredentialTypes
<1>3. ASSUME StepupRevoke PROVE grants[g].open /\ grants'[g].op = grants[g].op
  BY <1>3, GrantOperations DEF StepupRevoke, CredentialTypes
<1>4. ASSUME NEW h \in Grants, GrantExpires(h)
      PROVE  grants[g].open /\ grants'[g].op = grants[g].op
  BY <1>4, GrantOperations DEF GrantExpires, CredentialTypes
<1>5. ASSUME UNCHANGED grants PROVE grants[g].open /\ grants'[g].op = grants[g].op
  BY <1>5
<1>. QED
  BY <1>1, <1>2, <1>3, <1>4, <1>5
  DEF CredentialsNext, StepupComplete, StepupTotpComplete, TotpRemove, WebauthnRemove,
      CredentialRemove, Confirm, IdentityUnlink, LinkConfirm, FactorAdd, BreakglassPasswordSet,
      PasswordSet, PasswordOn, BreakglassPasswordDisable, PasswordDisable, MfaRemove, RemovalCheck,
      RemovalWrite, MfaAdd, UserAdd, DisableUser, UserRoles, AdminApiUserSetRole, RoleCheck,
      RoleWrite, LoginRead, LoginFail, LoginOk, BreakglassFail, BreakglassOk, UserUnlock, LockLapses

\* A removal that is taken up is one of those that read before they write.
LEMMA RemovalTaken ==
  ASSUME CredentialTypes, CredentialsNext, NEW w \in Callers, held'[w].stage = "remove"
  PROVE  \/ held'[w] = held[w]
         \/ held'[w].op[1] = "disable_password" \/ held'[w].op[2] \in TotpDevices
<1>1. ASSUME NEW v \in Callers, NEW t, held' = [held EXCEPT ![v] = t], t.stage # "remove"
      PROVE  held'[w] = held[w]
  BY <1>1 DEF CredentialTypes
<1>6. \A op, us, n :
        /\ [NoTask EXCEPT !.stage = "confirmed", !.op = op].stage # "remove"
        /\ [NoTask EXCEPT !.stage = "role", !.op = op, !.saw = us].stage # "remove"
        /\ [NoTask EXCEPT !.stage = "login", !.seen = n].stage # "remove"
        /\ NoTask.stage # "remove"
  BY DEF NoTask
<1>n. ASSUME NEW v \in Callers, held' = [held EXCEPT ![v] = NoTask] PROVE held'[w] = held[w]
  BY <1>1, <1>6, <1>n
<1>2. ASSUME NEW v \in Callers, NEW op, RemovalCheck(v, op),
             op[1] = "disable_password" \/ op[2] \in TotpDevices
      PROVE  \/ held'[w] = held[w]
             \/ held'[w].op[1] = "disable_password" \/ held'[w].op[2] \in TotpDevices
  <2>1. CASE PathLeft(acc, op)
    BY <1>2, <2>1 DEF RemovalCheck, CredentialTypes, NoTask
  <2>2. CASE ~PathLeft(acc, op)
    BY <1>n, <1>2, <2>2 DEF RemovalCheck
  <2>. QED
    BY <2>1, <2>2
<1>3. ASSUME UNCHANGED held PROVE held'[w] = held[w]
  BY <1>3
<1>4. ASSUME NEW v \in Callers, BreakglassPasswordDisable(v) \/ PasswordDisable(v)
      PROVE  \/ held'[w] = held[w]
             \/ held'[w].op[1] = "disable_password" \/ held'[w].op[2] \in TotpDevices
  BY <1>2, <1>4 DEF BreakglassPasswordDisable, PasswordDisable
<1>5. ASSUME NEW v \in Callers, NEW t \in TotpDevices, MfaRemove(v, t)
      PROVE  \/ held'[w] = held[w]
             \/ held'[w].op[1] = "disable_password" \/ held'[w].op[2] \in TotpDevices
  BY <1>2, <1>5 DEF MfaRemove
<1>7. ASSUME NEW v \in Callers, NEW g \in Grants, NEW op, Confirm(v, g, op) PROVE held'[w] = held[w]
  BY <1>1, <1>6, <1>7 DEF Confirm
<1>8. ASSUME NEW v \in Callers, NEW u, NEW to, RoleCheck(v, u, to) PROVE held'[w] = held[w]
  BY <1>1, <1>6, <1>8 DEF RoleCheck
<1>9. ASSUME NEW v \in Callers,
             \/ FactorAdd(v) \/ BreakglassPasswordSet(v) \/ PasswordSet(v) \/ RemovalWrite(v)
             \/ RoleWrite(v) \/ LoginRead(v) \/ LoginFail(v) \/ LoginOk(v)
      PROVE  held'[w] = held[w]
  <2>1. CASE FactorAdd(v) \/ BreakglassPasswordSet(v) \/ PasswordSet(v)
    BY <1>n, <2>1 DEF FactorAdd, BreakglassPasswordSet, PasswordSet, PasswordOn
  <2>2. CASE RemovalWrite(v)
    BY <1>n, <2>2 DEF RemovalWrite
  <2>3. CASE RoleWrite(v)
    BY <1>n, <2>3 DEF RoleWrite
  <2>4. CASE LoginRead(v)
    BY <1>1, <1>6, <2>4 DEF LoginRead
  <2>5. CASE LoginFail(v) \/ LoginOk(v)
    BY <1>n, <2>5 DEF LoginFail, LoginOk
  <2>. QED
    BY <1>9, <2>1, <2>2, <2>3, <2>4, <2>5
<1>. QED
  BY <1>3, <1>4, <1>5, <1>7, <1>8, <1>9
  DEF CredentialsNext, StepupComplete, StepupTotpComplete, IssueGrant, StepupRevoke, GrantExpires,
      TotpRemove, WebauthnRemove, CredentialRemove, IdentityUnlink, LinkConfirm, MfaAdd, UserAdd,
      DisableUser, UserRoles, AdminApiUserSetRole, BreakglassFail, BreakglassOk, UserUnlock,
      LockLapses

LEMMA KeyInitInv == CredentialsInit => KeyInv
  BY DEF CredentialsInit, KeyInv, NoGrant, NoTask

LEMMA KeyNextInv ==
  CredentialTypes /\ KeyInv /\ [CredentialsNext]_credentialVars => KeyInv'
<1>1. ASSUME CredentialTypes, KeyInv, CredentialsNext PROVE KeyInv'
  <2>1. ASSUME NEW g \in Grants, grants'[g].open, grants'[g].op[1] = "unlink"
        PROVE  FidoOf(acc)' # {}
    BY <1>1, <2>1, OpenBefore, KeyStays DEF KeyInv
  <2>2. ASSUME NEW w \in Callers, held'[w].stage = "remove"
        PROVE  held'[w].op[1] = "disable_password" \/ held'[w].op[2] \in TotpDevices
    BY <1>1, <2>2, RemovalTaken DEF KeyInv
  <2>. QED
    BY <2>1, <2>2 DEF KeyInv
<1>2. ASSUME KeyInv, UNCHANGED credentialVars PROVE KeyInv'
  BY <1>2 DEF KeyInv, credentialVars, FidoOf
<1>. QED
  BY <1>1, <1>2

\* The invariant of the credentials, the roles and the lockout counter.
THEOREM CredentialsInvariance == CredentialsSpec => []CredentialsInv
<1>1. CredentialsInv => CredentialTypes
  BY DEF CredentialsInv
<1>. QED
  BY <1>1, CredentialsInitInv, KeyInitInv, CredentialsNextInv, KeyNextInv, PTL
  DEF CredentialsSpec

\* Accounts, grants and roles are of the shape the handlers expect.
THEOREM CredentialsTypeCorrect == CredentialsSpec => []CredentialsTypeOK
<1>1. CredentialsInv => CredentialsTypeOK
  BY DEF CredentialsInv, CredentialTypes, CredentialsTypeOK, AccountRow, OpenGrant
<1>. QED
  BY <1>1, CredentialsInvariance, PTL

\* No removal takes the last path that the policy counts, except where its check, made
\* without the user lock, was overtaken; and none takes the last way through the login
\* handlers, except where such a check was overtaken or accepted a TOTP device or a
\* password alone as what is left (usable_auth_paths counts them, breakglass_login does
\* not let them in).
THEOREM LoginMethodRemains == CredentialsSpec => []PathRemains
<1>1. CredentialsInv => PathRemains
  BY DEF CredentialsInv
<1>. QED
  BY <1>1, CredentialsInvariance, PTL

\* assert_stepup: a confirmation lets at most one change pass.
THEOREM GrantUsedOnce == CredentialsSpec => []GrantOneShot
<1>1. CredentialsInv => GrantOneShot
  BY DEF CredentialsInv, CredentialTypes, UsesOfGrants, GrantOneShot
<1>. QED
  BY <1>1, CredentialsInvariance, PTL

\* is_last_active_admin: an administrator remains unless two commands overlapped.
THEOREM AdministratorRemains == CredentialsSpec => []AdminRemains
<1>1. CredentialsInv => AdminRemains
  BY DEF CredentialsInv, AdminRemains
<1>. QED
  BY <1>1, CredentialsInvariance, PTL

\* lockout_threshold: no more wrong logins than that pass before the account
\* locks, unless requests overlapped.
THEOREM LockoutHolds == CredentialsSpec => []LockoutBound
<1>1. CredentialsInv => LockoutBound
  BY CredentialsAssumption
  DEF CredentialsInv, CredentialTypes, CounterCounts, LockoutBound, Lock
<1>. QED
  BY <1>1, CredentialsInvariance, PTL

(***************************************************************************)
(* Login sessions and the recovery of an account: the inductive invariant. *)
(***************************************************************************)
SessionRow == [kind: {"none", "normal", "recovery"}, live: BOOLEAN, rid: 0..MaxPending]
Database ==
  [active: BOOLEAN, factor: [Factors -> FactorStates], sess: [Sids -> SessionRow],
   pend: [Pids -> Row]]
HeldRequest ==
  [stage: Stages, sid: 0..MaxSession, pid: 0..MaxPending, kind: {"none", "fido", "totp"},
   row: Row, over: BOOLEAN]

\* A session of a recovery has its row or outlived it, a recovery has its session.
RowsFit(d) ==
  /\ \A s \in Sids : d.sess[s].live => d.sess[s].kind # "none"
  /\ \A s \in Sids : d.sess[s].kind = "recovery" => d.sess[s].rid \in Pids
  /\ \A p \in Pids : d.pend[p].purpose = "recovery_session" => d.pend[p].sid \in Sids

\* The row of a recovery that was not used up and did not expire.
Stands(d, p) == d.pend[p].purpose \in RecoveryPurposes /\ ~d.pend[p].expired

\* A recovery session lives no longer than its recovery.
LiveHangs(d) ==
  \A s \in Sids : d.sess[s].live /\ d.sess[s].kind = "recovery" => ActiveRecovery(d, s)
Sound(d) == d \in Database /\ RowsFit(d) /\ LiveHangs(d)

OneRecovery(d) == \A p, q \in Pids : Stands(d, p) /\ Stands(d, q) => p = q
NoNormal(d) == \A s \in Sids : ~(d.sess[s].kind = "normal" /\ d.sess[s].live)

EnrollPurposes == {"webauthn_enrollment", "totp_enrollment"}

\* What a request in flight may rely on.  While a recovery is under way nobody
\* goes on with an enrolment but in the session of the recovery, an enrolment that
\* was already past its ceremony knows that it is late, and who completes a
\* recovery holds the baseline of that recovery.
Fits(d, r) ==
  /\ r.stage \in {"guarded", "enroll", "complete"} => r.sid \in Sids
  /\ HasActiveRecovery(d) /\ r.stage = "guarded" /\ r.pid # 0
       /\ d.pend[r.pid].purpose \in EnrollPurposes => d.sess[r.sid].live
  /\ HasActiveRecovery(d) /\ r.stage = "enroll" /\ r.row = NoRow => r.over
  /\ r.stage = "complete" /\ ActiveRecovery(d, r.sid) => r.row.base = d.pend[d.sess[r.sid].rid].base

\* Every usable factor is one the recovery replaces, but for the late ones.
BaseCovers(d, l) ==
  HasActiveRecovery(d) =>
    \A p \in Pids : Stands(d, p) =>
      {f \in Factors : d.factor[f] = "usable"} \subseteq d.pend[p].base \union l

RecoveryInv ==
  /\ Sound(db) /\ OneRecovery(db)
  /\ HasActiveRecovery(db) => NoNormal(db)
  /\ req \in [Workers -> HeldRequest] /\ late \subseteq Factors
  /\ \A w \in Workers : Fits(db, req[w])
  /\ BaseCovers(db, late)

\* A request in flight holds the id of ceremony p.
Awaited(p) == \E w \in Workers : req[w].pid = p

\* What the steps that create no session and no recovery do to the rows.
Ends(d, e) ==
  /\ Sound(e)
  /\ \A s \in Sids : e.sess[s].live => e.sess[s] = d.sess[s]
  /\ \A p \in Pids : Stands(e, p) =>
       /\ Stands(d, p)
       /\ e.pend[p].purpose = d.pend[p].purpose
       /\ e.pend[p].sid = d.pend[p].sid /\ e.pend[p].base = d.pend[p].base
  /\ \A p \in Pids : Awaited(p) /\ e.pend[p].purpose \in EnrollPurposes
                         => d.pend[p].purpose \in EnrollPurposes
FactorsEnd(d, e) == \A f \in Factors : e.factor[f] = "usable" => d.factor[f] = "usable"

-----------------------------------------------------------------------------
LEMMA RecoveryIds ==
  /\ \A p \in Pids : p \in 0..MaxPending /\ p \in Nat /\ p # 0
  /\ \A p \in 0..MaxPending : p # 0 => p \in Pids
  /\ \A s \in Sids : s \in 0..MaxSession /\ s \in Nat /\ s # 0
  /\ 0 \in 0..MaxPending /\ 0 \in 0..MaxSession
BY RecoveryAssumption DEF Pids, Sids

LEMMA RecoveryRows ==
  /\ NoRow \in Row /\ NoRow.purpose = "none" /\ ~NoRow.expired
  /\ NoSession \in SessionRow /\ ~NoSession.live /\ NoSession.kind = "none"
BY RecoveryIds DEF NoRow, Row, Purposes, NoSession, SessionRow

\* A set of ids has a lowest one.
LEMMA LowestId ==
  ASSUME NEW S, S \subseteq Nat, S # {}
  PROVE  Min(S) \in S
<1>1. PICK m \in S : \A k \in S : <<k, m>> \notin OpToRel(<, Nat)
  BY NatLessThanWellFounded, WFMin, Zenon
<1>2. \A k \in S : ~(k < m)
  BY <1>1, Zenon DEF OpToRel
<1>3. ASSUME NEW k \in S PROVE m <= k
  <2>1. k \in Nat /\ m \in Nat /\ ~(k < m)
    BY <1>1, <1>2
  <2>. QED
    BY <2>1
<1>. QED
  BY <1>1, <1>3 DEF Min

LEMMA UnusedId ==
  ASSUME NEW d, Unused(d) # {}
  PROVE  Min(Unused(d)) \in Unused(d) /\ Min(Unused(d)) \in Pids
<1>1. Unused(d) \subseteq Pids /\ Pids \subseteq Nat
  BY RecoveryIds DEF Unused
<1>. QED
  BY <1>1, LowestId

LEMMA FreeId ==
  ASSUME NEW d, FreeSids(d) # {}
  PROVE  Min(FreeSids(d)) \in FreeSids(d) /\ Min(FreeSids(d)) \in Sids
<1>1. FreeSids(d) \subseteq Sids /\ Sids \subseteq Nat
  BY RecoveryIds DEF FreeSids
<1>. QED
  BY <1>1, LowestId

LEMMA EndsReflexive ==
  ASSUME NEW d, Sound(d)
  PROVE  Ends(d, d) /\ FactorsEnd(d, d)
BY DEF Ends, FactorsEnd

LEMMA EndsTransitive ==
  ASSUME NEW d, NEW e, NEW g, Ends(d, e), Ends(e, g), FactorsEnd(d, e), FactorsEnd(e, g)
  PROVE  Ends(d, g) /\ FactorsEnd(d, g)
<1>1. FactorsEnd(d, g)
  BY DEF FactorsEnd
<1>2. Ends(d, g)
  BY DEF Ends
<1>. QED
  BY <1>1, <1>2

LEMMA ConsumeEnds ==
  ASSUME NEW d, Sound(d), NEW p \in Pids, d.pend[p].purpose # "recovery_session"
  PROVE  Ends(d, ConsumePending(d, p)) /\ FactorsEnd(d, ConsumePending(d, p))
<1> DEFINE e == ConsumePending(d, p)
<1>1. /\ e \in Database /\ e.sess = d.sess /\ e.factor = d.factor
      /\ e.pend[p] = NoRow /\ \A q \in Pids \ {p} : e.pend[q] = d.pend[q]
  BY RecoveryRows DEF ConsumePending, Sound, Database
<1>2. RowsFit(e)
  BY <1>1, RecoveryRows DEF Sound, RowsFit
<1>3. LiveHangs(e)
  BY <1>1, RecoveryRows DEF Sound, RowsFit, LiveHangs, ActiveRecovery, Open
<1>4. \A q \in Pids : Stands(e, q) => q # p
  BY <1>1, RecoveryRows DEF Stands, RecoveryPurposes
<1>5. \A q \in Pids : e.pend[q].purpose \in EnrollPurposes => q # p
  BY <1>1, RecoveryRows DEF EnrollPurposes
<1>6. Ends(d, e)
  <2>1. \A q \in Pids : Stands(e, q) => Stands(d, q) /\ e.pend[q] = d.pend[q]
    BY <1>1, <1>4 DEF Stands
  <2>2. \A q \in Pids : e.pend[q].purpose \in EnrollPurposes => d.pend[q].purpose \in EnrollPurposes
    BY <1>1, <1>5
  <2>. QED
    BY <1>1, <1>2, <1>3, <2>1, <2>2 DEF Ends, Sound
<1>. QED
  BY <1>1, <1>6 DEF FactorsEnd

LEMMA EndSessionEnds ==
  ASSUME NEW d, Sound(d), NEW s \in Sids
  PROVE  LET e == EndSession(d, s)
         IN  /\ Ends(d, e) /\ FactorsEnd(d, e)
             /\ e.pend = d.pend /\ e.factor = d.factor /\ ~e.sess[s].live
             /\ \A x \in Sids \ {s} : e.sess[x] = d.sess[x]
<1> DEFINE e == EndSession(d, s)
<1>1. /\ e \in Database /\ e.pend = d.pend /\ e.factor = d.factor
      /\ \A x \in Sids \ {s} : e.sess[x] = d.sess[x]
      /\ e.sess[s] = NoSession \/ e.sess[s] = [d.sess[s] EXCEPT !.live = FALSE]
  <2>1. d.sess \in [Sids -> SessionRow] /\ d.sess[s] \in SessionRow
    BY DEF Sound, Database
  <2> DEFINE r == IF d.sess[s].rid = 0 \/ d.pend[d.sess[s].rid].purpose # "recovery_session"
                  THEN NoSession ELSE [d.sess[s] EXCEPT !.live = FALSE]
  <2>2. r \in SessionRow
    BY <2>1, RecoveryRows DEF SessionRow
  <2>3. e = [d EXCEPT !.sess[s] = r]
    BY DEF EndSession
  <2>4. r = NoSession \/ r = [d.sess[s] EXCEPT !.live = FALSE]
    OBVIOUS
  <2>5. d \in Database
    BY DEF Sound
  <2> HIDE DEF r, e
  <2>. QED
    BY <2>1, <2>2, <2>3, <2>4, <2>5 DEF Database
<1>2. ~e.sess[s].live /\ (e.sess[s].kind = "recovery" => d.sess[s].kind = "recovery" /\ e.sess[s].rid = d.sess[s].rid)
  BY <1>1, RecoveryRows DEF Sound, Database, SessionRow
<1>3. RowsFit(e)
  <2>1. \A x \in Sids : e.sess[x].live => e.sess[x].kind # "none"
    BY <1>1, <1>2 DEF Sound, RowsFit
  <2>. QED
    BY <1>1, <1>2, <2>1 DEF Sound, RowsFit
<1>4. LiveHangs(e)
  BY <1>1, <1>2 DEF Sound, LiveHangs, ActiveRecovery, Open
<1>5. Ends(d, e)
  BY <1>1, <1>2, <1>3, <1>4 DEF Ends, Sound, Stands
<1>. QED
  BY <1>1, <1>2, <1>5 DEF FactorsEnd

LEMMA EndNormalEnds ==
  ASSUME NEW d, Sound(d)
  PROVE  LET e == EndNormalPendings(d)
         IN  /\ Ends(d, e) /\ FactorsEnd(d, e) /\ e.sess = d.sess /\ e.factor = d.factor
             /\ \A p \in Pids : /\ Stands(d, p) => e.pend[p] = d.pend[p]
                                /\ e.pend[p].purpose \notin NormalPurposes
<1> DEFINE e == EndNormalPendings(d)
<1>1. /\ e \in Database /\ e.sess = d.sess /\ e.factor = d.factor
      /\ \A p \in Pids : e.pend[p] = IF d.pend[p].purpose \in NormalPurposes THEN NoRow ELSE d.pend[p]
  BY RecoveryRows DEF EndNormalPendings, Sound, Database
<1>2. \A p \in Pids : e.pend[p].purpose \notin NormalPurposes
  BY <1>1, RecoveryRows DEF NormalPurposes
<1>3. \A p \in Pids : d.pend[p].purpose \in RecoveryPurposes => e.pend[p] = d.pend[p]
  BY <1>1 DEF NormalPurposes, RecoveryPurposes
<1>4. \A p \in Pids : e.pend[p].purpose \in RecoveryPurposes => e.pend[p] = d.pend[p]
  BY <1>1, RecoveryRows DEF RecoveryPurposes
<1>5. RowsFit(e)
  BY <1>1, <1>4 DEF Sound, RowsFit, RecoveryPurposes
<1>6. LiveHangs(e)
  BY <1>1, <1>3 DEF Sound, LiveHangs, RowsFit, ActiveRecovery, Open, RecoveryPurposes
<1>7. Ends(d, e)
  BY <1>1, <1>2, <1>4, <1>5, <1>6 DEF Ends, Sound, Stands, EnrollPurposes, NormalPurposes
<1>. QED
  BY <1>1, <1>2, <1>3, <1>7 DEF FactorsEnd, Stands

LEMMA InvalidateEnds ==
  ASSUME NEW d, Sound(d), NEW ps, ps \subseteq OpenRecoveries(d)
  PROVE  LET e == InvalidateRecovery(d, ps)
         IN  /\ Ends(d, e) /\ FactorsEnd(d, e)
             /\ \A p \in ps : e.pend[p] = NoRow
             /\ \A p \in Pids \ ps : e.pend[p] = d.pend[p] \/ e.pend[p] = NoRow
             /\ \A s \in Sids : e.sess[s] = d.sess[s] \/ e.sess[s] = NoSession
<1> DEFINE e == InvalidateRecovery(d, ps)
           f == Discard(d, ps)
<1>1. /\ f.sess = d.sess /\ f.pend \in [Pids -> Row] /\ f \in Database
      /\ \A q \in Pids : f.pend[q] = d.pend[q] \/ f.pend[q] = NoRow
      /\ \A q \in Pids : d.pend[q].purpose \notin EnrollPurposes => f.pend[q] = d.pend[q]
      /\ \A x \in Factors : f.factor[x] = d.factor[x] \/ f.factor[x] = "gone"
  BY RecoveryRows DEF Discard, Sound, Database, FactorStates, EnrollPurposes
<1>2. /\ e \in Database /\ e.factor = f.factor
      /\ \A q \in Pids : e.pend[q] = IF q \in ps THEN NoRow ELSE f.pend[q]
      /\ \A s \in Sids : e.sess[s] = IF \E p \in ps : d.pend[p].sid = s THEN NoSession ELSE d.sess[s]
  BY <1>1, RecoveryRows DEF InvalidateRecovery, Database
<1>3. \A p \in ps : p \in Pids /\ d.pend[p].purpose = "recovery_session"
  BY DEF OpenRecoveries
<1>4. \A q \in Pids : e.pend[q] = d.pend[q] \/ e.pend[q] = NoRow
  BY <1>1, <1>2
<1>5. \A s \in Sids : e.sess[s] = d.sess[s] \/ e.sess[s] = NoSession
  BY <1>2
<1>6. RowsFit(e)
  BY <1>4, <1>5, RecoveryRows DEF Sound, RowsFit
<1>7. LiveHangs(e)
  <2>1. SUFFICES ASSUME NEW s \in Sids, e.sess[s].live, e.sess[s].kind = "recovery"
                 PROVE  ActiveRecovery(e, s)
    BY DEF LiveHangs
  <2>2. e.sess[s] = d.sess[s] /\ ActiveRecovery(d, s) /\ d.sess[s].rid \in Pids
    BY <1>5, <2>1, RecoveryRows DEF Sound, LiveHangs, RowsFit
  <2>3. d.sess[s].rid \notin ps
    BY <1>2, <2>1, <2>2, RecoveryRows DEF ActiveRecovery
  <2>4. e.pend[d.sess[s].rid] = d.pend[d.sess[s].rid]
    BY <1>1, <1>2, <2>2, <2>3 DEF ActiveRecovery, Open, EnrollPurposes
  <2>. QED
    BY <2>2, <2>4 DEF ActiveRecovery, Open
<1>8. Ends(d, e)
  BY <1>2, <1>4, <1>5, <1>6, <1>7, RecoveryRows DEF Ends, Sound, Stands, EnrollPurposes, RecoveryPurposes
<1>9. FactorsEnd(d, e)
  BY <1>1, <1>2 DEF FactorsEnd
<1>. QED
  BY <1>2, <1>3, <1>4, <1>5, <1>8, <1>9

LEMMA CreatePendingRows ==
  ASSUME NEW d, Sound(d), Unused(d) # {}, NEW row \in Row
  PROVE  LET e == CreatePending(d, row)
             n == Min(Unused(d))
         IN  /\ e \in Database /\ e.sess = d.sess /\ e.factor = d.factor
             /\ n \in Pids /\ n \in Unused(d) /\ e.pend[n] = row
             /\ \A p \in Pids \ {n} : e.pend[p] = IF d.pend[p].expired THEN NoRow ELSE d.pend[p]
<1> DEFINE n == Min(Unused(d))
<1>1. n \in Pids /\ n \in Unused(d)
  BY UnusedId
<1>2. /\ Sweep(d) \in Database /\ Sweep(d).sess = d.sess /\ Sweep(d).factor = d.factor
      /\ \A p \in Pids : Sweep(d).pend[p] = IF d.pend[p].expired THEN NoRow ELSE d.pend[p]
  BY RecoveryRows DEF Sweep, Sound, Database
<1>. QED
  BY <1>1, <1>2 DEF CreatePending, Database

\* A ceremony that is no recovery.
LEMMA CreateEnds ==
  ASSUME NEW d, Sound(d), Unused(d) # {}, NEW row \in Row,
         row.purpose \notin RecoveryPurposes
  PROVE  LET e == CreatePending(d, row)
         IN  Ends(d, e) /\ FactorsEnd(d, e) /\ e.sess = d.sess
<1> DEFINE e == CreatePending(d, row)
           n == Min(Unused(d))
<1>1. /\ e \in Database /\ e.sess = d.sess /\ e.factor = d.factor
      /\ n \in Pids /\ n \in Unused(d) /\ e.pend[n] = row
      /\ \A p \in Pids \ {n} : e.pend[p] = IF d.pend[p].expired THEN NoRow ELSE d.pend[p]
  BY CreatePendingRows
<1>2. \A p \in Pids : e.pend[p].purpose \in RecoveryPurposes =>
        p # n /\ ~d.pend[p].expired /\ e.pend[p] = d.pend[p]
  BY <1>1, RecoveryRows DEF RecoveryPurposes
<1>3. RowsFit(e)
  BY <1>1, <1>2 DEF Sound, RowsFit, RecoveryPurposes
<1>4. LiveHangs(e)
  <2>1. SUFFICES ASSUME NEW s \in Sids, e.sess[s].live, e.sess[s].kind = "recovery"
                 PROVE  ActiveRecovery(e, s)
    BY DEF LiveHangs
  <2>2. ActiveRecovery(d, s) /\ d.sess[s].rid \in Pids /\ d.sess[s].rid # n
    BY <1>1, <2>1 DEF Sound, LiveHangs, RowsFit, Unused
  <2>3. e.pend[d.sess[s].rid] = d.pend[d.sess[s].rid]
    BY <1>1, <2>2 DEF ActiveRecovery, Open
  <2>. QED
    BY <1>1, <2>2, <2>3 DEF ActiveRecovery, Open
<1>5. \A p \in Pids : Awaited(p) => p # n
  BY <1>1 DEF Awaited, Unused
<1>6. \A p \in Pids : e.pend[p].purpose \in EnrollPurposes /\ p # n => d.pend[p].purpose \in EnrollPurposes
  BY <1>1, RecoveryRows DEF EnrollPurposes
<1>7. \A p \in Pids : Stands(e, p) => Stands(d, p) /\ e.pend[p] = d.pend[p]
  BY <1>2 DEF Stands
<1>8. Ends(d, e)
  BY <1>1, <1>3, <1>4, <1>5, <1>6, <1>7 DEF Ends, Sound
<1>. QED
  BY <1>1, <1>8 DEF FactorsEnd

\* A new ticket ends every recovery before it.
LEMMA SupersedeEnds ==
  ASSUME NEW d, Sound(d)
  PROVE  LET e == Supersede(d)
         IN  Ends(d, e) /\ FactorsEnd(d, e) /\ \A p \in Pids : ~Stands(e, p)
<1> DEFINE ps == {p \in OpenRecoveries(d) : ~d.pend[p].expired}
           f == InvalidateRecovery(d, ps)
           e == Supersede(d)
<1>1. /\ Ends(d, f) /\ FactorsEnd(d, f) /\ Sound(f)
      /\ \A p \in ps : f.pend[p] = NoRow
      /\ \A p \in Pids \ ps : f.pend[p] = d.pend[p] \/ f.pend[p] = NoRow
  BY InvalidateEnds DEF Ends
<1>2. /\ e \in Database /\ e.sess = f.sess /\ e.factor = f.factor
      /\ \A p \in Pids : e.pend[p] = IF f.pend[p].purpose = "recovery_authorization"
                                     THEN NoRow ELSE f.pend[p]
  BY <1>1, RecoveryRows DEF Supersede, Sound, Database
<1>3. \A p \in Pids : e.pend[p] = f.pend[p] \/ e.pend[p] = NoRow
  BY <1>2
<1>4. RowsFit(e)
  BY <1>1, <1>2, <1>3, RecoveryRows DEF Sound, RowsFit
<1>5. LiveHangs(e)
  <2>1. SUFFICES ASSUME NEW s \in Sids, e.sess[s].live, e.sess[s].kind = "recovery"
                 PROVE  ActiveRecovery(e, s)
    BY DEF LiveHangs
  <2>2. ActiveRecovery(f, s) /\ f.sess[s].rid \in Pids
    BY <1>1, <1>2, <2>1 DEF Sound, LiveHangs, RowsFit
  <2>3. e.pend[f.sess[s].rid] = f.pend[f.sess[s].rid]
    BY <1>2, <2>2 DEF ActiveRecovery, Open
  <2>. QED
    BY <1>2, <2>2, <2>3 DEF ActiveRecovery, Open
<1>6. Ends(f, e)
  BY <1>2, <1>3, <1>4, <1>5, RecoveryRows DEF Ends, Sound, Stands, EnrollPurposes, RecoveryPurposes
<1>7. FactorsEnd(f, e)
  BY <1>2 DEF FactorsEnd
<1>8. \A p \in Pids : ~Stands(e, p)
  <2>1. SUFFICES ASSUME NEW p \in Pids, Stands(e, p) PROVE FALSE
    OBVIOUS
  <2>2. e.pend[p] = f.pend[p] /\ f.pend[p].purpose = "recovery_session" /\ ~f.pend[p].expired
    BY <1>2, <2>1, RecoveryRows DEF Stands, RecoveryPurposes
  <2>3. p \notin ps /\ f.pend[p] = d.pend[p]
    BY <1>1, <2>2, RecoveryRows
  <2>. QED
    BY <2>2, <2>3 DEF OpenRecoveries
<1>. QED
  BY <1>1, <1>6, <1>7, <1>8, EndsTransitive

-----------------------------------------------------------------------------
\* A recovery that goes on after such a step went on before it.
LEMMA ActiveBefore ==
  ASSUME NEW d, NEW e, Sound(d), Ends(d, e), HasActiveRecovery(e)
  PROVE  HasActiveRecovery(d)
<1>1. PICK p \in Pids : \/ Open(e, p, "recovery_authorization")
                        \/ Open(e, p, "recovery_session") /\ e.sess[e.pend[p].sid].live
  BY DEF HasActiveRecovery
<1>2. Stands(e, p)
  BY <1>1 DEF Stands, Open, RecoveryPurposes
<1>3. /\ ~d.pend[p].expired /\ e.pend[p].purpose = d.pend[p].purpose /\ e.pend[p].sid = d.pend[p].sid
  BY <1>2 DEF Ends, Stands
<1>4. CASE Open(e, p, "recovery_authorization")
  BY <1>3, <1>4 DEF Open, HasActiveRecovery
<1>5. CASE Open(e, p, "recovery_session") /\ e.sess[e.pend[p].sid].live
  <2>1. d.pend[p].sid \in Sids
    BY <1>3, <1>5 DEF Sound, RowsFit, Open
  <2>. QED
    BY <1>3, <1>5, <2>1 DEF Open, HasActiveRecovery, Ends
<1>. QED
  BY <1>1, <1>4, <1>5

\* The one session of the recovery under way.
LEMMA LiveIsRecovery ==
  ASSUME NEW d, Sound(d), OneRecovery(d), HasActiveRecovery(d) => NoNormal(d),
         HasActiveRecovery(d), NEW s \in Sids, d.sess[s].live
  PROVE  /\ d.sess[s].kind = "recovery" /\ ActiveRecovery(d, s) /\ d.sess[s].rid \in Pids
         /\ \A p \in Pids : Stands(d, p) => p = d.sess[s].rid
<1>1. d.sess[s].kind = "recovery"
  BY DEF NoNormal, Sound, RowsFit, Database, SessionRow
<1>2. ActiveRecovery(d, s) /\ d.sess[s].rid \in Pids
  BY <1>1 DEF Sound, LiveHangs, RowsFit
<1>3. Stands(d, d.sess[s].rid)
  BY <1>2 DEF ActiveRecovery, Open, Stands, RecoveryPurposes
<1>. QED
  BY <1>1, <1>2, <1>3 DEF OneRecovery

\* A request that waits may go on relying on what it knew.
LEMMA StillFits ==
  ASSUME NEW d, NEW e, Sound(d), OneRecovery(d), HasActiveRecovery(d) => NoNormal(d), Ends(d, e),
         NEW w \in Workers, req[w] \in HeldRequest, Fits(d, req[w])
  PROVE  Fits(e, req[w])
<1> DEFINE r == req[w]
           s == r.sid
           p == r.pid
<1>1. HasActiveRecovery(e) => HasActiveRecovery(d)
  BY ActiveBefore
<1>2. r.stage \in {"guarded", "enroll", "complete"} => s \in Sids
  BY DEF Fits
<1>3. ASSUME HasActiveRecovery(e), r.stage = "guarded", p # 0, e.pend[p].purpose \in EnrollPurposes
      PROVE  e.sess[s].live
  <2>1. p \in Pids /\ Awaited(p)
    BY <1>3, RecoveryIds DEF HeldRequest, Awaited
  <2>2. d.pend[p].purpose \in EnrollPurposes /\ s \in Sids
    BY <1>2, <1>3, <2>1 DEF Ends
  <2>3. d.sess[s].live
    BY <1>1, <1>3, <2>2 DEF Fits
  <2>4. /\ ActiveRecovery(d, s) /\ d.sess[s].rid \in Pids
        /\ \A q \in Pids : Stands(d, q) => q = d.sess[s].rid
    BY <1>1, <1>3, <2>2, <2>3, LiveIsRecovery
  <2>5. PICK q \in Pids : \/ Open(e, q, "recovery_authorization")
                          \/ Open(e, q, "recovery_session") /\ e.sess[e.pend[q].sid].live
    BY <1>3 DEF HasActiveRecovery
  <2>6. Stands(e, q) /\ q = d.sess[s].rid /\ e.pend[q].purpose = d.pend[q].purpose
        /\ e.pend[q].sid = d.pend[q].sid
    BY <2>4, <2>5 DEF Open, Stands, RecoveryPurposes, Ends
  <2>7. d.pend[q].purpose = "recovery_session" /\ d.pend[q].sid = s
    BY <2>4, <2>6 DEF ActiveRecovery, Open
  <2>. QED
    BY <2>5, <2>6, <2>7 DEF Open
<1>4. HasActiveRecovery(e) /\ r.stage = "enroll" /\ r.row = NoRow => r.over
  BY <1>1 DEF Fits
<1>5. ASSUME r.stage = "complete", ActiveRecovery(e, s)
      PROVE  r.row.base = e.pend[e.sess[s].rid].base
  <2>1. s \in Sids /\ e.sess[s] = d.sess[s] /\ d.sess[s].rid \in Pids
    BY <1>2, <1>5 DEF ActiveRecovery, Ends, Sound, RowsFit
  <2>2. Stands(e, d.sess[s].rid)
    BY <1>5, <2>1 DEF ActiveRecovery, Open, Stands, RecoveryPurposes
  <2>3. ActiveRecovery(d, s) /\ e.pend[d.sess[s].rid].base = d.pend[d.sess[s].rid].base
    BY <1>5, <2>1, <2>2 DEF ActiveRecovery, Open, Stands, Ends
  <2>. QED
    BY <1>5, <2>1, <2>3 DEF Fits
<1>. QED
  BY <1>2, <1>3, <1>4, <1>5 DEF Fits

-----------------------------------------------------------------------------
\* No step of a request or of the clock promotes a factor that a recovery staged.
NonePromoted == \A f \in Factors : db.factor[f] = "staged" => db'.factor[f] # "usable"

\* A step that only ends rows, and changes no request but one that may rely on
\* what it knows then.
LEMMA EndsStep ==
  ASSUME RecoveryInv, Ends(db, db'), req' \in [Workers -> HeldRequest], late \subseteq late',
         late' \subseteq Factors,
         \A w \in Workers : req'[w] = req[w] \/ Fits(db', req'[w]),
         HasActiveRecovery(db') => \A f \in Factors : db'.factor[f] = "usable" =>
                                     db.factor[f] = "usable" \/ f \in late'
  PROVE  RecoveryInv'
<1>1. /\ Sound(db) /\ OneRecovery(db) /\ req \in [Workers -> HeldRequest]
      /\ HasActiveRecovery(db) => NoNormal(db)
  BY DEF RecoveryInv
<1>2. HasActiveRecovery(db') => HasActiveRecovery(db)
  BY <1>1, ActiveBefore
<1>3. Sound(db')
  BY DEF Ends
<1>4. OneRecovery(db')
  BY <1>1 DEF OneRecovery, Ends
<1>5. HasActiveRecovery(db') => NoNormal(db')
  BY <1>1, <1>2 DEF NoNormal, Ends
<1>6. ASSUME NEW w \in Workers PROVE Fits(db', req'[w])
  <2>1. Fits(db', req[w])
    BY <1>1, StillFits DEF RecoveryInv
  <2>. QED
    BY <2>1
<1>7. BaseCovers(db', late')
  <2>1. SUFFICES ASSUME HasActiveRecovery(db'), NEW p \in Pids, Stands(db', p),
                        NEW f \in Factors, db'.factor[f] = "usable"
                 PROVE  f \in db'.pend[p].base \/ f \in late'
    BY DEF BaseCovers
  <2>2. Stands(db, p) /\ db'.pend[p].base = db.pend[p].base
    BY <2>1 DEF Ends
  <2>3. db.factor[f] = "usable" => f \in db.pend[p].base \/ f \in late
    BY <1>2, <2>1, <2>2 DEF RecoveryInv, BaseCovers
  <2>. QED
    BY <2>1, <2>2, <2>3
<1>. QED
  BY <1>3, <1>4, <1>5, <1>6, <1>7 DEF RecoveryInv

\* The same of a step that also leaves the factors.
LEMMA QuietStep ==
  ASSUME RecoveryInv, Ends(db, db'), FactorsEnd(db, db'), req' \in [Workers -> HeldRequest],
         \A w \in Workers : req'[w] = req[w] \/ Fits(db', req'[w]), UNCHANGED late
  PROVE  RecoveryInv' /\ NonePromoted
<1>1. late \subseteq Factors
  BY DEF RecoveryInv
<1>2. RecoveryInv'
  BY <1>1, EndsStep DEF FactorsEnd
<1>. QED
  BY <1>2 DEF FactorsEnd, NonePromoted

LEMMA HeldRequests ==
  /\ NoRequest \in HeldRequest
  /\ \A d : Fits(d, NoRequest)
  /\ \A r \in HeldRequest : /\ r.sid \in 0..MaxSession /\ r.pid \in 0..MaxPending /\ r.row \in Row
  /\ \A d, r : r.stage \in {"verified", "mfa", "sso"} => Fits(d, r)
BY RecoveryIds, RecoveryRows DEF NoRequest, HeldRequest, Stages, Fits

\* One request moves on.
LEMMA KeepsOnly ==
  ASSUME RecoveryInv, NEW w \in Workers, NEW r \in HeldRequest, Keeps(w, r), Fits(db', r)
  PROVE  /\ req' \in [Workers -> HeldRequest]
         /\ \A v \in Workers : req'[v] = req[v] \/ Fits(db', req'[v])
BY DEF RecoveryInv, Keeps

LEMMA AnsweredOnly ==
  ASSUME RecoveryInv, NEW w \in Workers, Answered(w)
  PROVE  /\ req' \in [Workers -> HeldRequest]
         /\ \A v \in Workers : req'[v] = req[v] \/ Fits(db', req'[v])
BY KeepsOnly, HeldRequests DEF Answered

LEMMA RequestsSame ==
  ASSUME RecoveryInv, UNCHANGED req
  PROVE  /\ req' \in [Workers -> HeldRequest]
         /\ \A v \in Workers : req'[v] = req[v] \/ Fits(db', req'[v])
BY DEF RecoveryInv

LEMMA NothingEnds == RecoveryInv => Ends(db, db) /\ FactorsEnd(db, db) /\ Sound(db)
BY EndsReflexive DEF RecoveryInv

-----------------------------------------------------------------------------
\* A step after which no recovery stands.
LEMMA NoneStandsStep ==
  ASSUME RecoveryInv, Sound(db'), \A p \in Pids : ~Stands(db', p),
         req' \in [Workers -> HeldRequest], UNCHANGED late,
         \A w \in Workers : req'[w] = req[w] \/ Fits(db', req'[w])
  PROVE  RecoveryInv'
<1>1. ~HasActiveRecovery(db')
  BY DEF HasActiveRecovery, Open, Stands, RecoveryPurposes
<1>2. \A s \in Sids : ~ActiveRecovery(db', s)
  BY DEF Sound, RowsFit, ActiveRecovery, Open, Stands, RecoveryPurposes
<1>3. ASSUME NEW w \in Workers PROVE Fits(db', req'[w])
  <2>1. Fits(db, req[w])
    BY DEF RecoveryInv
  <2>2. req[w].stage \in {"guarded", "enroll", "complete"} => req[w].sid \in Sids
    BY <2>1 DEF Fits
  <2>3. Fits(db', req[w])
    BY <1>1, <1>2, <2>2 DEF Fits
  <2>. QED
    BY <2>3
<1>4. OneRecovery(db') /\ BaseCovers(db', late')
  BY <1>1 DEF OneRecovery, BaseCovers
<1>. QED
  BY <1>1, <1>3, <1>4 DEF RecoveryInv

\* create_user_session of a login: with no recovery under way it ends what is
\* left of the recoveries before.
LEMMA NormalSessionStep ==
  ASSUME RecoveryInv, NEW d, Ends(db, d), FactorsEnd(db, d), MayLogin(d), db' = NormalSession(d),
         req' \in [Workers -> HeldRequest], UNCHANGED late,
         \A w \in Workers : req'[w] = req[w] \/ Fits(db', req'[w])
  PROVE  RecoveryInv' /\ NonePromoted
<1> DEFINE g == SettleRecoveries(d)
           n == Min(FreeSids(d))
           r == [kind |-> "normal", live |-> TRUE, rid |-> 0]
<1>1. Sound(d) /\ ~HasActiveRecovery(d) /\ n \in Sids
  BY FreeId DEF Ends, MayLogin
<1>2. /\ Ends(d, g) /\ FactorsEnd(d, g)
      /\ \A p \in OpenRecoveries(d) : g.pend[p] = NoRow
      /\ \A p \in Pids \ OpenRecoveries(d) : g.pend[p] = d.pend[p] \/ g.pend[p] = NoRow
  BY <1>1, InvalidateEnds DEF SettleRecoveries
<1>3. Sound(g)
  BY <1>2 DEF Ends
<1>4. r \in SessionRow
  BY RecoveryIds DEF SessionRow
<1>5. /\ db' \in Database /\ db'.pend = g.pend /\ db'.factor = g.factor
      /\ db'.sess[n] = r /\ \A s \in Sids \ {n} : db'.sess[s] = g.sess[s]
  BY <1>1, <1>3, <1>4 DEF NormalSession, Sound, Database
<1>6. RowsFit(db')
  BY <1>3, <1>5 DEF Sound, RowsFit
<1>7. LiveHangs(db')
  BY <1>3, <1>5 DEF Sound, LiveHangs, ActiveRecovery, Open
<1>8. ASSUME NEW p \in Pids, Stands(db', p) PROVE FALSE
  <2>1. g.pend[p].purpose \in RecoveryPurposes /\ ~g.pend[p].expired
    BY <1>5, <1>8 DEF Stands
  <2>2. p \notin OpenRecoveries(d) /\ g.pend[p] = d.pend[p]
    BY <1>2, <2>1, RecoveryRows DEF RecoveryPurposes
  <2>3. Open(d, p, "recovery_authorization")
    BY <2>1, <2>2 DEF OpenRecoveries, Open, RecoveryPurposes
  <2>. QED
    BY <1>1, <2>3 DEF HasActiveRecovery
<1>9. RecoveryInv'
  BY <1>5, <1>6, <1>7, <1>8, NoneStandsStep DEF Sound
<1>10. NonePromoted
  BY <1>2, <1>5 DEF FactorsEnd, NonePromoted
<1>. QED
  BY <1>9, <1>10

\* authenticator_reset: the new ticket is the only recovery, no session lives and
\* no ceremony is left.
LEMMA AuthenticatorResetStep ==
  ASSUME RecoveryInv, AuthenticatorReset
  PROVE  RecoveryInv' /\ NonePromoted
<1> DEFINE b == Supersede(db)
           e == EndNormalPendings(b)
           row == [NoRow EXCEPT !.purpose = "recovery_authorization",
                                !.base = {f \in Factors : e.factor[f] \in {"usable", "staged"}}]
           x == CreatePending(e, row)
           n == Min(Unused(e))
<1>1. Sound(db) /\ Ends(db, b) /\ FactorsEnd(db, b) /\ \A p \in Pids : ~Stands(b, p)
  BY SupersedeEnds DEF RecoveryInv
<1>2. /\ Ends(b, e) /\ FactorsEnd(b, e) /\ \A p \in Pids : e.pend[p].purpose \notin NormalPurposes
  BY <1>1, EndNormalEnds DEF Ends
<1>3. Sound(e) /\ Ends(db, e) /\ FactorsEnd(db, e) /\ \A p \in Pids : ~Stands(e, p)
  <2>1. \A p \in Pids : ~Stands(e, p)
    BY <1>1, <1>2 DEF Ends
  <2>. QED
    BY <1>1, <1>2, <2>1, EndsTransitive DEF Ends
<1>4. row \in Row /\ row.purpose = "recovery_authorization" /\ ~row.expired
      /\ row.base = {f \in Factors : e.factor[f] \in {"usable", "staged"}}
  BY RecoveryRows DEF Row, Purposes, RecoveryPurposes, NoRow
<1>5. Unused(e) # {} /\ db' = RevokeSessions(x) /\ UNCHANGED late
      /\ req' = [w \in Workers |-> IF req[w].stage = "enroll" /\ req[w].row = NoRow
                                   THEN [req[w] EXCEPT !.over = TRUE] ELSE req[w]]
  BY DEF AuthenticatorReset, Authorise
<1> HIDE DEF b, e, row
<1>6. /\ x \in Database /\ x.sess = e.sess /\ x.factor = e.factor
      /\ n \in Pids /\ x.pend[n] = row
      /\ \A p \in Pids \ {n} : x.pend[p] = IF e.pend[p].expired THEN NoRow ELSE e.pend[p]
  BY <1>3, <1>4, <1>5, CreatePendingRows, Zenon
<1> HIDE DEF x, n
<1>7. ASSUME NEW s \in Sids
      PROVE  /\ EndSession(x, s).sess[s] \in SessionRow /\ ~EndSession(x, s).sess[s].live
             /\ EndSession(x, s).sess[s].kind = "recovery"
                  => EndSession(x, s).sess[s].rid = x.sess[s].rid /\ x.sess[s].kind = "recovery"
  <2>1. x.sess[s] \in SessionRow /\ x.sess \in [Sids -> SessionRow]
    BY <1>6 DEF Database
  <2> DEFINE r == IF x.sess[s].rid = 0 \/ x.pend[x.sess[s].rid].purpose # "recovery_session"
                  THEN NoSession ELSE [x.sess[s] EXCEPT !.live = FALSE]
  <2>2. EndSession(x, s).sess[s] = r
    BY <1>6, <2>1 DEF EndSession, Database
  <2>3. /\ r \in SessionRow /\ ~r.live
        /\ r.kind = "recovery" => r.rid = x.sess[s].rid /\ x.sess[s].kind = "recovery"
    BY <2>1, RecoveryRows DEF SessionRow
  <2>. QED
    BY <2>2, <2>3
<1>8. /\ db' \in Database /\ db'.pend = x.pend /\ db'.factor = x.factor
      /\ \A s \in Sids : db'.sess[s] = EndSession(x, s).sess[s]
  BY <1>5, <1>6, <1>7 DEF RevokeSessions, Database
<1>9. \A s \in Sids : ~db'.sess[s].live
  BY <1>7, <1>8
<1>10. \A p \in Pids \ {n} : ~Stands(db', p)
  BY <1>3, <1>6, <1>8, RecoveryRows DEF Stands, RecoveryPurposes
<1>11. RowsFit(db')
  <2>1. \A s \in Sids : db'.sess[s].kind = "recovery" => db'.sess[s].rid \in Pids
    BY <1>3, <1>6, <1>7, <1>8 DEF Sound, RowsFit
  <2>2. ASSUME NEW p \in Pids, db'.pend[p].purpose = "recovery_session" PROVE db'.pend[p].sid \in Sids
    <3>1. p # n /\ db'.pend[p] = e.pend[p]
      BY <1>4, <1>6, <1>8, <2>2, RecoveryRows
    <3>. QED
      BY <1>3, <2>2, <3>1 DEF Sound, RowsFit
  <2>. QED
    BY <1>9, <2>1, <2>2 DEF RowsFit
<1>12. Sound(db') /\ NoNormal(db') /\ OneRecovery(db')
  BY <1>8, <1>9, <1>10, <1>11 DEF Sound, LiveHangs, NoNormal, OneRecovery
<1>13. \A p \in Pids : db'.pend[p].purpose \notin EnrollPurposes
  <2>1. SUFFICES ASSUME NEW p \in Pids, db'.pend[p].purpose \in EnrollPurposes PROVE FALSE
    OBVIOUS
  <2>2. p # n /\ db'.pend[p] = e.pend[p]
    BY <1>4, <1>6, <1>8, <2>1, RecoveryRows DEF EnrollPurposes
  <2>. QED
    BY <1>2, <2>1, <2>2 DEF EnrollPurposes, NormalPurposes
<1>14. req' \in [Workers -> HeldRequest]
  <2>1. \A w \in Workers : req[w] \in HeldRequest /\ [req[w] EXCEPT !.over = TRUE] \in HeldRequest
    BY DEF RecoveryInv, HeldRequest
  <2>. QED
    BY <1>5, <2>1
<1>15. ASSUME NEW w \in Workers PROVE Fits(db', req'[w])
  <2>1. /\ req[w] \in HeldRequest /\ req'[w] \in HeldRequest
        /\ req'[w].stage = req[w].stage /\ req'[w].sid = req[w].sid /\ req'[w].row = req[w].row
        /\ req'[w].stage = "enroll" /\ req'[w].row = NoRow => req'[w].over
    BY <1>5, <1>14 DEF RecoveryInv, HeldRequest
  <2>2. req'[w].stage \in {"guarded", "enroll", "complete"} => req'[w].sid \in Sids
    BY <2>1 DEF RecoveryInv, Fits
  <2>3. req'[w].pid # 0 => req'[w].pid \in Pids
    BY <2>1, RecoveryIds DEF HeldRequest
  <2>4. req'[w].stage = "complete" => ~ActiveRecovery(db', req'[w].sid)
    BY <1>9, <2>2 DEF ActiveRecovery
  <2>. QED
    BY <1>13, <2>1, <2>2, <2>3, <2>4 DEF Fits
<1>16. BaseCovers(db', late')
  BY <1>4, <1>6, <1>8, <1>10 DEF BaseCovers
<1>17. NonePromoted
  BY <1>3, <1>6, <1>8 DEF FactorsEnd, NonePromoted
<1>18. late' \subseteq Factors
  BY <1>5 DEF RecoveryInv
<1>. QED
  BY <1>12, <1>14, <1>15, <1>16, <1>17, <1>18 DEF RecoveryInv

\* recovery_ticket_redeem: the recovery of the ticket goes on in a session nobody
\* knew, with the baseline of the ticket.
LEMMA TicketRedeemStep ==
  ASSUME RecoveryInv, NEW p \in Pids, TicketRedeem(p)
  PROVE  RecoveryInv' /\ NonePromoted
<1> DEFINE d == ConsumePending(db, p)
           s == Min(FreeSids(d))
           n == Min(Unused(d))
           row == [NoRow EXCEPT !.purpose = "recovery_session", !.sid = s, !.base = db.pend[p].base]
           e == CreatePending(d, row)
           new == [kind |-> "recovery", live |-> TRUE, rid |-> n]
<1>1. /\ Open(db, p, "recovery_authorization") /\ Unused(d) # {} /\ UNCHANGED <<req, late>>
      /\ db' = [e EXCEPT !.sess[s] = new] /\ FreeSids(db) # {}
  BY DEF TicketRedeem, Same
<1>2. Sound(db) /\ OneRecovery(db) /\ HasActiveRecovery(db) /\ NoNormal(db) /\ Stands(db, p)
  BY <1>1 DEF RecoveryInv, HasActiveRecovery, Stands, Open, RecoveryPurposes
<1>3. \A x \in Sids : ~db.sess[x].live
  BY <1>1, <1>2, LiveIsRecovery DEF ActiveRecovery, Open
<1>4. Ends(db, d) /\ FactorsEnd(db, d) /\ Sound(d)
  BY <1>1, <1>2, ConsumeEnds DEF Open, Ends
<1>5. d.sess = db.sess /\ d.pend[p] = NoRow /\ d.factor = db.factor
      /\ \A q \in Pids \ {p} : d.pend[q] = db.pend[q]
  BY <1>2 DEF ConsumePending, Sound, Database
<1>6. s \in FreeSids(d) /\ s \in Sids
  <2>1. FreeSids(db) \subseteq FreeSids(d)
    BY <1>5, RecoveryRows DEF FreeSids, NoRow, Sids
  <2>. QED
    BY <1>1, <2>1, FreeId
<1>7. n \in Pids /\ n \in Unused(d)
  BY <1>1, UnusedId
<1>8. row \in Row /\ row.purpose = "recovery_session" /\ ~row.expired /\ row.sid = s
      /\ row.base = db.pend[p].base
  <2>1. db.pend[p].base \in SUBSET Factors
    BY <1>2 DEF Sound, Database, Row
  <2>. QED
    BY <1>6, <2>1, RecoveryRows, RecoveryIds DEF Row, Purposes, RecoveryPurposes, NoRow
<1> HIDE DEF d, s, row
<1>9. /\ e \in Database /\ e.sess = d.sess /\ e.factor = d.factor /\ e.pend[n] = row
      /\ \A q \in Pids \ {n} : e.pend[q] = IF d.pend[q].expired THEN NoRow ELSE d.pend[q]
  BY <1>1, <1>4, <1>8, CreatePendingRows, Zenon
<1> HIDE DEF e, n
<1>10. new \in SessionRow
  BY <1>7, RecoveryIds DEF SessionRow
<1>11. /\ db' \in Database /\ db'.pend = e.pend /\ db'.factor = db.factor
       /\ db'.sess[s] = new /\ \A x \in Sids \ {s} : db'.sess[x] = db.sess[x]
  BY <1>1, <1>5, <1>6, <1>9, <1>10 DEF Database
<1>12. \A q \in Pids : Stands(db', q) => q = n
  <2>1. \A q \in Pids : ~Stands(d, q)
    BY <1>2, <1>5, RecoveryRows DEF Stands, RecoveryPurposes, OneRecovery
  <2>. QED
    BY <1>9, <1>11, <2>1, RecoveryRows DEF Stands, RecoveryPurposes
<1>13. \A x \in Sids : db'.sess[x].live => x = s
  BY <1>3, <1>11
<1>14. RowsFit(db')
  <2>1. \A x \in Sids : db'.sess[x].kind = "recovery" => db'.sess[x].rid \in Pids
    BY <1>2, <1>7, <1>11 DEF Sound, RowsFit
  <2>2. ASSUME NEW q \in Pids, db'.pend[q].purpose = "recovery_session" PROVE db'.pend[q].sid \in Sids
    <3>1. CASE q = n
      BY <1>6, <1>8, <1>9, <1>11, <3>1
    <3>2. CASE q # n
      <4>1. db'.pend[q] = d.pend[q]
        BY <1>9, <1>11, <2>2, <3>2, RecoveryRows
      <4>. QED
        BY <1>4, <2>2, <4>1 DEF Sound, RowsFit
    <3>. QED
      BY <3>1, <3>2
  <2>3. \A x \in Sids : db'.sess[x].live => db'.sess[x].kind # "none"
    BY <1>11, <1>13
  <2>. QED
    BY <2>1, <2>2, <2>3 DEF RowsFit
<1>15. LiveHangs(db')
  BY <1>8, <1>9, <1>11, <1>13 DEF LiveHangs, ActiveRecovery, Open
<1>16. Sound(db') /\ OneRecovery(db') /\ NoNormal(db')
  BY <1>11, <1>12, <1>13, <1>14, <1>15 DEF Sound, OneRecovery, NoNormal
<1>17. ASSUME NEW w \in Workers PROVE Fits(db', req'[w])
  <2>1. req'[w] = req[w] /\ Fits(db, req[w]) /\ req[w] \in HeldRequest
    BY <1>1 DEF RecoveryInv
  <2>2. req[w].stage \in {"guarded", "enroll", "complete"} => req[w].sid \in Sids /\ req[w].sid # s
    BY <1>6, <2>1 DEF Fits, FreeSids
  <2>3. ASSUME req[w].stage = "guarded", req[w].pid # 0, db'.pend[req[w].pid].purpose \in EnrollPurposes
        PROVE  FALSE
    <3>1. req[w].pid \in Pids /\ req[w].pid # n
      BY <1>7, <2>1, <2>3, RecoveryIds DEF HeldRequest, Unused
    <3>2. db'.pend[req[w].pid] = d.pend[req[w].pid] /\ d.pend[req[w].pid].purpose \in EnrollPurposes
      BY <1>9, <1>11, <2>3, <3>1, RecoveryRows DEF EnrollPurposes
    <3>3. db.pend[req[w].pid].purpose \in EnrollPurposes
      BY <1>5, <3>1, <3>2, RecoveryRows DEF EnrollPurposes
    <3>. QED
      BY <1>2, <1>3, <2>1, <2>2, <2>3, <3>3 DEF Fits
  <2>4. req[w].stage = "complete" => ~ActiveRecovery(db', req[w].sid)
    BY <1>13, <2>2 DEF ActiveRecovery
  <2>5. req[w].stage = "enroll" /\ req[w].row = NoRow => req[w].over
    BY <1>2, <2>1 DEF Fits
  <2>. QED
    BY <2>1, <2>2, <2>3, <2>4, <2>5 DEF Fits
<1>18. BaseCovers(db', late')
  <2>1. {f \in Factors : db.factor[f] = "usable"} \subseteq db.pend[p].base \union late
    BY <1>2 DEF RecoveryInv, BaseCovers
  <2>. QED
    BY <1>1, <1>8, <1>9, <1>11, <1>12, <2>1 DEF BaseCovers
<1>19. NonePromoted
  BY <1>11 DEF NonePromoted
<1>20. req' \in [Workers -> HeldRequest] /\ late' \subseteq Factors
  BY <1>1 DEF RecoveryInv
<1>. QED
  BY <1>16, <1>17, <1>18, <1>19, <1>20 DEF RecoveryInv

-----------------------------------------------------------------------------
\* _auth_session_guard.
LEMMA GuardStep ==
  ASSUME RecoveryInv, NEW w \in Workers, NEW s \in Sids, NEW p \in Pids \union {0}, Guard(w, s, p)
  PROVE  RecoveryInv' /\ NonePromoted
<1>1. UNCHANGED late /\ Sound(db)
  BY DEF Guard, Same, RecoveryInv
<1>2. CASE SessionAccepted(db, s)
  <2> DEFINE r == [NoRequest EXCEPT !.stage = "guarded", !.sid = s, !.pid = p]
  <2>1. UNCHANGED db /\ Keeps(w, r) /\ db.sess[s].live
    BY <1>2 DEF Guard, SessionAccepted
  <2>2. r \in HeldRequest /\ r.stage = "guarded" /\ r.sid = s
    BY HeldRequests, RecoveryIds DEF HeldRequest, NoRequest, Stages
  <2>3. Fits(db', r)
    BY <2>1, <2>2 DEF Fits
  <2>. QED
    BY <1>1, <2>1, <2>2, <2>3, KeepsOnly, NothingEnds, QuietStep
<1>3. CASE ~SessionAccepted(db, s)
  <2> DEFINE ps == OpenRecoveries(db) \intersect {db.sess[s].rid}
             g == InvalidateRecovery(db, ps)
  <2>1. db' = SessionRefused(db, s) /\ UNCHANGED req
    BY <1>3 DEF Guard
  <2>2. Ends(db, g) /\ FactorsEnd(db, g)
    BY <1>1, InvalidateEnds
  <2> DEFINE e == EndSession(g, s)
  <2>3. Ends(db, e) /\ FactorsEnd(db, e)
    <3>1. Sound(g)
      BY <2>2 DEF Ends
    <3> HIDE DEF g
    <3>2. Ends(g, e) /\ FactorsEnd(g, e)
      BY <3>1, EndSessionEnds
    <3> HIDE DEF e
    <3>. QED
      BY <2>2, <3>2, EndsTransitive
  <2>4. Ends(db, EndSession(db, s)) /\ FactorsEnd(db, EndSession(db, s))
    BY <1>1, EndSessionEnds
  <2>5. Ends(db, db') /\ FactorsEnd(db, db')
    BY <2>1, <2>3, <2>4, NothingEnds DEF SessionRefused
  <2>. QED
    BY <1>1, <2>1, <2>5, RequestsSame, QuietStep
<1>. QED
  BY <1>2, <1>3

\* A ceremony that begins: what create_pending stores is no recovery.
LEMMA CeremonyStep ==
  ASSUME RecoveryInv, Unused(db) # {}, NEW row \in Row, row.purpose \notin RecoveryPurposes,
         db' = CreatePending(db, row), UNCHANGED late, req' \in [Workers -> HeldRequest],
         \A w \in Workers : req'[w] = req[w] \/ Fits(db', req'[w])
  PROVE  RecoveryInv' /\ NonePromoted
<1>1. Ends(db, db') /\ FactorsEnd(db, db')
  BY CreateEnds DEF RecoveryInv
<1>. QED
  BY <1>1, QuietStep

LEMMA EnrollBeginStep ==
  ASSUME RecoveryInv, NEW w \in Workers, NEW kind \in {"fido", "totp"}, EnrollBegin(w, kind)
  PROVE  RecoveryInv' /\ NonePromoted
<1> DEFINE row == [NoRow EXCEPT !.purpose = Purpose(kind), !.sid = req[w].sid]
<1>1. /\ db' = CreatePending(db, row) \/ UNCHANGED db
      /\ Unused(db) # {} /\ UNCHANGED late /\ Answered(w) /\ req[w].stage = "guarded"
  BY DEF EnrollBegin, Same
<1>2. row \in Row /\ row.purpose \notin RecoveryPurposes
  <2>1. req[w].sid \in 0..MaxSession
    BY HeldRequests DEF RecoveryInv
  <2>2. row = [NoRow EXCEPT !.purpose = "webauthn_enrollment", !.sid = req[w].sid]
        \/ row = [NoRow EXCEPT !.purpose = "totp_enrollment", !.sid = req[w].sid]
    BY DEF Purpose
  <2>. QED
    BY <2>1, <2>2, RecoveryRows DEF Row, NoRow, Purposes, NormalPurposes, RecoveryPurposes
<1>3. CASE db' = CreatePending(db, row)
  BY <1>1, <1>2, <1>3, AnsweredOnly, CeremonyStep, Zenon
<1>4. CASE UNCHANGED db
  BY <1>1, <1>4, AnsweredOnly, NothingEnds, QuietStep
<1>. QED
  BY <1>1, <1>3, <1>4

\* Who goes on with an enrolment while a recovery is under way stands in the
\* session of the recovery, so what it stores is staged.
LEMMA EnrollConsumeStep ==
  ASSUME RecoveryInv, NEW w \in Workers, NEW kind \in {"fido", "totp"}, EnrollConsume(w, kind)
  PROVE  RecoveryInv' /\ NonePromoted
<1> DEFINE p == req[w].pid
           s == req[w].sid
           row == IF InRecovery(db, s) THEN db.pend[db.sess[s].rid] ELSE NoRow
           r == [NoRequest EXCEPT !.stage = "enroll", !.kind = kind, !.sid = s, !.row = row]
<1>1. /\ Sound(db) /\ OneRecovery(db) /\ (HasActiveRecovery(db) => NoNormal(db))
      /\ req[w] \in HeldRequest /\ Fits(db, req[w])
  BY DEF RecoveryInv
<1>2. /\ req[w].stage = "guarded" /\ p \in Pids /\ p # 0 /\ s \in Sids /\ UNCHANGED late
      /\ db.pend[p].purpose \in EnrollPurposes
  BY <1>1, RecoveryIds DEF EnrollConsume, Same, Fits, HeldRequest, EnrollPurposes, Purpose
<1>3. \/ db' = ConsumePending(db, p) /\ Keeps(w, r) /\ (InRecovery(db, s) => ActiveRecovery(db, s))
      \/ UNCHANGED db /\ Answered(w)
  BY DEF EnrollConsume
<1>4. CASE UNCHANGED db /\ Answered(w)
  BY <1>2, <1>4, AnsweredOnly, NothingEnds, QuietStep
<1>5. CASE db' = ConsumePending(db, p) /\ Keeps(w, r) /\ (InRecovery(db, s) => ActiveRecovery(db, s))
  <2>1. Ends(db, db') /\ FactorsEnd(db, db')
    BY <1>1, <1>2, <1>5, ConsumeEnds DEF EnrollPurposes
  <2>2. row \in Row
    BY <1>1, <1>2, RecoveryRows DEF InRecovery, Sound, RowsFit, Database
  <2>3. r \in HeldRequest /\ r.stage = "enroll" /\ r.sid = s /\ r.row = row
    <3> HIDE DEF row
    <3>. QED
      BY <1>1, <2>2, HeldRequests DEF HeldRequest, NoRequest, Stages
  <2>4. ASSUME HasActiveRecovery(db') PROVE row # NoRow
    <3>1. HasActiveRecovery(db)
      BY <1>1, <2>1, <2>4, ActiveBefore
    <3>2. db.sess[s].live
      BY <1>1, <1>2, <3>1 DEF Fits
    <3>3. db.sess[s].kind = "recovery" /\ ActiveRecovery(db, s)
      BY <1>1, <1>2, <3>1, <3>2, LiveIsRecovery
    <3>. QED
      BY <3>3, RecoveryRows DEF InRecovery, ActiveRecovery, Open
  <2>5. Fits(db', r)
    BY <1>2, <2>3, <2>4 DEF Fits
  <2>. QED
    BY <1>2, <1>5, <2>1, <2>3, <2>5, KeepsOnly, QuietStep
<1>. QED
  BY <1>3, <1>4, <1>5

LEMMA RowGot ==
  ASSUME NEW r \in Row, NEW got, got \subseteq Factors
  PROVE  \E z \in Row : /\ z = [r EXCEPT !.got = got]
                        /\ z.purpose = r.purpose /\ z.expired = r.expired
                        /\ z.sid = r.sid /\ z.base = r.base
<1> DEFINE z == [r EXCEPT !.got = got]
<1>1. z \in Row /\ z.purpose = r.purpose /\ z.expired = r.expired /\ z.sid = r.sid /\ z.base = r.base
  BY SMTT(30) DEF Row
<1>2. z = [r EXCEPT !.got = got]
  OBVIOUS
<1> HIDE DEF z
<1>. QED
  BY <1>1, <1>2, Zenon

\* An enrolment that a ticket overtook is the only one that stores a usable
\* factor while a recovery is under way.
LEMMA EnrollStoreStep ==
  ASSUME RecoveryInv, NEW w \in Workers, NEW kind \in {"fido", "totp"}, EnrollStore(w, kind)
  PROVE  RecoveryInv' /\ NonePromoted
<1>1. /\ Sound(db) /\ req[w] \in HeldRequest /\ Fits(db, req[w]) /\ late \subseteq Factors
      /\ req[w].stage = "enroll" /\ Answered(w) /\ req[w].sid \in Sids
  BY DEF RecoveryInv, EnrollStore, Fits
<1>2. req' \in [Workers -> HeldRequest] /\ \A v \in Workers : req'[v] = req[v] \/ Fits(db', req'[v])
  BY <1>1, AnsweredOnly
<1>3. CASE UNCHANGED <<db, late>>
  BY <1>2, <1>3, NothingEnds, QuietStep
<1>4. ASSUME NEW f \in Ids(kind), db.factor[f] = "none", StoreStaged(w, f)
      PROVE  RecoveryInv' /\ NonePromoted
  <2> DEFINE s == req[w].sid
             n == db.sess[s].rid
             got == req[w].row.got \union {f}
  <2>1. f \in Factors /\ UNCHANGED late /\ ActiveRecovery(db, s) /\ n \in Pids
    BY <1>1, <1>4 DEF Ids, Factors, StoreStaged, ActiveRecovery, Sound, RowsFit
  <2>2. db' = [[db EXCEPT !.factor[f] = "staged"] EXCEPT !.pend[n].got = got]
    BY <1>4 DEF StoreStaged, AppendCredential
  <2>3. got \subseteq Factors
    BY <1>1, <2>1, HeldRequests DEF Row
  <2>4. PICK z \in Row : /\ z = [db.pend[n] EXCEPT !.got = got]
                         /\ z.purpose = db.pend[n].purpose /\ z.expired = db.pend[n].expired
                         /\ z.sid = db.pend[n].sid /\ z.base = db.pend[n].base
    <3>1. db.pend[n] \in Row
      BY <1>1, <2>1 DEF Sound, Database
    <3> HIDE DEF n, got
    <3>. QED
      BY <2>3, <3>1, RowGot, Zenon
  <2>5. /\ db' \in Database /\ db'.sess = db.sess /\ db'.pend = [db.pend EXCEPT ![n] = z]
        /\ db'.factor = [db.factor EXCEPT ![f] = "staged"]
    <3>1. db \in Database
      BY <1>1 DEF Sound
    <3>2. db' = [[db EXCEPT !.factor = [db.factor EXCEPT ![f] = "staged"]]
                    EXCEPT !.pend = [db.pend EXCEPT ![n] = z]]
      BY <2>2, <2>4, <3>1 DEF Database
    <3> HIDE DEF n, got
    <3>. QED
      BY <2>1, <3>1, <3>2 DEF Database, FactorStates
  <2> HIDE DEF n, got
  <2>6. \A p \in Pids : /\ db'.pend[p].purpose = db.pend[p].purpose
                        /\ db'.pend[p].expired = db.pend[p].expired
                        /\ db'.pend[p].sid = db.pend[p].sid /\ db'.pend[p].base = db.pend[p].base
    <3>1. db.pend \in [Pids -> Row]
      BY <1>1 DEF Sound, Database
    <3>. QED
      BY <2>1, <2>4, <2>5, <3>1
  <2>7. RowsFit(db') /\ LiveHangs(db')
    <3>1. RowsFit(db')
      BY <1>1, <2>5, <2>6 DEF Sound, RowsFit
    <3>2. ASSUME NEW x \in Sids, db'.sess[x].live, db'.sess[x].kind = "recovery"
          PROVE  ActiveRecovery(db', x)
      <4>1. ActiveRecovery(db, x) /\ db.sess[x].rid \in Pids
        BY <1>1, <2>5, <3>2 DEF Sound, RowsFit, LiveHangs
      <4>. QED
        BY <2>5, <2>6, <4>1 DEF ActiveRecovery, Open
    <3>. QED
      BY <3>1, <3>2 DEF LiveHangs
  <2>8. Ends(db, db') /\ FactorsEnd(db, db')
    BY <2>5, <2>6, <2>7 DEF Ends, Sound, Stands, FactorsEnd
  <2>. QED
    BY <1>2, <2>1, <2>8, QuietStep
<1>5. ASSUME NEW f \in Ids(kind), db.factor[f] = "none", StoreNormal(w, f)
      PROVE  RecoveryInv' /\ NonePromoted
  <2>1. /\ f \in Factors /\ req[w].row = NoRow /\ db' = [db EXCEPT !.factor[f] = "usable"]
        /\ late' = IF req[w].over THEN late \union {f} ELSE late
    BY <1>5 DEF Ids, Factors, StoreNormal
  <2>2. /\ db' \in Database /\ db'.sess = db.sess /\ db'.pend = db.pend
        /\ db'.factor[f] = "usable" /\ \A x \in Factors \ {f} : db'.factor[x] = db.factor[x]
    BY <1>1, <2>1 DEF Sound, Database, FactorStates
  <2>3. Ends(db, db')
    BY <1>1, <2>2 DEF Ends, Sound, RowsFit, LiveHangs, ActiveRecovery, Open, Stands
  <2>4. HasActiveRecovery(db') => f \in late'
    BY <1>1, <2>1, <2>3, ActiveBefore DEF Fits
  <2>5. late \subseteq late' /\ late' \subseteq Factors
    BY <1>1, <2>1
  <2>6. RecoveryInv'
    BY <1>2, <2>2, <2>3, <2>4, <2>5, EndsStep
  <2>. QED
    BY <1>5, <2>2, <2>6 DEF NonePromoted
<1>. QED
  BY <1>3, <1>4, <1>5 DEF EnrollStore

-----------------------------------------------------------------------------
LEMMA CompleteReadStep ==
  ASSUME RecoveryInv, NEW w \in Workers, CompleteRead(w)
  PROVE  RecoveryInv' /\ NonePromoted
<1> DEFINE s == req[w].sid
           row == db.pend[db.sess[s].rid]
           r == [NoRequest EXCEPT !.stage = "complete", !.sid = s, !.row = row]
<1>1. /\ UNCHANGED <<db, late>> /\ s \in Sids /\ Sound(db)
      /\ (ActiveRecovery(db, s) /\ Keeps(w, r)) \/ Answered(w)
  BY DEF CompleteRead, Same, RecoveryInv, Fits
<1>2. CASE Answered(w)
  BY <1>1, <1>2, AnsweredOnly, NothingEnds, QuietStep
<1>3. CASE ActiveRecovery(db, s) /\ Keeps(w, r)
  <2>1. row \in Row
    BY <1>1, <1>3 DEF Sound, RowsFit, Database, ActiveRecovery
  <2>2. r \in HeldRequest /\ r.stage = "complete" /\ r.sid = s /\ r.row = row
    <3> HIDE DEF row
    <3>. QED
      BY <1>1, <2>1, HeldRequests, RecoveryIds DEF HeldRequest, NoRequest, Stages
  <2>3. Fits(db', r)
    BY <1>1, <2>2 DEF Fits
  <2>. QED
    BY <1>1, <1>3, <2>2, <2>3, KeepsOnly, NothingEnds, QuietStep
<1>. QED
  BY <1>1, <1>2, <1>3

\* What is left when a recovery is complete: no recovery, no session that lives,
\* and of the factors those it staged and those its baseline did not know.
LEMMA FinishedRows ==
  ASSUME NEW d, Sound(d), OneRecovery(d), HasActiveRecovery(d) => NoNormal(d),
         NEW s \in Sids, ActiveRecovery(d, s), NEW row \in Row
  PROVE  LET g == Finished(d, s, row)
         IN  /\ Sound(g) /\ \A p \in Pids : ~Stands(g, p)
             /\ \A f \in Factors : g.factor[f] = "usable" =>
                  d.factor[f] = "staged" \/ (d.factor[f] = "usable" /\ f \notin row.base)
<1> DEFINE r == d.sess[s].rid
           n == EndNormalPendings(d)
           m == Promoted(n, row)
           seen == [m EXCEPT !.pend[r].got = row.got]
           e == Discard(seen, {r})
           c == ConsumePending(e, r)
           g == EndSession(c, s)
<1>1. g = Finished(d, s, row)
  BY DEF Finished
<1>2. r \in Pids /\ Stands(d, r) /\ HasActiveRecovery(d) /\ d.pend[r].sid = s
  BY DEF Sound, RowsFit, ActiveRecovery, Open, Stands, RecoveryPurposes, HasActiveRecovery
<1>3. /\ n \in Database /\ n.sess = d.sess /\ n.factor = d.factor
      /\ \A p \in Pids : n.pend[p] = d.pend[p] \/ n.pend[p] = NoRow
  BY RecoveryRows DEF EndNormalPendings, Sound, Database
<1> HIDE DEF n
<1>4. /\ m \in Database /\ m.sess = d.sess /\ m.pend = n.pend
      /\ \A f \in Factors : m.factor[f] = "usable" =>
           d.factor[f] = "staged" \/ (d.factor[f] = "usable" /\ f \notin row.base)
  BY <1>3 DEF Promoted, Database, FactorStates
<1> HIDE DEF m
<1>5. /\ seen \in Database /\ seen.sess = d.sess /\ seen.factor = m.factor
      /\ \A p \in Pids \ {r} : seen.pend[p] = n.pend[p]
  <2>1. m.pend[r] \in Row /\ row.got \in SUBSET Factors
    BY <1>2, <1>4 DEF Database, Row
  <2>2. [m.pend[r] EXCEPT !.got = row.got] \in Row
    BY <2>1 DEF Row
  <2>. QED
    BY <1>2, <1>4, <2>2 DEF Database
<1> HIDE DEF seen
<1>6. /\ e \in Database /\ e.sess = d.sess
      /\ \A p \in Pids : e.pend[p] = seen.pend[p] \/ e.pend[p] = NoRow
      /\ \A f \in Factors : e.factor[f] = "usable" => seen.factor[f] = "usable"
  BY <1>5, RecoveryRows DEF Discard, Database, FactorStates
<1> HIDE DEF e
<1>7. /\ c \in Database /\ c.sess = d.sess /\ c.factor = e.factor /\ c.pend[r] = NoRow
      /\ \A p \in Pids \ {r} : c.pend[p] = e.pend[p]
  BY <1>2, <1>6, RecoveryRows DEF ConsumePending, Database
<1> HIDE DEF c
<1>8. /\ g \in Database /\ g.pend = c.pend /\ g.factor = c.factor
      /\ \A x \in Sids \ {s} : g.sess[x] = d.sess[x]
      /\ g.sess[s] = NoSession \/ g.sess[s] = [d.sess[s] EXCEPT !.live = FALSE]
  <2>1. d.sess \in [Sids -> SessionRow] /\ d.sess[s] \in SessionRow
    BY DEF Sound, Database
  <2> DEFINE z == IF d.sess[s].rid = 0 \/ c.pend[d.sess[s].rid].purpose # "recovery_session"
                  THEN NoSession ELSE [d.sess[s] EXCEPT !.live = FALSE]
  <2>2. z \in SessionRow
    BY <2>1, RecoveryRows DEF SessionRow
  <2>3. g = [c EXCEPT !.sess[s] = z]
    BY <1>7 DEF EndSession
  <2>4. z = NoSession \/ z = [d.sess[s] EXCEPT !.live = FALSE]
    OBVIOUS
  <2> HIDE DEF z, g
  <2>. QED
    BY <1>7, <2>1, <2>2, <2>3, <2>4 DEF Database
<1>9. ~g.sess[s].live /\ (g.sess[s].kind = "recovery" => g.sess[s].rid = r)
  BY <1>8, RecoveryRows DEF Sound, Database, SessionRow
<1>10. \A p \in Pids : g.pend[p] = NoRow \/ (p # r /\ g.pend[p] = d.pend[p])
  BY <1>3, <1>5, <1>6, <1>7, <1>8
<1>11. ASSUME NEW p \in Pids, Stands(g, p) PROVE FALSE
  <2>1. p # r /\ Stands(d, p)
    BY <1>10, <1>11, RecoveryRows DEF Stands, RecoveryPurposes
  <2>. QED
    BY <1>2, <2>1 DEF OneRecovery
<1>12. ASSUME NEW x \in Sids, g.sess[x].live PROVE FALSE
  <2>1. x # s /\ d.sess[x].live
    BY <1>8, <1>9, <1>12
  <2>2. d.sess[x].rid = r /\ ActiveRecovery(d, x)
    BY <1>2, <2>1, LiveIsRecovery
  <2>. QED
    BY <1>2, <2>1, <2>2 DEF ActiveRecovery
<1>13. RowsFit(g)
  <2>1. \A x \in Sids : g.sess[x].kind = "recovery" => g.sess[x].rid \in Pids
    BY <1>2, <1>8, <1>9 DEF Sound, RowsFit
  <2>2. \A p \in Pids : g.pend[p].purpose = "recovery_session" => g.pend[p].sid \in Sids
    BY <1>10, RecoveryRows DEF Sound, RowsFit
  <2>. QED
    BY <1>12, <2>1, <2>2 DEF RowsFit
<1>14. Sound(g)
  BY <1>8, <1>12, <1>13 DEF Sound, LiveHangs
<1>15. \A f \in Factors : g.factor[f] = "usable" =>
         d.factor[f] = "staged" \/ (d.factor[f] = "usable" /\ f \notin row.base)
  BY <1>4, <1>5, <1>6, <1>7, <1>8
<1>. QED
  BY <1>1, <1>11, <1>14, <1>15

\* recovery_complete finishes the recovery whose baseline it read.
LEMMA RecoveryCompleteStep ==
  ASSUME RecoveryInv, NEW w \in Workers, RecoveryComplete(w)
  PROVE  /\ RecoveryInv'
         /\ NonePromoted \/ (/\ UNCHANGED late
                             /\ \A f \in Factors : db'.factor[f] = "usable" =>
                                  db.factor[f] = "staged" \/ f \in late)
<1> DEFINE s == req[w].sid
           row == req[w].row
<1>1. /\ Sound(db) /\ OneRecovery(db) /\ (HasActiveRecovery(db) => NoNormal(db))
      /\ req[w] \in HeldRequest /\ Fits(db, req[w]) /\ req[w].stage = "complete"
      /\ Answered(w) /\ UNCHANGED late /\ s \in Sids /\ row \in Row
  BY HeldRequests DEF RecoveryInv, RecoveryComplete, Fits, Same
<1>2. UNCHANGED db \/ (ActiveRecovery(db, s) /\ db' = Finished(db, s, row))
  BY DEF RecoveryComplete
<1>3. CASE UNCHANGED db
  BY <1>1, <1>3, AnsweredOnly, NothingEnds, QuietStep
<1>4. CASE ActiveRecovery(db, s) /\ db' = Finished(db, s, row)
  <2>1. /\ Sound(db') /\ \A p \in Pids : ~Stands(db', p)
        /\ \A f \in Factors : db'.factor[f] = "usable" =>
             db.factor[f] = "staged" \/ (db.factor[f] = "usable" /\ f \notin row.base)
    BY <1>1, <1>4, FinishedRows
  <2>2. RecoveryInv'
    BY <1>1, <2>1, AnsweredOnly, NoneStandsStep
  <2> DEFINE r == db.sess[s].rid
  <2>3. r \in Pids /\ Stands(db, r) /\ HasActiveRecovery(db) /\ row.base = db.pend[r].base
    BY <1>1, <1>4 DEF Sound, RowsFit, ActiveRecovery, Open, Stands, RecoveryPurposes,
                      HasActiveRecovery, Fits
  <2>4. \A f \in Factors : db.factor[f] = "usable" => f \in row.base \/ f \in late
    BY <2>3 DEF RecoveryInv, BaseCovers
  <2>. QED
    BY <1>1, <2>1, <2>2, <2>4
<1>. QED
  BY <1>2, <1>3, <1>4

-----------------------------------------------------------------------------
\* Logins.
LEMMA LoginConsumeStep ==
  ASSUME RecoveryInv, NEW w \in Workers, NEW p \in Pids,
         LoginConsume(w, p) \/ MfaWebauthnConsume(w, p) \/ SsoConsume(w, p)
  PROVE  RecoveryInv' /\ NonePromoted
<1> DEFINE verified == [NoRequest EXCEPT !.stage = "verified"]
           mfa == [NoRequest EXCEPT !.stage = "mfa", !.pid = db.pend[p].parent]
           sso == [NoRequest EXCEPT !.stage = "sso"]
<1>1. /\ db' = ConsumePending(db, p) /\ UNCHANGED late
      /\ db.pend[p].purpose # "recovery_session"
      /\ UNCHANGED req \/ Keeps(w, verified) \/ Keeps(w, mfa) \/ Keeps(w, sso)
  BY DEF LoginConsume, MfaWebauthnConsume, SsoConsume, Open, Same
<1>2. Ends(db, db') /\ FactorsEnd(db, db')
  BY <1>1, ConsumeEnds DEF RecoveryInv
<1>3. db.pend[p].parent \in 0..MaxPending
  BY DEF RecoveryInv, Sound, Database, Row
<1>4. /\ {verified, mfa, sso} \subseteq HeldRequest
      /\ verified.stage = "verified" /\ mfa.stage = "mfa" /\ sso.stage = "sso"
  BY <1>3, HeldRequests DEF HeldRequest, NoRequest, Stages
<1> HIDE DEF verified, mfa, sso
<1>5. Fits(db', verified) /\ Fits(db', mfa) /\ Fits(db', sso)
  BY <1>4, HeldRequests
<1>6. req' \in [Workers -> HeldRequest] /\ \A v \in Workers : req'[v] = req[v] \/ Fits(db', req'[v])
  <2>1. CASE UNCHANGED req
    BY <2>1, RequestsSame
  <2>2. ASSUME NEW r \in {verified, mfa, sso}, Keeps(w, r)
        PROVE  /\ req' \in [Workers -> HeldRequest]
               /\ \A v \in Workers : req'[v] = req[v] \/ Fits(db', req'[v])
    BY <1>4, <1>5, <2>2, KeepsOnly
  <2>. QED
    BY <1>1, <2>1, <2>2
<1>. QED
  BY <1>1, <1>2, <1>6, QuietStep

LEMMA CeremonyRows ==
  /\ [NoRow EXCEPT !.purpose = "webauthn_login"] \in Row
  /\ [NoRow EXCEPT !.purpose = "webauthn_login"].purpose \notin RecoveryPurposes
  /\ [NoRow EXCEPT !.purpose = "login_mfa"] \in Row
  /\ [NoRow EXCEPT !.purpose = "login_mfa"].purpose \notin RecoveryPurposes
  /\ [NoRow EXCEPT !.purpose = "oidc_login"] \in Row
  /\ [NoRow EXCEPT !.purpose = "oidc_login"].purpose \notin RecoveryPurposes
BY RecoveryRows DEF Row, NoRow, Purposes, NormalPurposes, RecoveryPurposes

LEMMA LoginBeginStep ==
  ASSUME RecoveryInv, LoginBegin \/ BreakglassLogin \/ SsoBegin
  PROVE  RecoveryInv' /\ NonePromoted
<1>1. /\ Unused(db) # {} /\ UNCHANGED <<req, late>>
      /\ \E purpose \in {"webauthn_login", "login_mfa", "oidc_login"} :
           db' = CreatePending(db, [NoRow EXCEPT !.purpose = purpose])
  BY DEF LoginBegin, BreakglassLogin, SsoBegin, Same
<1>2. \E row \in Row : row.purpose \notin RecoveryPurposes /\ db' = CreatePending(db, row)
  BY <1>1, CeremonyRows
<1>. QED
  BY <1>1, <1>2, RequestsSame, CeremonyStep

LEMMA MfaWebauthnBeginStep ==
  ASSUME RecoveryInv, NEW p \in Pids, MfaWebauthnBegin(p)
  PROVE  RecoveryInv' /\ NonePromoted
<1> DEFINE row == [NoRow EXCEPT !.purpose = "login_mfa_webauthn", !.parent = p]
<1>1. Unused(db) # {} /\ UNCHANGED <<req, late>> /\ db' = CreatePending(db, row)
  BY DEF MfaWebauthnBegin, Same
<1>2. row \in Row /\ row.purpose \notin RecoveryPurposes
  BY RecoveryRows, RecoveryIds DEF Row, NoRow, Purposes, NormalPurposes, RecoveryPurposes
<1> HIDE DEF row
<1>. QED
  BY <1>1, <1>2, RequestsSame, CeremonyStep

LEMMA MfaSessionStep ==
  ASSUME RecoveryInv, NEW p \in Pids, Open(db, p, "login_mfa"), db' = MfaSession(db, p),
         req' \in [Workers -> HeldRequest], UNCHANGED late,
         \A w \in Workers : req'[w] = req[w] \/ Fits(db', req'[w])
  PROVE  RecoveryInv' /\ NonePromoted
<1> DEFINE d == ConsumePending(db, p)
<1>1. Sound(db) /\ db.pend[p].purpose = "login_mfa"
  BY DEF RecoveryInv, Open
<1>2. Ends(db, d) /\ FactorsEnd(db, d)
  BY <1>1, ConsumeEnds
<1>3. CASE MayLogin(db)
  <2>1. /\ d.active = db.active /\ d.sess = db.sess /\ d.pend[p] = NoRow
        /\ \A q \in Pids \ {p} : d.pend[q] = db.pend[q]
    BY <1>1 DEF ConsumePending, Sound, Database
  <2>2. FreeSids(db) \subseteq FreeSids(d)
    BY <2>1, RecoveryRows DEF FreeSids, NoRow, Sids
  <2>3. MayLogin(d)
    BY <1>1, <1>2, <1>3, <2>1, <2>2, ActiveBefore DEF MayLogin
  <2>4. db' = NormalSession(d)
    BY <1>3 DEF MfaSession
  <2> HIDE DEF d
  <2>. QED
    BY <1>2, <2>3, <2>4, NormalSessionStep
<1>4. CASE ~MayLogin(db)
  <2>1. UNCHANGED db
    BY <1>4 DEF MfaSession
  <2>. QED
    BY <2>1, NothingEnds, QuietStep
<1>. QED
  BY <1>3, <1>4

LEMMA LoginSessionStep ==
  ASSUME RecoveryInv, NEW w \in Workers, LoginSession(w) \/ MfaWebauthnComplete(w) \/ SsoAnswer(w)
  PROVE  RecoveryInv' /\ NonePromoted
<1>1. Answered(w) /\ UNCHANGED late
  BY DEF LoginSession, MfaWebauthnComplete, SsoAnswer, Same
<1>2. req' \in [Workers -> HeldRequest] /\ \A v \in Workers : req'[v] = req[v] \/ Fits(db', req'[v])
  BY <1>1, AnsweredOnly
<1>3. CASE UNCHANGED db
  BY <1>1, <1>2, <1>3, NothingEnds, QuietStep
<1>4. CASE MayLogin(db) /\ db' = NormalSession(db)
  BY <1>1, <1>2, <1>4, NothingEnds, NormalSessionStep
<1>5. CASE Open(db, req[w].pid, "login_mfa") /\ db' = MfaSession(db, req[w].pid)
  <2>1. CASE req[w].pid \in Pids
    BY <1>1, <1>2, <1>5, <2>1, MfaSessionStep
  <2>2. CASE req[w].pid \notin Pids
    <3>1. ConsumePending(db, req[w].pid) = db
      BY <2>2 DEF RecoveryInv, Sound, Database, ConsumePending
    <3>. QED
      BY <1>3, <1>4, <1>5, <3>1 DEF MfaSession
  <2>. QED
    BY <2>1, <2>2
<1>6. CASE Unused(db) # {} /\ db' = CreatePending(db, [NoRow EXCEPT !.purpose = "login_mfa"])
  BY <1>1, <1>2, <1>6, CeremonyRows, CeremonyStep
<1>. QED
  BY <1>3, <1>4, <1>5, <1>6 DEF LoginSession, MfaWebauthnComplete, SsoAnswer

-----------------------------------------------------------------------------
\* Ends of sessions, time and the administrator.
LEMMA LogoutStep ==
  ASSUME RecoveryInv, NEW s \in Sids, Logout(s)
  PROVE  RecoveryInv' /\ NonePromoted
<1> DEFINE g == InvalidateRecovery(db, OpenRecoveries(db) \intersect {db.sess[s].rid})
           e == EndSession(g, s)
<1>1. Sound(db) /\ db' = e /\ UNCHANGED <<req, late>>
  BY DEF RecoveryInv, Logout, Same
<1>2. Ends(db, g) /\ FactorsEnd(db, g)
  BY <1>1, InvalidateEnds
<1>3. Sound(g)
  BY <1>2 DEF Ends
<1> HIDE DEF g
<1>4. Ends(g, e) /\ FactorsEnd(g, e)
  BY <1>3, EndSessionEnds
<1>5. Ends(db, db') /\ FactorsEnd(db, db')
  BY <1>1, <1>2, <1>4, EndsTransitive, Zenon
<1>. QED
  BY <1>1, <1>5, RequestsSame, QuietStep

LEMMA SessionEndsStep ==
  ASSUME RecoveryInv, NEW s \in Sids, SessionRevoke(s) \/ SessionExpires(s)
  PROVE  RecoveryInv' /\ NonePromoted
<1>1. Sound(db) /\ db' = EndSession(db, s) /\ UNCHANGED <<req, late>>
  BY DEF RecoveryInv, SessionRevoke, SessionExpires, Same
<1>2. Ends(db, db') /\ FactorsEnd(db, db')
  BY <1>1, EndSessionEnds
<1>. QED
  BY <1>1, <1>2, RequestsSame, QuietStep

LEMMA PendingExpiresStep ==
  ASSUME RecoveryInv, NEW p \in Pids, PendingExpires(p)
  PROVE  RecoveryInv' /\ NonePromoted
<1>1. Sound(db) /\ UNCHANGED <<req, late>>
  BY DEF RecoveryInv, PendingExpires, Same
<1>2. CASE db.pend[p].purpose # "recovery_session"
  <2>1. db' = ConsumePending(db, p)
    BY <1>2 DEF PendingExpires
  <2>2. Ends(db, db') /\ FactorsEnd(db, db')
    BY <1>1, <1>2, <2>1, ConsumeEnds
  <2>. QED
    BY <1>1, <2>2, RequestsSame, QuietStep
<1>3. CASE db.pend[p].purpose = "recovery_session"
  <2> DEFINE s == db.pend[p].sid
             row == [db.pend[p] EXCEPT !.expired = TRUE]
             x == EndSession(db, s)
  <2>1. s \in Sids /\ row \in Row /\ row.expired /\ row.purpose = "recovery_session" /\ row.sid = s
    BY <1>1, <1>3 DEF Sound, RowsFit, Database, Row
  <2>2. /\ Ends(db, x) /\ FactorsEnd(db, x) /\ Sound(x)
        /\ x.pend = db.pend /\ x.factor = db.factor /\ ~x.sess[s].live
    <3>1. Ends(db, x) /\ FactorsEnd(db, x) /\ x.pend = db.pend /\ x.factor = db.factor /\ ~x.sess[s].live
      BY <1>1, <2>1, EndSessionEnds, ZenonT(60)
    <3>. QED
      BY <3>1 DEF Ends
  <2>3. /\ db' \in Database /\ db'.sess = x.sess /\ db'.factor = x.factor /\ db'.pend[p] = row
        /\ \A q \in Pids \ {p} : db'.pend[q] = x.pend[q]
    <3>1. db' = EndSession([db EXCEPT !.pend[p].expired = TRUE], s)
      BY <1>3 DEF PendingExpires
    <3> DEFINE y == [db EXCEPT !.pend[p] = row]
    <3>2. /\ y \in Database /\ y.sess = db.sess /\ y.factor = db.factor /\ y.pend[p] = row
          /\ \A q \in Pids \ {p} : y.pend[q] = db.pend[q]
      BY <1>1, <2>1 DEF Sound, Database
    <3>3. \A q \in Pids : y.pend[q].purpose = db.pend[q].purpose
      BY <1>3, <2>1, <3>2
    <3>4. db' = EndSession(y, s)
      BY <3>1
    <3> DEFINE z(d) == IF d.sess[s].rid = 0 \/ d.pend[d.sess[s].rid].purpose # "recovery_session"
                       THEN NoSession ELSE [d.sess[s] EXCEPT !.live = FALSE]
    <3>5. z(y) = z(db)
      <4>1. db.sess[s].rid = 0 \/ db.sess[s].rid \in Pids
        BY <1>1, <2>1, RecoveryIds DEF Sound, Database, SessionRow
      <4>2. y.sess[s] = db.sess[s]
        BY <3>2
      <4>3. db.sess[s].rid \in Pids => y.pend[db.sess[s].rid].purpose = db.pend[db.sess[s].rid].purpose
        BY <3>3
      <4> HIDE DEF y, s
      <4>. QED
        BY <4>1, <4>2, <4>3
    <3>6. z(db) \in SessionRow
      BY <1>1, <2>1, RecoveryRows DEF Sound, Database, SessionRow
    <3>7. db' = [y EXCEPT !.sess[s] = z(y)] /\ x = [db EXCEPT !.sess[s] = z(db)]
      BY <3>4 DEF EndSession
    <3> HIDE DEF y, z, x, row
    <3>. QED
      BY <1>1, <2>1, <2>2, <3>2, <3>5, <3>6, <3>7 DEF Database, Sound
  <2> HIDE DEF x, row
  <2>4. RowsFit(db')
    BY <2>1, <2>2, <2>3 DEF Sound, RowsFit
  <2>5. LiveHangs(db')
    <3>1. SUFFICES ASSUME NEW v \in Sids, db'.sess[v].live, db'.sess[v].kind = "recovery"
                   PROVE  ActiveRecovery(db', v)
      BY DEF LiveHangs
    <3>2. ActiveRecovery(x, v) /\ x.sess[v].rid \in Pids /\ v # s
      BY <2>2, <2>3, <3>1 DEF Sound, RowsFit, LiveHangs
    <3>3. x.sess[v].rid # p
      BY <2>2, <3>2 DEF ActiveRecovery
    <3>. QED
      BY <2>3, <3>2, <3>3 DEF ActiveRecovery, Open
  <2>6. Ends(x, db') /\ FactorsEnd(x, db')
    BY <2>1, <2>2, <2>3, <2>4, <2>5 DEF Ends, Sound, Stands, EnrollPurposes, FactorsEnd
  <2>7. Ends(db, db') /\ FactorsEnd(db, db')
    BY <2>2, <2>6, EndsTransitive, Zenon
  <2>. QED
    BY <1>1, <2>7, RequestsSame, QuietStep
<1>. QED
  BY <1>2, <1>3

LEMMA UserDisableStep ==
  ASSUME RecoveryInv, UserDisable
  PROVE  RecoveryInv' /\ NonePromoted
<1>1. Sound(db) /\ db' = [db EXCEPT !.active = FALSE] /\ UNCHANGED <<req, late>>
  BY DEF RecoveryInv, UserDisable, Same
<1>2. db' \in Database /\ db'.sess = db.sess /\ db'.pend = db.pend /\ db'.factor = db.factor
  BY <1>1 DEF Sound, Database
<1>3. Ends(db, db') /\ FactorsEnd(db, db')
  BY <1>1, <1>2 DEF Ends, Sound, RowsFit, LiveHangs, ActiveRecovery, Open, Stands, FactorsEnd
<1>. QED
  BY <1>1, <1>3, RequestsSame, QuietStep

-----------------------------------------------------------------------------
\* What a step promotes is what its recovery staged; the rest that stays usable
\* is late.
Replaced ==
  (\E f \in Factors : db.factor[f] = "staged" /\ db'.factor[f] = "usable")
    => {f \in Factors : db'.factor[f] = "usable"}
         \subseteq {f \in Factors : db.factor[f] = "staged"} \union late

LEMMA RecoveryStep ==
  ASSUME RecoveryInv, RecoveryNext
  PROVE  RecoveryInv' /\ Replaced
<1>1. NonePromoted => Replaced
  BY DEF NonePromoted, Replaced
<1>2. ASSUME NEW w \in Workers, RecoveryComplete(w) PROVE RecoveryInv' /\ Replaced
  BY <1>1, <1>2, RecoveryCompleteStep DEF Replaced
<1>3. ASSUME NEW w \in Workers, NEW s \in Sids, NEW p \in Pids \union {0}, Guard(w, s, p)
      PROVE  RecoveryInv' /\ NonePromoted
  BY <1>3, GuardStep
<1>4. ASSUME NEW w \in Workers, NEW p \in Pids,
             LoginConsume(w, p) \/ MfaWebauthnConsume(w, p) \/ SsoConsume(w, p)
      PROVE  RecoveryInv' /\ NonePromoted
  BY <1>4, LoginConsumeStep
<1>5. ASSUME NEW w \in Workers, LoginSession(w) \/ MfaWebauthnComplete(w) \/ SsoAnswer(w)
      PROVE  RecoveryInv' /\ NonePromoted
  BY <1>5, LoginSessionStep
<1>6. ASSUME NEW w \in Workers, RegisterBegin(w) \/ TotpBegin(w) PROVE RecoveryInv' /\ NonePromoted
  BY <1>6, EnrollBeginStep DEF RegisterBegin, TotpBegin
<1>7. ASSUME NEW w \in Workers, RegisterConsume(w) \/ TotpConsume(w)
      PROVE  RecoveryInv' /\ NonePromoted
  BY <1>7, EnrollConsumeStep DEF RegisterConsume, TotpConsume
<1>8. ASSUME NEW w \in Workers, RegisterComplete(w) \/ TotpComplete(w)
      PROVE  RecoveryInv' /\ NonePromoted
  BY <1>8, EnrollStoreStep DEF RegisterComplete, TotpComplete
<1>9. ASSUME NEW w \in Workers, CompleteRead(w) PROVE RecoveryInv' /\ NonePromoted
  BY <1>9, CompleteReadStep
<1>10. CASE LoginBegin \/ BreakglassLogin \/ SsoBegin
  BY <1>1, <1>10, LoginBeginStep
<1>11. ASSUME NEW p \in Pids, MfaWebauthnBegin(p) PROVE RecoveryInv' /\ NonePromoted
  BY <1>11, MfaWebauthnBeginStep
<1>12. ASSUME NEW p \in Pids, MfaTotpComplete(p) PROVE RecoveryInv' /\ NonePromoted
  <2>1. Open(db, p, "login_mfa") /\ db' = MfaSession(db, p) /\ UNCHANGED <<req, late>>
    BY <1>12 DEF MfaTotpComplete, Same
  <2>. QED
    BY <2>1, RequestsSame, MfaSessionStep
<1>13. CASE AuthenticatorReset
  BY <1>1, <1>13, AuthenticatorResetStep
<1>14. ASSUME NEW p \in Pids, TicketRedeem(p) PROVE RecoveryInv' /\ NonePromoted
  BY <1>14, TicketRedeemStep
<1>15. ASSUME NEW s \in Sids, Logout(s) \/ SessionRevoke(s) \/ SessionExpires(s)
       PROVE  RecoveryInv' /\ NonePromoted
  BY <1>15, LogoutStep, SessionEndsStep
<1>16. ASSUME NEW p \in Pids, PendingExpires(p) PROVE RecoveryInv' /\ NonePromoted
  BY <1>16, PendingExpiresStep
<1>17. CASE UserDisable
  BY <1>1, <1>17, UserDisableStep
<1>. QED
  BY <1>1, <1>2, <1>3, <1>4, <1>5, <1>6, <1>7, <1>8, <1>9, <1>10, <1>11, <1>12, <1>13, <1>14,
     <1>15, <1>16, <1>17 DEF RecoveryNext

LEMMA RecoveryStutters ==
  ASSUME RecoveryInv, UNCHANGED recoveryVars
  PROVE  RecoveryInv' /\ Replaced
<1>1. RecoveryInv' /\ NonePromoted
  BY RequestsSame, NothingEnds, QuietStep DEF recoveryVars
<1>. QED
  BY <1>1 DEF NonePromoted, Replaced

\* The invariant holds of every behaviour: at most one recovery stands, in its own
\* session, and what the requests beside it hold cannot undo it (auth/sessions.py,
\* auth/pending.py, web/routes/auth.py).
THEOREM RecoveryInvariance == RecoverySpec => []RecoveryInv
<1>1. RecoveryInit => RecoveryInv
  <2>1. SUFFICES ASSUME RecoveryInit PROVE RecoveryInv
    OBVIOUS
  <2> DEFINE d == [active |-> TRUE,
                   factor |-> [f \in Factors |-> IF f \in Enrolled THEN "usable" ELSE "none"],
                   sess |-> [s \in Sids |-> NoSession],
                   pend |-> [p \in Pids |-> NoRow]]
  <2>2. db = d /\ req = [w \in Workers |-> NoRequest] /\ late = {}
    BY <2>1 DEF RecoveryInit
  <2>3. d \in Database /\ (\A s \in Sids : d.sess[s] = NoSession) /\ \A p \in Pids : d.pend[p] = NoRow
    BY RecoveryRows DEF Database, FactorStates
  <2>4. Sound(d) /\ \A p \in Pids : ~Stands(d, p)
    BY <2>3, RecoveryRows DEF Sound, RowsFit, LiveHangs, Stands, RecoveryPurposes
  <2>5. OneRecovery(d) /\ ~HasActiveRecovery(d)
    BY <2>4 DEF OneRecovery, HasActiveRecovery, Stands, Open, RecoveryPurposes
  <2> HIDE DEF d
  <2>6. req \in [Workers -> HeldRequest] /\ \A w \in Workers : Fits(db, req[w])
    BY <2>2, HeldRequests
  <2>. QED
    BY <2>2, <2>4, <2>5, <2>6 DEF RecoveryInv, BaseCovers
<1>2. RecoveryInv /\ [RecoveryNext]_recoveryVars => RecoveryInv'
  BY RecoveryStep, RecoveryStutters
<1>. QED
  BY <1>1, <1>2, PTL DEF RecoverySpec

\* create_user_session: nobody holds a live normal session while a recovery is
\* authorised or under way, whatever login was verified before the ticket.
THEOREM RecoveryExcludesLogin == RecoverySpec => []Exclusive
<1>1. RecoveryInv => Exclusive
  BY DEF RecoveryInv, Exclusive, NoNormal
<1>. QED
  BY <1>1, RecoveryInvariance, PTL

\* recovery_complete: the step that finishes a recovery leaves no usable factor
\* but those it staged, and those of an enrolment the ticket overtook.
THEOREM OnlyStagedRemain == RecoverySpec => RecoveryReplaces
<1>1. RecoveryInv /\ [RecoveryNext]_recoveryVars => [Replaced]_recoveryVars
  BY RecoveryStep
<1>. QED
  BY <1>1, RecoveryInvariance, PTL DEF RecoverySpec, RecoveryReplaces, Replaced

==============================================================================
