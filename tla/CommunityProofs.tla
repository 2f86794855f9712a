--------------------------- MODULE CommunityProofs ---------------------------
(***************************************************************************)
(* Machine-checked proofs about what people write through the site: the    *)
(* retried writes of applications, the live stream of a page, what         *)
(* followers are told of a post, the site settings, the files of a theme,  *)
(* comments and their moderation; for any number of calls, connections,    *)
(* requests and processes.                                                 *)
(***************************************************************************)
EXTENDS ApiWrites, LiveSocket, Content, Settings, ThemeFiles, Comments, FiniteSetTheorems, TLAPS

-----------------------------------------------------------------------------
(***************************************************************************)
(* Retried writes: the inductive invariant.                                *)
(***************************************************************************)
AllNames == {"none", "one", "another"}

Ask      == [kind: Kinds, body: Bodies, name: AllNames, keyed: BOOLEAN]
Receipt  == [kind: Kinds, body: Bodies, id: Nat, expired: BOOLEAN]
Resource == [kind: Kinds, body: Bodies, name: AllNames, there: BOOLEAN, keyed: BOOLEAN, life: Nat]

ApiTypes ==
  /\ receipt \in Receipt \union {NoReceipt}
  /\ resources \in Seq(Resource)
  /\ calls \in [Calls -> Ask \union {NoAsk}]
  /\ replies \subseteq [ask: Ask, id: Nat, life: Nat]
  /\ life \in Nat

\* Nothing was made with the key before it has a receipt, nothing since it
\* expired, and while it lives its receipt names the one thing that is there.
ReceiptNames ==
  /\ receipt = NoReceipt => \A i \in Ids : ~resources[i].keyed
  /\ receipt # NoReceipt =>
       /\ receipt.id \in Ids
       /\ resources[receipt.id].kind = receipt.kind
       /\ resources[receipt.id].body = receipt.body
       /\ receipt.expired => \A i \in Ids : resources[i].keyed => resources[i].life < life
       /\ ~receipt.expired =>
            \A i \in Ids : resources[i].keyed /\ Living(i) /\ i # receipt.id =>
              resources[i].life < life
  /\ \A i \in Ids : resources[i].life <= life

LivingDiffer ==
  \A i, j \in Ids : /\ Living(i) /\ Living(j) /\ i # j
                    /\ resources[i].keyed /\ resources[j].keyed
                    => resources[i].life # resources[j].life

RepliesName ==
  \A a \in replies : /\ a.id \in Ids
                     /\ resources[a.id].kind = a.ask.kind /\ resources[a.id].body = a.ask.body

ApiInv == ApiTypes /\ ReceiptNames /\ LivingDiffer /\ RepliesName

-----------------------------------------------------------------------------
\* The receipt of a key is told from none by its kind.
LEMMA ReceiptKinds ==
  /\ NoReceipt.kind = "none" /\ ~NoReceipt.expired
  /\ \A r \in Receipt : r # NoReceipt
  BY DEF NoReceipt, Receipt, Kinds

\* The handlers append what they make.
LEMMA ApiMade ==
  ASSUME ApiTypes, NEW ask \in Ask, Made(ask)
  PROVE  /\ resources' \in Seq(Resource)
         /\ NextId \in Nat /\ NextId \notin Ids /\ Ids' = Ids \union {NextId}
         /\ \A i \in Ids : resources'[i] = resources[i] /\ (Living(i)' <=> Living(i))
         /\ resources'[NextId] = [kind |-> ask.kind, body |-> ask.body, name |-> ask.name,
                                  there |-> TRUE, keyed |-> ask.keyed, life |-> life]
<1>. DEFINE new == [kind |-> ask.kind, body |-> ask.body, name |-> ask.name,
                    there |-> TRUE, keyed |-> ask.keyed, life |-> life]
<1>1. new \in Resource
  BY DEF ApiTypes, Ask, Resource
<1>2. resources' = Append(resources, new) /\ resources \in Seq(Resource)
  BY DEF Made, ApiTypes
<1>. HIDE DEF new
<1>3. /\ resources' \in Seq(Resource) /\ Len(resources) \in Nat
      /\ Ids = 1..Len(resources) /\ Ids' = 1..(Len(resources) + 1)
      /\ \A i \in Ids : resources'[i] = resources[i]
      /\ resources'[NextId] = new
  BY <1>1, <1>2 DEF Ids, NextId
<1>4. NextId \in Nat /\ NextId \notin Ids /\ Ids' = Ids \union {NextId}
  BY <1>3 DEF NextId
<1>5. \A i \in Ids : Living(i)' <=> Living(i)
  BY <1>3, <1>4 DEF Living
<1>. QED
  BY <1>3, <1>4, <1>5 DEF new

LEMMA ApiRows ==
  ASSUME ApiTypes, NEW i \in Ids
  PROVE  resources[i] \in Resource /\ resources[i].life \in Nat
<1>1. resources \in Seq(Resource)
  BY DEF ApiTypes
<1>2. resources[i] \in Resource
  BY <1>1 DEF Ids
<1>. QED
  BY <1>2 DEF Resource

\* What is made with the key is made when nothing of its life is there.
LEMMA MadeKeeps ==
  ASSUME ApiInv, NEW ask \in Ask, Made(ask), UNCHANGED life,
         calls' \in [Calls -> Ask \union {NoAsk}],
         ask.keyed => \A i \in Ids : resources[i].keyed /\ Living(i) => resources[i].life < life
  PROVE  ApiInv'
<1>. DEFINE new == [kind |-> ask.kind, body |-> ask.body, name |-> ask.name,
                    there |-> TRUE, keyed |-> ask.keyed, life |-> life]
            mine == [kind |-> ask.kind, body |-> ask.body, id |-> NextId, expired |-> FALSE]
<1>1. /\ resources' \in Seq(Resource)
      /\ NextId \in Nat /\ NextId \notin Ids /\ Ids' = Ids \union {NextId}
      /\ \A i \in Ids : resources'[i] = resources[i] /\ (Living(i)' <=> Living(i))
      /\ resources'[NextId] = new
  BY ApiMade DEF ApiInv
<1>2. /\ receipt' = IF ask.keyed THEN mine ELSE receipt
      /\ replies' = IF ask.keyed THEN replies \cup {[ask |-> ask, id |-> NextId, life |-> life]}
                                 ELSE replies
  BY DEF Made
<1>3. mine \in Receipt /\ mine # NoReceipt
  BY <1>1, ReceiptKinds DEF Receipt, Ask
<1>4. /\ new.kind = ask.kind /\ new.body = ask.body /\ new.keyed = ask.keyed /\ new.life = life
      /\ mine.kind = ask.kind /\ mine.body = ask.body /\ mine.id = NextId /\ ~mine.expired
  OBVIOUS
<1>. HIDE DEF new, mine
<1>5. ApiTypes'
  <2>1. receipt' \in Receipt \union {NoReceipt}
    BY <1>2, <1>3 DEF ApiInv, ApiTypes
  <2>2. replies' \subseteq [ask: Ask, id: Nat, life: Nat]
    BY <1>1, <1>2 DEF ApiInv, ApiTypes
  <2>. QED
    BY <1>1, <2>1, <2>2 DEF ApiInv, ApiTypes
<1>6. \A i \in Ids : resources[i] \in Resource /\ resources[i].life \in Nat
  BY ApiRows DEF ApiInv
<1>7. life \in Nat
  BY DEF ApiInv, ApiTypes
<1>8. \A i \in Ids' : resources'[i].life <= life'
  BY <1>1, <1>4, <1>7 DEF ApiInv, ReceiptNames
<1>9. ReceiptNames'
  <2>1. CASE ask.keyed
    <3>1. receipt' = mine
      BY <1>2, <2>1
    <3>. QED
      BY <1>1, <1>3, <1>4, <1>8, <2>1, <3>1 DEF ReceiptNames
  <2>2. CASE ~ask.keyed
    <3>1. receipt' = receipt
      BY <1>2, <2>2
    <3>. QED
      BY <1>1, <1>4, <1>8, <2>2, <3>1 DEF ApiInv, ReceiptNames
  <2>. QED
    BY <2>1, <2>2
<1>10. LivingDiffer'
  <2> SUFFICES ASSUME NEW i \in Ids', NEW j \in Ids', Living(i)', Living(j)', i # j,
                      resources'[i].keyed, resources'[j].keyed
               PROVE  resources'[i].life # resources'[j].life
    BY DEF LivingDiffer
  <2>1. CASE i \in Ids /\ j \in Ids
    BY <1>1, <2>1 DEF ApiInv, LivingDiffer
  <2>2. CASE i = NextId
    <3>1. ask.keyed /\ resources'[i].life = life
      BY <1>1, <1>4, <2>2
    <3>2. j \in Ids
      BY <1>1, <2>2
    <3>3. resources'[j].life < life /\ resources'[j].life \in Nat
      BY <1>1, <1>6, <3>1, <3>2
    <3>. QED
      BY <1>7, <3>1, <3>3
  <2>3. CASE j = NextId
    <3>1. ask.keyed /\ resources'[j].life = life
      BY <1>1, <1>4, <2>3
    <3>2. i \in Ids
      BY <1>1, <2>3
    <3>3. resources'[i].life < life /\ resources'[i].life \in Nat
      BY <1>1, <1>6, <3>1, <3>2
    <3>. QED
      BY <1>7, <3>1, <3>3
  <2>. QED
    BY <1>1, <2>1, <2>2, <2>3
<1>11. RepliesName'
  <2> SUFFICES ASSUME NEW a \in replies'
               PROVE  /\ a.id \in Ids'
                      /\ resources'[a.id].kind = a.ask.kind /\ resources'[a.id].body = a.ask.body
    BY DEF RepliesName
  <2>1. CASE a \in replies
    BY <1>1, <2>1 DEF ApiInv, RepliesName
  <2>2. CASE a = [ask |-> ask, id |-> NextId, life |-> life]
    BY <1>1, <1>4, <2>2
  <2>. QED
    BY <1>2, <2>1, <2>2
<1>. QED
  BY <1>5, <1>9, <1>10, <1>11 DEF ApiInv

\* What only changes where the calls stand.
LEMMA ApiUntouched ==
  ASSUME ApiInv, UNCHANGED <<receipt, resources, replies, life>>,
         calls' \in [Calls -> Ask \union {NoAsk}]
  PROVE  ApiInv'
  BY DEF ApiInv, ApiTypes, ReceiptNames, LivingDiffer, RepliesName, Ids, Living

\* A call commits what it made.
LEMMA CommitsNewStep ==
  ASSUME ApiInv, NEW c \in Calls, CommitsNew(c)
  PROVE  ApiInv'
<1>1. calls[c] \in Ask
  BY DEF CommitsNew, ApiInv, ApiTypes
<1>2. calls' \in [Calls -> Ask \union {NoAsk}] /\ UNCHANGED life /\ Made(calls[c])
  BY DEF CommitsNew, ApiInv, ApiTypes
<1>3. calls[c].keyed => \A i \in Ids : ~resources[i].keyed
  BY DEF CommitsNew, OnlyReceipt, ApiInv, ReceiptNames
<1>. QED
  BY <1>1, <1>2, <1>3, MadeKeeps

\* An answer out of the receipt.
LEMMA AnswersAgainStep ==
  ASSUME ApiInv, NEW ask \in Ask, AnswersAgain(ask)
  PROVE  ApiInv'
<1>. DEFINE new == [ask |-> ask, id |-> receipt.id, life |-> life]
<1>1. /\ receipt # NoReceipt /\ receipt.kind = ask.kind /\ receipt.body = ask.body
      /\ replies' = replies \cup {new}
      /\ UNCHANGED <<receipt, resources, calls, life>>
  BY DEF AnswersAgain, SameRequest
<1>2. /\ receipt.id \in Ids
      /\ resources[receipt.id].kind = ask.kind /\ resources[receipt.id].body = ask.body
  BY <1>1 DEF ApiInv, ReceiptNames
<1>3. receipt.id \in Nat
  BY <1>1 DEF ApiInv, ApiTypes, Receipt
<1>4. new \in [ask: Ask, id: Nat, life: Nat] /\ new.id = receipt.id /\ new.ask = ask
  BY <1>3 DEF ApiInv, ApiTypes
<1>. HIDE DEF new
<1>5. ApiTypes'
  BY <1>1, <1>4 DEF ApiInv, ApiTypes
<1>6. ReceiptNames' /\ LivingDiffer'
  BY <1>1 DEF ApiInv, ReceiptNames, LivingDiffer, Ids, Living
<1>7. RepliesName'
  BY <1>1, <1>2, <1>4 DEF ApiInv, RepliesName, Ids
<1>. QED
  BY <1>5, <1>6, <1>7 DEF ApiInv

\* A receipt that names nothing any more, or that expired, is replaced.
LEMMA MakesAnewStep ==
  ASSUME ApiInv, NEW ask \in Ask, MakesAnew(ask) \/ ReplacesExpired(ask)
  PROVE  ApiInv'
<1>1. /\ Made(ask) /\ UNCHANGED <<calls, life>>
      /\ receipt # NoReceipt
      /\ receipt.expired \/ (~receipt.expired /\ ~Living(receipt.id))
  BY ReceiptKinds DEF MakesAnew, ReplacesExpired
<1>2. calls' \in [Calls -> Ask \union {NoAsk}]
  BY <1>1 DEF ApiInv, ApiTypes
<1>3. \A i \in Ids : resources[i].keyed /\ Living(i) => resources[i].life < life
  BY <1>1 DEF ApiInv, ReceiptNames
<1>. QED
  BY <1>1, <1>2, <1>3, MadeKeeps

\* A day passes.
LEMMA KeyExpiresStep ==
  ASSUME ApiInv, KeyExpires
  PROVE  ApiInv'
<1>1. /\ receipt # NoReceipt /\ ~receipt.expired
      /\ receipt' = [receipt EXCEPT !.expired = TRUE]
      /\ life' = life + 1
      /\ UNCHANGED <<resources, calls, replies>>
  BY DEF KeyExpires
<1>2. receipt \in Receipt /\ life \in Nat
  BY <1>1 DEF ApiInv, ApiTypes
<1>3. /\ receipt' \in Receipt /\ receipt'.expired /\ receipt'.id = receipt.id
      /\ receipt'.kind = receipt.kind /\ receipt'.body = receipt.body
  BY <1>1, <1>2 DEF Receipt
<1>4. receipt' # NoReceipt
  BY <1>3, ReceiptKinds
<1>5. \A i \in Ids : resources[i].life \in Nat /\ resources[i].life <= life
  BY ApiRows DEF ApiInv, ReceiptNames
<1>6. \A i \in Ids : resources[i].life < life + 1 /\ resources[i].life <= life + 1
  BY <1>2, <1>5
<1>7. ApiTypes'
  BY <1>1, <1>2, <1>3 DEF ApiInv, ApiTypes
<1>8. ReceiptNames'
  BY <1>1, <1>3, <1>4, <1>6 DEF ApiInv, ReceiptNames, Ids, Living
<1>9. LivingDiffer' /\ RepliesName'
  BY <1>1 DEF ApiInv, LivingDiffer, RepliesName, Ids, Living
<1>. QED
  BY <1>7, <1>8, <1>9 DEF ApiInv

\* What was made is deleted.
LEMMA ResourceDeletedStep ==
  ASSUME ApiInv, NEW i \in Ids, ResourceDeleted(i)
  PROVE  ApiInv'
<1>1. resources \in Seq(Resource) /\ resources[i] \in Resource
  BY DEF ApiInv, ApiTypes, Ids
<1>. DEFINE new == [resources[i] EXCEPT !.there = FALSE]
<1>2. /\ new \in Resource /\ ~new.there /\ new.kind = resources[i].kind
      /\ new.body = resources[i].body /\ new.keyed = resources[i].keyed
      /\ new.life = resources[i].life
  BY <1>1 DEF Resource
<1>3. /\ resources' = [resources EXCEPT ![i] = new]
      /\ UNCHANGED <<receipt, calls, replies, life>>
  BY DEF ResourceDeleted
<1>. HIDE DEF new
<1>4. resources' \in Seq(Resource) /\ Ids' = Ids
  BY <1>1, <1>2, <1>3 DEF Ids
<1>5. resources'[i] = new /\ \A j \in Ids : j # i => resources'[j] = resources[j]
  BY <1>1, <1>3 DEF Ids
<1>6. \A j \in Ids : /\ Living(j)' => Living(j)
                     /\ resources'[j].kind = resources[j].kind
                     /\ resources'[j].body = resources[j].body
                     /\ resources'[j].keyed = resources[j].keyed
                     /\ resources'[j].life = resources[j].life
  BY <1>2, <1>4, <1>5 DEF Living
<1>7. ApiTypes'
  BY <1>3, <1>4 DEF ApiInv, ApiTypes
<1>8. ReceiptNames'
  BY <1>3, <1>4, <1>6 DEF ApiInv, ReceiptNames
<1>9. LivingDiffer' /\ RepliesName'
  BY <1>3, <1>4, <1>6 DEF ApiInv, LivingDiffer, RepliesName
<1>. QED
  BY <1>7, <1>8, <1>9 DEF ApiInv

LEMMA ApiStepInv ==
  ASSUME ApiInv, [ApiNext]_apiVars
  PROVE  ApiInv'
<1>1. CASE UNCHANGED apiVars
  BY <1>1, ApiUntouched DEF apiVars, ApiInv, ApiTypes
<1>2. ASSUME NEW kind \in Kinds, Writes(kind) PROVE ApiInv'
  <2>1. PICK body \in Bodies, name \in Names(kind), keyed \in BOOLEAN :
          LET ask == [kind |-> kind, body |-> body, name |-> name, keyed |-> keyed] IN
          \/ \E c \in Calls : FindsNone(c, ask)
          \/ AnswersAgain(ask) \/ MakesAnew(ask) \/ ReplacesExpired(ask)
    BY <1>2 DEF Writes
  <2>. DEFINE ask == [kind |-> kind, body |-> body, name |-> name, keyed |-> keyed]
  <2>2. ask \in Ask
    BY DEF Ask, Names, AllNames
  <2>. HIDE DEF ask
  <2>3. ASSUME NEW c \in Calls, FindsNone(c, ask) PROVE ApiInv'
    <3>1. calls' \in [Calls -> Ask \union {NoAsk}]
      BY <2>2, <2>3 DEF FindsNone, ApiInv, ApiTypes
    <3>. QED
      BY <2>3, <3>1, ApiUntouched DEF FindsNone
  <2>4. CASE AnswersAgain(ask)
    BY <2>2, <2>4, AnswersAgainStep
  <2>5. CASE MakesAnew(ask) \/ ReplacesExpired(ask)
    BY <2>2, <2>5, MakesAnewStep
  <2>. QED
    BY <2>1, <2>3, <2>4, <2>5 DEF ask
<1>3. ASSUME NEW c \in Calls, RolledBack(c) PROVE ApiInv'
  <2>1. calls' \in [Calls -> Ask \union {NoAsk}]
    BY <1>3 DEF RolledBack, ApiInv, ApiTypes
  <2>. QED
    BY <1>3, <2>1, ApiUntouched DEF RolledBack
<1>. QED
  BY <1>1, <1>2, <1>3, CommitsNewStep, ResourceDeletedStep, KeyExpiresStep
  DEF ApiNext, OauthPostWrite, OauthCommentWrite, OauthMediaUpload, Kinds

\* The receipt of a key names the one thing made with it that is there, and
\* nothing else of its life is.
THEOREM ApiInvariance == ApiSpec => []ApiInv
<1>1. ApiInit => ApiInv
  BY ReceiptKinds
  DEF ApiInit, ApiInv, ApiTypes, ReceiptNames, LivingDiffer, RepliesName, Ids, Living
<1>2. ApiInv /\ [ApiNext]_apiVars => ApiInv'
  BY ApiStepInv
<1>. QED
  BY <1>1, <1>2, PTL DEF ApiSpec

\* A call repeated with its Idempotency-Key, however often and however
\* concurrently, makes one thing until the key expires, and is answered with
\* a thing of its type made from the bytes it sent.
THEOREM KeyMakesOne == ApiSpec => []OncePerKey
<1>1. ApiInv => OncePerKey
  BY DEF ApiInv, LivingDiffer, RepliesName, OncePerKey
<1>. QED
  BY <1>1, ApiInvariance, PTL

-----------------------------------------------------------------------------
(***************************************************************************)
(* The live stream: the inductive invariant.                               *)
(***************************************************************************)
Stream == [phase: {"closed", "hello", "ready", "known", "allowed", "sending"}, cursor: Nat,
           page: SUBSET Nat, sent: SUBSET Nat]

\* What a connection holds was committed, and all but one page of it before the
\* session ended; none of it was not, between the check of a round and its SELECT.
LiveInv ==
  /\ drawn \in Nat
  /\ writing \subseteq 1..drawn /\ events \subseteq 1..drawn
  /\ writing \cap events = {}
  /\ afterEnd \subseteq events
  /\ session => afterEnd = {}
  /\ socket \in [Sockets -> Stream]
  /\ \A k \in Sockets : /\ socket[k].page \subseteq events /\ socket[k].sent \subseteq events
                        /\ Cardinality(LateOn(k)) <= Page
                        /\ socket[k].phase \in {"known", "allowed"} =>
                             socket[k].sent \cap afterEnd = {}

-----------------------------------------------------------------------------
\* A connection that is written leaves the others alone.
LEMMA SocketWritten ==
  ASSUME LiveInv, NEW k \in Sockets, NEW new \in Stream,
         socket' = [socket EXCEPT ![k] = new],
         UNCHANGED <<drawn, writing, events, session, afterEnd>>,
         new.page \subseteq events, new.sent \subseteq events,
         Cardinality((new.page \cup new.sent) \cap afterEnd) <= Page,
         new.phase \in {"known", "allowed"} => new.sent \cap afterEnd = {}
  PROVE  LiveInv'
<1>1. socket'[k] = new /\ \A j \in Sockets : j # k => socket'[j] = socket[j]
  BY DEF LiveInv
<1>2. socket' \in [Sockets -> Stream]
  BY DEF LiveInv
<1>. QED
  BY <1>1, <1>2 DEF LiveInv, LateOn

LEMMA ClosedStream ==
  /\ Closed \in Stream /\ Closed.page = {} /\ Closed.sent = {}
  /\ Closed.phase = "closed"
  /\ \A seen \in Nat : /\ StartAt(seen) \in Stream /\ StartAt(seen).phase = "ready"
                       /\ StartAt(seen).page = {} /\ StartAt(seen).sent = {}
  BY DEF Closed, StartAt, Stream

LEMMA EmptyIsSmall == Cardinality(({} \cup {}) \cap afterEnd) <= Page
<1>1. ({} \cup {}) \cap afterEnd = {}
  OBVIOUS
<1>. QED
  BY <1>1, FS_EmptySet, LiveAssumption

\* Part of a page, and of a finite set, is no larger.
LEMMA LateShrinks ==
  ASSUME LiveInv, NEW S, NEW T, S \subseteq T, T \subseteq events, Cardinality(T) <= Page
  PROVE  Cardinality(S) <= Page
<1>1. IsFiniteSet(T)
  <2>1. IsFiniteSet(1..drawn)
    BY FS_Interval DEF LiveInv
  <2>. QED
    BY <2>1, FS_Subset DEF LiveInv
<1>2. Cardinality(S) \in Nat /\ Cardinality(T) \in Nat /\ Cardinality(S) <= Cardinality(T)
  BY <1>1, FS_Subset, FS_CardinalityType
<1>. QED
  BY <1>2, LiveAssumption

\* An event that commits is on no connection yet.
LEMMA EventCommitsStep ==
  ASSUME LiveInv, NEW e \in writing, EventCommits(e)
  PROVE  LiveInv'
<1>1. /\ writing' = writing \ {e} /\ events' = events \union {e}
      /\ afterEnd' = IF session THEN afterEnd ELSE afterEnd \union {e}
      /\ UNCHANGED <<drawn, session, socket>>
  BY DEF EventCommits
<1>2. e \notin events
  BY DEF LiveInv
<1>3. ASSUME NEW k \in Sockets
      PROVE  /\ socket[k].page \subseteq events' /\ socket[k].sent \subseteq events'
             /\ LateOn(k)' = LateOn(k)
             /\ socket[k].sent \cap afterEnd' = socket[k].sent \cap afterEnd
  BY <1>1, <1>2 DEF LiveInv, LateOn
<1>4. /\ writing' \subseteq 1..drawn /\ events' \subseteq 1..drawn
      /\ writing' \cap events' = {} /\ afterEnd' \subseteq events'
      /\ session => afterEnd' = {}
  BY <1>1 DEF LiveInv
<1>. QED
  BY <1>1, <1>3, <1>4 DEF LiveInv

\* A check passes only before the end, so that nothing sent is late.
LEMMA SocketChecksStep ==
  ASSUME LiveInv, NEW k \in Sockets, SocketChecks(k) \/ SocketAsks(k)
  PROVE  LiveInv'
<1>1. PICK phase \in {"known", "allowed"} :
        /\ socket' = [socket EXCEPT ![k] = [socket[k] EXCEPT !.phase = phase]]
        /\ UNCHANGED <<drawn, writing, events, session, afterEnd>>
  BY DEF SocketChecks, SocketAsks
<1>. DEFINE new == [socket[k] EXCEPT !.phase = phase]
<1>2. socket[k] \in Stream
  BY DEF LiveInv
<1>3. new \in Stream /\ new.page = socket[k].page /\ new.sent = socket[k].sent
  BY <1>2 DEF Stream
<1>4. socket[k].sent \cap afterEnd = {}
  BY DEF SocketChecks, SessionHolds, SocketAsks, LiveInv
<1>5. socket' = [socket EXCEPT ![k] = new]
  BY <1>1
<1>. HIDE DEF new
<1>. QED
  BY <1>1, <1>3, <1>4, <1>5, SocketWritten DEF LiveInv, LateOn

\* A SELECT returns no more than a page; nothing older was late.
LEMMA SocketSelectsStep ==
  ASSUME LiveInv, NEW k \in Sockets, SocketSelects(k)
  PROVE  LiveInv'
<1>1. PICK P \in SUBSET Due(k) :
        /\ IsPage(P, k)
        /\ socket' = [socket EXCEPT ![k] = [socket[k] EXCEPT !.phase = "sending", !.page = P]]
        /\ UNCHANGED <<drawn, writing, events, session, afterEnd>>
  BY DEF SocketSelects
<1>. DEFINE new == [socket[k] EXCEPT !.phase = "sending", !.page = P]
<1>2. P \subseteq events /\ P \subseteq Nat
  BY DEF Due, LiveInv
<1>3. socket[k] \in Stream
  BY DEF LiveInv
<1>4. new \in Stream /\ new.page = P /\ new.sent = socket[k].sent /\ new.phase = "sending"
  BY <1>2, <1>3 DEF Stream
<1>5. (P \cup socket[k].sent) \cap afterEnd \subseteq P
  BY DEF SocketSelects, LiveInv
<1>6. Cardinality((P \cup socket[k].sent) \cap afterEnd) <= Page
  BY <1>1, <1>2, <1>5, LateShrinks DEF IsPage
<1>7. socket' = [socket EXCEPT ![k] = new]
  BY <1>1
<1>. HIDE DEF new
<1>. QED
  BY <1>1, <1>2, <1>4, <1>6, <1>7, SocketWritten DEF LiveInv

\* What is sent was in the page.
LEMMA SocketSendsStep ==
  ASSUME LiveInv, NEW k \in Sockets, NEW muted \in BOOLEAN, SocketSends(k, muted)
  PROVE  LiveInv'
<1>1. PICK e \in socket[k].page :
        /\ socket' = [socket EXCEPT ![k] =
             [socket[k] EXCEPT !.sent = IF muted THEN socket[k].sent ELSE socket[k].sent \cup {e},
                               !.cursor = e, !.page = socket[k].page \ {e}]]
        /\ UNCHANGED <<drawn, writing, events, session, live, ticket, afterEnd>>
  BY DEF SocketSends
<1>. DEFINE out == IF muted THEN socket[k].sent ELSE socket[k].sent \cup {e}
            new == [socket[k] EXCEPT !.sent = out, !.cursor = e, !.page = socket[k].page \ {e}]
<1>2. socket[k] \in Stream
  BY DEF LiveInv
<1>3. e \in Nat /\ e \in events
  BY <1>2 DEF LiveInv, Stream
<1>4. /\ out \subseteq Nat /\ out \subseteq events
      /\ (socket[k].page \ {e}) \cup out \subseteq socket[k].page \cup socket[k].sent
  BY <1>2, <1>3 DEF LiveInv, Stream
<1>5. socket' = [socket EXCEPT ![k] = new]
  BY <1>1
<1>. HIDE DEF out
<1>6. new \in Stream /\ new.page = socket[k].page \ {e} /\ new.sent = out /\ new.phase = "sending"
  BY <1>2, <1>3, <1>4 DEF Stream, SocketSends
<1>. HIDE DEF new
<1>7. new.page \subseteq events
  BY <1>6 DEF LiveInv
<1>8. Cardinality((new.page \cup new.sent) \cap afterEnd) <= Page
  <2>1. /\ (new.page \cup new.sent) \cap afterEnd \subseteq LateOn(k)
        /\ LateOn(k) \subseteq events /\ Cardinality(LateOn(k)) <= Page
    BY <1>4, <1>6 DEF LiveInv, LateOn
  <2>. QED
    BY <2>1, LateShrinks
<1>. QED
  BY <1>1, <1>4, <1>5, <1>6, <1>7, <1>8, SocketWritten

LEMMA LiveStepInv ==
  ASSUME LiveInv, [LiveNext]_liveVars
  PROVE  LiveInv'
<1>1. CASE UNCHANGED liveVars
  BY <1>1 DEF liveVars, LiveInv, LateOn
<1>2. CASE EventStarts
  <2>1. /\ drawn' = drawn + 1 /\ writing' = writing \cup {drawn + 1}
        /\ UNCHANGED <<events, session, socket, afterEnd>>
    BY <1>2 DEF EventStarts
  <2>2. /\ drawn' \in Nat /\ writing' \subseteq 1..drawn' /\ events \subseteq 1..drawn'
        /\ drawn + 1 \notin events
    BY <2>1 DEF LiveInv
  <2>. QED
    BY <2>1, <2>2 DEF LiveInv, LateOn
<1>3. CASE SessionEnds
  BY <1>3 DEF SessionEnds, LiveInv, LateOn
<1>4. CASE LiveSwitched \/ \E t \in Tickets : IssueTicket(t) \/ TicketLapses(t)
  <2>1. UNCHANGED <<drawn, writing, events, session, socket, afterEnd>>
    BY <1>4 DEF LiveSwitched, IssueTicket, TicketLapses
  <2>. QED
    BY <2>1 DEF LiveInv, LateOn
<1>5. ASSUME NEW k \in Sockets, SocketOpens(k) PROVE LiveInv'
  <2>. DEFINE new == [socket[k] EXCEPT !.phase = "hello"]
  <2>1. socket[k] \in Stream
    BY DEF LiveInv
  <2>2. /\ new \in Stream /\ new.page = socket[k].page /\ new.sent = socket[k].sent
        /\ new.phase = "hello"
    BY <2>1 DEF Stream
  <2>3. /\ socket' = [socket EXCEPT ![k] = new]
        /\ UNCHANGED <<drawn, writing, events, session, afterEnd>>
    BY <1>5 DEF SocketOpens
  <2>. HIDE DEF new
  <2>. QED
    BY <2>2, <2>3, SocketWritten DEF LiveInv, LateOn
<1>6. ASSUME NEW k \in Sockets, SocketWaits(k) PROVE LiveInv'
  <2>. DEFINE new == [socket[k] EXCEPT !.phase = "ready"]
  <2>1. socket[k] \in Stream
    BY DEF LiveInv
  <2>2. /\ new \in Stream /\ new.page = socket[k].page /\ new.sent = socket[k].sent
        /\ new.phase = "ready"
    BY <2>1 DEF Stream
  <2>3. /\ socket' = [socket EXCEPT ![k] = new]
        /\ UNCHANGED <<drawn, writing, events, session, afterEnd>>
    BY <1>6 DEF SocketWaits
  <2>. HIDE DEF new
  <2>. QED
    BY <2>2, <2>3, SocketWritten DEF LiveInv, LateOn
<1>7. ASSUME NEW k \in Sockets, SocketCloses(k) PROVE LiveInv'
  BY <1>7, ClosedStream, EmptyIsSmall, SocketWritten DEF SocketCloses
<1>8. ASSUME NEW k \in Sockets, NEW t \in Tickets, NEW seen \in {0} \cup events,
             SocketAuthenticates(k, t, seen)
      PROVE  LiveInv'
  <2>1. seen \in Nat
    BY <1>8 DEF LiveInv
  <2>2. /\ socket' = [socket EXCEPT ![k] = StartAt(seen)]
        /\ UNCHANGED <<drawn, writing, events, session, afterEnd>>
    BY <1>8 DEF SocketAuthenticates
  <2>. QED
    BY <2>1, <2>2, ClosedStream, EmptyIsSmall, SocketWritten
<1>. QED
  BY <1>1, <1>2, <1>3, <1>4, <1>5, <1>6, <1>7, <1>8,
     EventCommitsStep, SocketChecksStep, SocketSelectsStep, SocketSendsStep DEF LiveNext

\* What a connection has read or sent was committed, and only its last page can
\* have committed after the session ended.
THEOREM LiveInvariance == LiveSpec => []LiveInv
<1>1. LiveInit => LiveInv
  BY ClosedStream, EmptyIsSmall DEF LiveInit, LiveInv, LateOn
<1>2. LiveInv /\ [LiveNext]_liveVars => LiveInv'
  BY LiveStepInv
<1>. QED
  BY <1>1, <1>2, PTL DEF LiveSpec

\* Of the events committed after a logout a connection of that session gets no
\* more than the one page whose round had checked the session before.
THEOREM LogoutIsFinal == LiveSpec => []LogoutStopsSocket
<1>1. LiveInv => LogoutStopsSocket
  BY DEF LiveInv, LogoutStopsSocket
<1>. QED
  BY <1>1, LiveInvariance, PTL

-----------------------------------------------------------------------------
(***************************************************************************)
(* Posts: the inductive invariant.                                         *)
(***************************************************************************)
PostRow  == [there: BOOLEAN, status: PostStatuses, view: Views, text: Nat,
             author: Writers \union {"none"}]
ReadRow  == [op: {"none", "edit", "delete", "api", "tick"}, copy: PostRow, told: BOOLEAN,
             stamp: Nat, stale: BOOLEAN]
Words    == {"none", "Create", "Update", "Delete"}

ContentTypes ==
  /\ post \in PostRow
  /\ told \in BOOLEAN
  /\ keys \subseteq {"revision", "delete", "stamp"} \X Nat
  /\ revs \in Nat /\ stamp \in Nat /\ second \in Nat /\ writes \in Nat
  /\ request \in [PostRequests -> ReadRow]

\* Revisions are numbered once.
RevisionKeys == \A n \in Nat : <<"revision", n>> \in keys => n <= revs

\* What a request read that nobody has written over since.
CopyHolds ==
  \A r \in PostRequests : request[r].op # "none" /\ ~request[r].stale =>
    IF request[r].op = "tick" THEN request[r].copy.text = post.text
                              ELSE request[r].copy = post /\ request[r].told = told

NothingYet == writes = 0 => ~told /\ ~post.there /\ keys = {}

ContentInv == ContentTypes /\ RevisionKeys /\ CopyHolds /\ NothingYet /\ FollowersTold

-----------------------------------------------------------------------------
KeySet == {"revision", "delete", "stamp"} \X Nat

\* What a change of the post keeps, if its word is the post's or it has a reason.
LEMMA CommitsKeep ==
  ASSUME ContentInv, NEW r, NEW row \in PostRow, NEW why, Commits(r, row, why),
         revs' \in Nat, told' \in BOOLEAN, keys' \subseteq KeySet, RevisionKeys',
         r \in PostRequests => (request[r].op = "tick" => row.text = post.text),
         why = {} /\ excuses = {} => Current(row, told', said')
  PROVE  ContentInv'
<1>1. /\ writes' = writes + 1 /\ post' = row
      /\ stamp' = IF Touches(row) THEN second ELSE stamp
      /\ excuses' = IF Current(row, told', said') THEN {} ELSE excuses \cup why
      /\ UNCHANGED second
  BY DEF Commits
<1>2. FollowersTold'
  <2>1. Current(row, told', said') \/ excuses' = excuses \union why
    BY <1>1
  <2>2. Current(post', told', said') \/ excuses' # {}
    BY <1>1, <2>1
  <2>. QED
    BY <2>2 DEF FollowersTold, Current
<1>. DEFINE Spared(q) == ~Touches(row) \/ (r \in PostRequests /\ request[r].op = "tick" /\ request[q].op = "tick")
            Stale(q)  == request[q].stale \/ (/\ request[q].op # "none" /\ Touches(row)
                                              /\ ~(r \in PostRequests /\ request[r].op = "tick"
                                                                  /\ request[q].op = "tick"))
<1>3. \A q \in PostRequests :
        request'[q] = IF q = r THEN NoRead ELSE [request[q] EXCEPT !.stale = Stale(q)]
  BY DEF Commits
<1>4. /\ NoRead \in ReadRow /\ NoRead.op = "none"
  BY DEF NoRead, ReadRow, NoPost, PostRow, PostStatuses, Views
<1>5. ASSUME NEW q \in PostRequests, q # r
      PROVE  /\ request'[q] \in ReadRow /\ request'[q].op = request[q].op
             /\ request'[q].copy = request[q].copy /\ request'[q].told = request[q].told
             /\ request[q].op # "none" /\ ~request'[q].stale => ~request[q].stale /\ Spared(q)
  <2>1. request[q] \in ReadRow
    BY DEF ContentInv, ContentTypes
  <2>2. request'[q] = [request[q] EXCEPT !.stale = Stale(q)]
    BY <1>3, <1>5
  <2>3. Stale(q) \in BOOLEAN
    BY <2>1 DEF ReadRow
  <2>4. request[q].op # "none" /\ ~Stale(q) => ~request[q].stale /\ Spared(q)
    OBVIOUS
  <2>. HIDE DEF Stale, Spared
  <2>5. /\ request'[q] \in ReadRow /\ request'[q].op = request[q].op
        /\ request'[q].copy = request[q].copy /\ request'[q].told = request[q].told
        /\ request'[q].stale = Stale(q)
    BY <2>1, <2>2, <2>3 DEF ReadRow
  <2>. QED
    BY <2>4, <2>5
<1>6. request' \in [PostRequests -> ReadRow]
  <2>1. \A q \in PostRequests : request'[q] \in ReadRow
    BY <1>3, <1>4, <1>5
  <2>2. request' = [q \in PostRequests |-> request'[q]]
    BY DEF Commits
  <2>. QED
    BY <2>1, <2>2
<1>7. ContentTypes'
  BY <1>1, <1>6 DEF ContentInv, ContentTypes, KeySet
<1>8. CopyHolds'
  <2> SUFFICES ASSUME NEW q \in PostRequests, request'[q].op # "none", ~request'[q].stale
               PROVE  IF request'[q].op = "tick" THEN request'[q].copy.text = post'.text
                                                 ELSE request'[q].copy = post' /\ request'[q].told = told'
    BY DEF CopyHolds
  <2>1. q # r
    BY <1>3, <1>4
  <2>2. /\ request'[q].op = request[q].op /\ request'[q].copy = request[q].copy
        /\ request'[q].told = request[q].told /\ ~request[q].stale /\ Spared(q)
    BY <1>5, <2>1
  <2>3. IF request[q].op = "tick" THEN request[q].copy.text = post.text
                                  ELSE request[q].copy = post /\ request[q].told = told
    BY <2>2 DEF ContentInv, CopyHolds
  <2>. QED
    BY <1>1, <2>2, <2>3 DEF Touches
<1>9. NothingYet'
  BY <1>1 DEF ContentInv, ContentTypes, NothingYet
<1>. QED
  BY <1>2, <1>7, <1>8, <1>9 DEF ContentInv

\* enqueue_activity, and saying nothing.
LEMMA QueuesKeep ==
  ASSUME ContentInv, NEW word, NEW key \in KeySet, Queues(word, key),
         revs' \in Nat, revs' >= revs, \A n \in Nat : key = <<"revision", n>> => n <= revs'
  PROVE  told' \in BOOLEAN /\ keys' \subseteq KeySet /\ RevisionKeys'
<1>1. /\ keys' \in {keys, keys \cup {key}}
      /\ told' = (told \/ word.type \in {"Create", "Update"})
  BY DEF Queues
<1>2. told' \in BOOLEAN
  BY <1>1 DEF ContentInv, ContentTypes
<1>3. keys \subseteq KeySet /\ revs \in Nat
  BY DEF ContentInv, ContentTypes, KeySet
<1>4. RevisionKeys'
  <2> SUFFICES ASSUME NEW n \in Nat, <<"revision", n>> \in keys' PROVE n <= revs'
    BY DEF RevisionKeys
  <2>1. CASE <<"revision", n>> \in keys
    <3>1. n <= revs
      BY <2>1 DEF ContentInv, RevisionKeys
    <3>. QED
      BY <1>3, <3>1
  <2>2. CASE <<"revision", n>> = key
    BY <2>2
  <2>. QED
    BY <1>1, <2>1, <2>2
<1>. QED
  BY <1>1, <1>2, <1>3, <1>4

LEMMA NothingKeeps ==
  ASSUME ContentInv, Nothing, revs' \in Nat, revs' >= revs
  PROVE  told' \in BOOLEAN /\ keys' \subseteq KeySet /\ RevisionKeys'
<1>1. told' = told /\ keys' = keys
  BY DEF Nothing
<1>2. revs \in Nat /\ told \in BOOLEAN /\ keys \subseteq KeySet
  BY DEF ContentInv, ContentTypes, KeySet
<1>3. \A n \in Nat : <<"revision", n>> \in keys => n <= revs
  BY DEF ContentInv, RevisionKeys
<1>4. RevisionKeys'
  BY <1>1, <1>2, <1>3 DEF RevisionKeys
<1>. QED
  BY <1>1, <1>2, <1>4

\* A word about a public post is its own.
LEMMA WordIsCurrent ==
  ASSUME NEW row \in PostRow, IsPublic(row), NEW type \in {"Create", "Update"}, NEW key,
         key \notin keys, Queues(PostActivity(type, row, row.text), key)
  PROVE  Current(row, told', said')
<1>. DEFINE word == [type |-> type, text |-> row.text, by |-> row.author, of |-> row.author]
<1>1. PostActivity(type, row, row.text) = word
  BY DEF PostActivity
<1>2. word # NoWord
  BY DEF NoWord
<1>3. said' = word
  BY <1>1, <1>2 DEF Queues
<1>4. said'.type = type /\ said'.text = row.text /\ said'.by = row.author
  BY <1>3
<1>. QED
  BY <1>4 DEF Current

LEMMA SilentWord ==
  ASSUME NEW row, ~IsPublic(row), NEW type, NEW text, NEW key,
         Queues(PostActivity(type, row, text), key)
  PROVE  said' = said /\ (told' <=> told)
  BY DEF PostActivity, Queues, NoWord

\* A Delete without an excuse is the newest word, by whoever announced the post.
LEMMA DeleteIsCurrent ==
  ASSUME ContentInv, NEW row, NEW after, ~IsPublic(after), NEW key,
         NewAuthor(row, told) = {}, SameSecond(PostDelete(row, told), key) = {},
         Queues(PostDelete(row, told), key)
  PROVE  Current(after, told', said')
<1>. DEFINE word == [type |-> "Delete", text |-> 0, by |-> row.author, of |-> said.by]
<1>1. told \in BOOLEAN
  BY DEF ContentInv, ContentTypes
<1>2. CASE told
  <2>1. PostDelete(row, told) = word /\ row.author = said.by
    BY <1>2 DEF PostDelete, NewAuthor
  <2>2. word # NoWord
    BY DEF NoWord
  <2>3. said' = word
    BY <2>1, <2>2 DEF Queues, SameSecond
  <2>4. said'.type = "Delete" /\ said'.by = said'.of
    BY <2>1, <2>3
  <2>. QED
    BY <2>4 DEF Current
<1>3. CASE ~told
  <2>1. PostDelete(row, told) = NoWord
    BY <1>3 DEF PostDelete
  <2>2. told' = FALSE
    BY <1>1, <1>3, <2>1 DEF Queues, NoWord
  <2>. QED
    BY <2>2 DEF Current
<1>. QED
  BY <1>1, <1>2, <1>3

\* The form's save of a post that nobody else has changed.
LEMMA PostEditSaveStep ==
  ASSUME ContentInv, NEW r \in PostRequests, NEW status \in PostStatuses, NEW view \in Views,
         NEW text \in Nat, PostEditSave(r, status, view, text)
  PROVE  ContentInv'
<1>. DEFINE copy == request[r].copy
            row  == Written(copy, status, view, text)
            mine == [copy EXCEPT !.status = status, !.view = view, !.text = text]
            was  == WasPublic(copy, view)
            key  == <<"revision", revs + 1>>
            gone == <<"delete", request[r].stamp>>
            type == IF was THEN "Update" ELSE "Create"
<1>1. request[r] \in ReadRow /\ request[r].op = "edit" /\ revs' = revs + 1 /\ revs \in Nat
  BY DEF PostEditSave, ContentInv, ContentTypes
<1>2. copy \in PostRow /\ request[r].stamp \in Nat /\ post \in PostRow
  BY <1>1 DEF ReadRow, ContentInv, ContentTypes
<1>3. row \in PostRow
  BY <1>2 DEF PostRow, Written
<1>4. revs' \in Nat /\ revs' >= revs /\ key \in KeySet /\ gone \in KeySet
  BY <1>1, <1>2 DEF KeySet
<1>5. key \notin keys
  BY <1>1 DEF ContentInv, RevisionKeys
<1>6. ~request[r].stale => copy = post
  BY <1>1 DEF ContentInv, CopyHolds
<1>7. copy = post => row = mine
  <2>1. ASSUME copy = post PROVE row = mine
    BY <1>2, <2>1 DEF Written, PostRow
  <2>. QED
    BY <2>1
<1>8. mine \in PostRow /\ mine.text = text /\ mine.author = copy.author /\ mine.there = copy.there
      /\ mine.status = status /\ mine.view = view
  BY <1>2 DEF PostRow
<1>9. Overlap(r) = {} => ~request[r].stale
  BY DEF Overlap
<1>10. \/ /\ was /\ ~IsPublic(mine)
          /\ Queues(PostDelete(row, request[r].told), gone)
          /\ Commits(r, row, Overlap(r) \cup NewAuthor(row, request[r].told)
                                 \cup SameSecond(PostDelete(row, request[r].told), gone))
       \/ /\ IsPublic(mine) /\ (~was \/ text # copy.text)
          /\ Queues(PostActivity(type, row, text), key)
          /\ Commits(r, row, Overlap(r))
       \/ /\ ~(was /\ ~IsPublic(mine)) /\ ~(IsPublic(mine) /\ (~was \/ text # copy.text))
          /\ Nothing
          /\ Commits(r, row, Overlap(r))
  BY DEF PostEditSave
<1>11. type \in {"Create", "Update"}
  OBVIOUS
<1>12. was <=> IsPublic(copy)
  BY DEF WasPublic
<1>13. r \in PostRequests => (request[r].op = "tick" => row.text = post.text)
  BY <1>1
<1>. HIDE DEF row, mine, was, key, gone, type, copy
<1>14. CASE /\ was /\ ~IsPublic(mine)
            /\ Queues(PostDelete(row, request[r].told), gone)
            /\ Commits(r, row, Overlap(r) \cup NewAuthor(row, request[r].told)
                                 \cup SameSecond(PostDelete(row, request[r].told), gone))
  <2>1. \A n \in Nat : gone = <<"revision", n>> => n <= revs'
    BY DEF gone
  <2>2. told' \in BOOLEAN /\ keys' \subseteq KeySet /\ RevisionKeys'
    BY <1>4, <1>14, <2>1, QueuesKeep
  <2>. DEFINE why == Overlap(r) \cup NewAuthor(row, request[r].told)
                       \cup SameSecond(PostDelete(row, request[r].told), gone)
  <2>3. ASSUME why = {} PROVE Current(row, told', said')
    <3>1. /\ Overlap(r) = {} /\ NewAuthor(row, request[r].told) = {}
          /\ SameSecond(PostDelete(row, request[r].told), gone) = {}
      BY <2>3
    <3>2. row = mine /\ request[r].told = told
      BY <1>1, <1>6, <1>7, <1>9, <3>1 DEF ContentInv, CopyHolds
    <3>. QED
      BY <1>3, <1>14, <3>1, <3>2, DeleteIsCurrent
  <2>4. Commits(r, row, why)
    BY <1>14
  <2>. HIDE DEF why
  <2>. QED
    BY <1>3, <1>4, <1>13, <2>2, <2>3, <2>4, CommitsKeep
<1>15. CASE /\ IsPublic(mine) /\ (~was \/ text # copy.text)
            /\ Queues(PostActivity(type, row, text), key)
            /\ Commits(r, row, Overlap(r))
  <2>1. \A n \in Nat : key = <<"revision", n>> => n <= revs'
    BY <1>1 DEF key
  <2>2. told' \in BOOLEAN /\ keys' \subseteq KeySet /\ RevisionKeys'
    BY <1>4, <1>15, <2>1, QueuesKeep
  <2>3. ASSUME Overlap(r) = {} PROVE Current(row, told', said')
    <3>1. row = mine
      BY <1>6, <1>7, <1>9, <2>3
    <3>2. IsPublic(row) /\ row.text = text
      BY <1>8, <1>15, <3>1
    <3>. QED
      BY <1>3, <1>5, <1>11, <1>15, <3>2, WordIsCurrent
  <2>. QED
    BY <1>3, <1>4, <1>13, <1>15, <2>2, <2>3, CommitsKeep
<1>16. CASE /\ ~(was /\ ~IsPublic(mine)) /\ ~(IsPublic(mine) /\ (~was \/ text # copy.text))
            /\ Nothing
            /\ Commits(r, row, Overlap(r))
  <2>1. told' \in BOOLEAN /\ keys' \subseteq KeySet /\ RevisionKeys'
    BY <1>4, <1>16, NothingKeeps
  <2>2. ASSUME Overlap(r) = {}, excuses = {} PROVE Current(row, told', said')
    <3>1. row = mine /\ copy = post
      BY <1>6, <1>7, <1>9, <2>2
    <3>2. Current(post, told, said)
      BY <2>2 DEF ContentInv, FollowersTold
    <3>3. told' = told /\ said' = said
      BY <1>16 DEF Nothing
    <3>4. IsPublic(row) <=> IsPublic(post)
      BY <1>12, <1>16, <3>1
    <3>5. IsPublic(row) => row.text = post.text /\ row.author = post.author
      BY <1>8, <1>16, <3>1
    <3>. QED
      BY <3>2, <3>3, <3>4, <3>5 DEF Current
  <2>. QED
    BY <1>3, <1>4, <1>13, <1>16, <2>1, <2>2, CommitsKeep
<1>. QED
  BY <1>10, <1>14, <1>15, <1>16

\* A delete, by the form.
LEMMA PostEditDeleteStep ==
  ASSUME ContentInv, NEW r \in PostRequests, PostEditDelete(r)
  PROVE  ContentInv'
<1>. DEFINE gone == <<"delete", request[r].stamp>>
            why == Overlap(r) \cup NewAuthor(post, request[r].told)
                     \cup SameSecond(PostDelete(post, request[r].told), gone)
<1>1. /\ request[r].op = "delete" /\ UNCHANGED revs
      /\ Queues(PostDelete(post, request[r].told), gone)
      /\ Commits(r, NoPost, why)
  BY DEF PostEditDelete
<1>2. request[r].stamp \in Nat /\ revs \in Nat
  BY DEF ContentInv, ContentTypes, ReadRow
<1>3. gone \in KeySet /\ \A n \in Nat : gone = <<"revision", n>> => n <= revs'
  BY <1>2 DEF KeySet
<1>4. /\ why = {} => /\ Overlap(r) = {} /\ NewAuthor(post, request[r].told) = {}
                     /\ SameSecond(PostDelete(post, request[r].told), gone) = {}
  OBVIOUS
<1>5. NoPost \in PostRow /\ ~IsPublic(NoPost)
  BY DEF NoPost, PostRow, PostStatuses, Views, IsPublic
<1>. HIDE DEF gone, why
<1>6. told' \in BOOLEAN /\ keys' \subseteq KeySet /\ RevisionKeys'
  BY <1>1, <1>2, <1>3, QueuesKeep
<1>7. ASSUME why = {} PROVE Current(NoPost, told', said')
  <2>1. request[r].told = told
    BY <1>1, <1>4, <1>7 DEF Overlap, ContentInv, CopyHolds
  <2>. QED
    BY <1>1, <1>4, <1>5, <1>7, <2>1, DeleteIsCurrent
<1>. QED
  BY <1>1, <1>2, <1>5, <1>6, <1>7, CommitsKeep

\* What says nothing has a reason.
LEMMA SilentStep ==
  ASSUME ContentInv, NEW r, NEW row \in PostRow, NEW why, why # {}, Nothing, UNCHANGED revs,
         Commits(r, row, why), r \in PostRequests => request[r].op # "tick"
  PROVE  ContentInv'
<1>1. revs' \in Nat /\ revs' >= revs
  BY DEF ContentInv, ContentTypes
<1>2. told' \in BOOLEAN /\ keys' \subseteq KeySet /\ RevisionKeys'
  BY <1>1, NothingKeeps
<1>. QED
  BY <1>1, <1>2, CommitsKeep

\* The first save makes a draft.
LEMMA PostNewSaveStep ==
  ASSUME ContentInv, NEW a \in Writers, PostNewSave(a)
  PROVE  ContentInv'
<1>. DEFINE row == [NoPost EXCEPT !.there = TRUE, !.text = 1, !.author = a]
<1>1. /\ writes = 0 /\ revs' = 1 /\ Nothing /\ Commits("none", row, {})
  BY DEF PostNewSave, Direct
<1>2. NoPost \in PostRow /\ NoPost.status = "draft"
  BY DEF NoPost, PostRow, PostStatuses, Views
<1>3. row \in PostRow /\ row.status = "draft"
  BY <1>2 DEF PostRow
<1>. HIDE DEF row
<1>4. "none" \notin PostRequests
  BY ContentAssumption
<1>5. ~told /\ keys = {}
  BY <1>1 DEF ContentInv, NothingYet
<1>6. revs' \in Nat
  BY <1>1
<1>7. told' \in BOOLEAN /\ keys' \subseteq KeySet /\ RevisionKeys'
  BY <1>1, <1>5 DEF Nothing, RevisionKeys, ContentInv, ContentTypes
<1>8. Current(row, told', said')
  BY <1>1, <1>3, <1>5 DEF Current, IsPublic, Nothing
<1>. QED
  BY <1>1, <1>3, <1>4, <1>6, <1>7, <1>8, CommitsKeep

\* The API's update behind the row lock.
LEMMA OauthPostUpdateStep ==
  ASSUME ContentInv, OauthPostUpdate
  PROVE  ContentInv'
<1>. DEFINE row  == [post EXCEPT !.text = @ + 1]
            word == PostActivity("Update", row, row.text)
            key  == <<"stamp", second>>
            why  == SameSecond(word, key)
<1>1. revs' = revs + 1 /\ Queues(word, key) /\ Commits("none", row, why)
  BY DEF OauthPostUpdate, Direct
<1>2. post \in PostRow /\ revs \in Nat /\ second \in Nat
  BY DEF ContentInv, ContentTypes
<1>3. /\ row \in PostRow /\ row.there = post.there /\ row.status = post.status
      /\ row.view = post.view
  BY <1>2 DEF PostRow
<1>4. revs' \in Nat /\ revs' >= revs
  BY <1>1, <1>2
<1>5. key \in KeySet /\ \A n \in Nat : key = <<"revision", n>> => n <= revs'
  BY <1>2 DEF KeySet
<1>6. word = PostActivity("Update", row, row.text)
  OBVIOUS
<1>7. why = {} => word = NoWord \/ key \notin keys
  BY DEF SameSecond
<1>. HIDE DEF row, word, key, why
<1>8. told' \in BOOLEAN /\ keys' \subseteq KeySet /\ RevisionKeys'
  BY <1>1, <1>4, <1>5, QueuesKeep
<1>9. ASSUME why = {}, excuses = {} PROVE Current(row, told', said')
  <2>1. CASE IsPublic(row)
    <3>1. word # NoWord
      BY <1>6, <2>1 DEF PostActivity, NoWord
    <3>. QED
      BY <1>1, <1>3, <1>6, <1>7, <1>9, <2>1, <3>1, WordIsCurrent
  <2>2. CASE ~IsPublic(row)
    <3>1. said' = said /\ (told' <=> told)
      BY <1>1, <1>6, <2>2, SilentWord
    <3>2. ~IsPublic(post)
      BY <1>3, <2>2 DEF IsPublic
    <3>3. Current(post, told, said)
      BY <1>9 DEF ContentInv, FollowersTold
    <3>. QED
      BY <2>2, <3>1, <3>2, <3>3 DEF Current
  <2>. QED
    BY <2>1, <2>2
<1>10. "none" \notin PostRequests
  BY ContentAssumption
<1>. QED
  BY <1>1, <1>3, <1>4, <1>8, <1>9, <1>10, CommitsKeep

\* Schedulers publish a post once, as it is.
LEMMA PublishScheduledStep ==
  ASSUME ContentInv, NEW r \in PostRequests, PublishScheduled(r)
  PROVE  ContentInv'
<1>. DEFINE row  == [post EXCEPT !.status = "published"]
            text == request[r].copy.text
            word == PostActivity("Create", row, text)
            key  == <<"stamp", request[r].stamp>>
            why  == Overlap(r) \cup SameSecond(word, key)
<1>1. /\ request[r].op = "tick" /\ Queues(word, key) /\ Commits(r, row, why)
      /\ revs' = revs
  BY DEF PublishScheduled
<1>2. post \in PostRow /\ revs \in Nat /\ request[r].stamp \in Nat
  BY DEF ContentInv, ContentTypes, ReadRow
<1>3. /\ row \in PostRow /\ row.there = post.there /\ row.text = post.text
      /\ row.view = post.view /\ row.status = "published"
  BY <1>2 DEF PostRow, PostStatuses
<1>4. revs' \in Nat /\ revs' >= revs
  BY <1>1, <1>2
<1>5. key \in KeySet /\ \A n \in Nat : key = <<"revision", n>> => n <= revs'
  BY <1>2 DEF KeySet
<1>6. word = PostActivity("Create", row, text)
  OBVIOUS
<1>7. why = {} => ~request[r].stale /\ (word = NoWord \/ key \notin keys)
  BY DEF SameSecond, Overlap
<1>8. ~request[r].stale => text = post.text
  BY <1>1 DEF ContentInv, CopyHolds
<1>. HIDE DEF row, word, key, why, text
<1>9. told' \in BOOLEAN /\ keys' \subseteq KeySet /\ RevisionKeys'
  BY <1>1, <1>4, <1>5, QueuesKeep
<1>10. ASSUME why = {}, excuses = {} PROVE Current(row, told', said')
  <2>1. CASE IsPublic(row)
    <3>1. word # NoWord
      BY <1>6, <2>1 DEF PostActivity, NoWord
    <3>2. text = row.text /\ key \notin keys
      BY <1>3, <1>7, <1>8, <1>10, <3>1
    <3>3. Queues(PostActivity("Create", row, row.text), key)
      BY <1>1, <1>6, <3>2
    <3>. QED
      BY <1>3, <2>1, <3>2, <3>3, WordIsCurrent
  <2>2. CASE ~IsPublic(row)
    <3>1. said' = said /\ (told' <=> told)
      BY <1>1, <1>6, <2>2, SilentWord
    <3>2. ~IsPublic(post)
      BY <1>3, <2>2 DEF IsPublic
    <3>3. Current(post, told, said)
      BY <1>10 DEF ContentInv, FollowersTold
    <3>. QED
      BY <2>2, <3>1, <3>2, <3>3 DEF Current
  <2>. QED
    BY <2>1, <2>2
<1>. QED
  BY <1>1, <1>3, <1>4, <1>9, <1>10, CommitsKeep

\* What a request reads, it holds until somebody writes.
LEMMA ReadsPostStep ==
  ASSUME ContentInv, NEW r \in PostRequests, NEW op \in {"edit", "delete", "api", "tick"},
         ReadsPost(r, op)
  PROVE  ContentInv'
<1>. DEFINE new == [op |-> op, copy |-> post, told |-> told, stamp |-> stamp, stale |-> FALSE]
<1>1. /\ request' = [request EXCEPT ![r] = new] /\ post.there
      /\ UNCHANGED <<post, told, said, keys, revs, stamp, second, writes, excuses>>
  BY DEF ReadsPost
<1>2. new \in ReadRow /\ new.op = op /\ new.copy = post /\ new.told = told
  BY DEF ContentInv, ContentTypes, ReadRow
<1>. HIDE DEF new
<1>3. request'[r] = new /\ \A q \in PostRequests : q # r => request'[q] = request[q]
  BY <1>1 DEF ContentInv, ContentTypes
<1>4. ContentTypes'
  BY <1>1, <1>2 DEF ContentInv, ContentTypes
<1>5. CopyHolds'
  BY <1>1, <1>2, <1>3 DEF ContentInv, CopyHolds
<1>6. RevisionKeys' /\ NothingYet' /\ FollowersTold'
  BY <1>1 DEF ContentInv, RevisionKeys, NothingYet, FollowersTold, Current, IsPublic
<1>. QED
  BY <1>4, <1>5, <1>6 DEF ContentInv

LEMMA RequestFailsStep ==
  ASSUME ContentInv, NEW r \in PostRequests, RequestFails(r)
  PROVE  ContentInv'
<1>1. /\ request' = [request EXCEPT ![r] = NoRead]
      /\ UNCHANGED <<post, told, said, keys, revs, stamp, second, writes, excuses>>
  BY DEF RequestFails
<1>2. NoRead \in ReadRow /\ NoRead.op = "none"
  BY DEF NoRead, ReadRow, NoPost, PostRow, PostStatuses, Views
<1>3. request'[r] = NoRead /\ \A q \in PostRequests : q # r => request'[q] = request[q]
  BY <1>1 DEF ContentInv, ContentTypes
<1>4. ContentTypes'
  BY <1>1, <1>2 DEF ContentInv, ContentTypes
<1>5. CopyHolds'
  BY <1>1, <1>2, <1>3 DEF ContentInv, CopyHolds
<1>6. RevisionKeys' /\ NothingYet' /\ FollowersTold'
  BY <1>1 DEF ContentInv, RevisionKeys, NothingYet, FollowersTold, Current, IsPublic
<1>. QED
  BY <1>4, <1>5, <1>6 DEF ContentInv

LEMMA ContentStepInv ==
  ASSUME ContentInv, [ContentNext]_contentVars
  PROVE  ContentInv'
<1>0. "none" \notin PostRequests
  BY ContentAssumption
<1>1. CASE UNCHANGED contentVars \/ SecondPasses
  <2>1. /\ UNCHANGED <<post, told, said, keys, revs, stamp, request, writes, excuses>>
        /\ second' \in Nat
    BY <1>1 DEF contentVars, SecondPasses, ContentInv, ContentTypes
  <2>2. ContentTypes' /\ RevisionKeys' /\ CopyHolds' /\ NothingYet'
    BY <2>1 DEF ContentInv, ContentTypes, RevisionKeys, CopyHolds, NothingYet
  <2>3. FollowersTold'
    BY <2>1 DEF ContentInv, FollowersTold, Current, IsPublic
  <2>. QED
    BY <2>2, <2>3 DEF ContentInv
<1>2. CASE AdminApiPostDelete
  <2>1. NoPost \in PostRow
    BY DEF NoPost, PostRow, PostStatuses, Views
  <2>2. Nothing /\ Commits("none", NoPost, {"api"}) /\ UNCHANGED revs
    BY <1>2 DEF AdminApiPostDelete, Direct
  <2>. QED
    BY <1>0, <2>1, <2>2, SilentStep
<1>3. CASE OauthPostUpdate
  BY <1>3, OauthPostUpdateStep
<1>4. ASSUME NEW a \in Writers, PostNewSave(a) PROVE ContentInv'
  BY <1>4, PostNewSaveStep
<1>5. ASSUME NEW a \in Writers, PostAuthorsUpdate(a) PROVE ContentInv'
  <2>1. [post EXCEPT !.author = a] \in PostRow
    BY DEF ContentInv, ContentTypes, PostRow
  <2>2. /\ Nothing /\ Commits("none", [post EXCEPT !.author = a], {"author"})
        /\ UNCHANGED revs
    BY <1>5 DEF PostAuthorsUpdate, Direct
  <2>. QED
    BY <1>0, <2>1, <2>2, SilentStep
<1>6. ASSUME NEW a \in Writers, NEW status \in PostStatuses, NEW view \in Views,
             AdminApiPostCreate(a, status, view)
      PROVE  ContentInv'
  <2>. DEFINE row == [there |-> TRUE, status |-> status, view |-> view, text |-> 1, author |-> a]
  <2>1. row \in PostRow
    BY DEF PostRow
  <2>2. Nothing /\ Commits("none", row, {"api"}) /\ UNCHANGED revs
    BY <1>6 DEF AdminApiPostCreate, Direct
  <2>. HIDE DEF row
  <2>. QED
    BY <1>0, <2>1, <2>2, SilentStep
<1>7. ASSUME NEW r \in PostRequests, NEW status \in PostStatuses, NEW view \in Views,
             NEW text \in Nat, AdminApiPostUpdate(r, status, view, text)
      PROVE  ContentInv'
  <2>. DEFINE row == Written(request[r].copy, status, view, text)
  <2>1. row \in PostRow
    BY DEF Written, ContentInv, ContentTypes, PostRow
  <2>2. /\ Nothing /\ Commits(r, row, {"api"}) /\ UNCHANGED revs
        /\ request[r].op = "api"
    BY <1>7 DEF AdminApiPostUpdate
  <2>. HIDE DEF row
  <2>. QED
    BY <2>1, <2>2, SilentStep
<1>8. ASSUME NEW r \in PostRequests, NEW status \in PostStatuses, NEW view \in Views,
             NEW new \in {0, 1},
             LET text == IF new = 1 THEN writes + 2 ELSE request[r].copy.text IN
             PostEditSave(r, status, view, text) \/ AdminApiPostUpdate(r, status, view, text)
      PROVE  ContentInv'
  <2>. DEFINE text == IF new = 1 THEN writes + 2 ELSE request[r].copy.text
  <2>1. request[r].copy \in PostRow /\ writes \in Nat
    BY DEF ContentInv, ContentTypes, ReadRow
  <2>2. text \in Nat
    BY <2>1 DEF PostRow
  <2>3. PostEditSave(r, status, view, text) \/ AdminApiPostUpdate(r, status, view, text)
    BY <1>8
  <2>. HIDE DEF text
  <2>. QED
    BY <1>7, <2>2, <2>3, PostEditSaveStep
<1>9. ASSUME NEW r \in PostRequests, PostEditDelete(r) \/ PublishScheduled(r) \/ RequestFails(r)
      PROVE  ContentInv'
  BY <1>9, PostEditDeleteStep, PublishScheduledStep, RequestFailsStep
<1>10. ASSUME NEW r \in PostRequests, NEW op \in {"edit", "delete", "api", "tick"},
              ReadsPost(r, op)
       PROVE  ContentInv'
  BY <1>10, ReadsPostStep
<1>. QED
  BY <1>1, <1>2, <1>3, <1>4, <1>5, <1>6, <1>8, <1>9, <1>10 DEF ContentNext

\* A copy that nobody wrote over is the post, and the revisions are numbered
\* once, which is why a request that met nobody tells followers what it wrote.
THEOREM ContentInvariance == ContentSpec => []ContentInv
<1>1. ContentInit => ContentInv
  <2> SUFFICES ASSUME ContentInit PROVE ContentInv
    OBVIOUS
  <2>1. NoPost \in PostRow /\ ~NoPost.there
    BY DEF NoPost, PostRow, PostStatuses, Views
  <2>2. NoRead \in ReadRow /\ NoRead.op = "none"
    BY <2>1 DEF NoRead, ReadRow
  <2>3. ContentTypes
    BY <2>1, <2>2 DEF ContentInit, ContentTypes
  <2>4. FollowersTold
    BY <2>1 DEF ContentInit, FollowersTold, Current, IsPublic
  <2>. QED
    BY <2>1, <2>2, <2>3, <2>4 DEF ContentInit, ContentInv, RevisionKeys, CopyHolds, NothingYet
<1>2. ContentInv /\ [ContentNext]_contentVars => ContentInv'
  BY ContentStepInv
<1>. QED
  BY <1>1, <1>2, PTL DEF ContentSpec

\* What followers were told last is the post as it is, unless one of the named
\* reasons lies between.
THEOREM FollowersAreTold == ContentSpec => []FollowersTold
<1>1. ContentInv => FollowersTold
  BY DEF ContentInv
<1>. QED
  BY <1>1, ContentInvariance, PTL

-----------------------------------------------------------------------------
(***************************************************************************)
(* Settings: the inductive invariant.                                      *)
(***************************************************************************)
Copy    == [there: BOOLEAN, row: [AllFields -> {0, 1}], missed: SUBSET AllFields]
SaveRow == [at: {"idle", "read"}, process: Processes \union {Cli}, decides: SUBSET AllFields,
            locked: BOOLEAN, copy: Copy]

SettingsTypes ==
  /\ section \in Sections
  /\ savedRow \in [AllFields -> {0, 1}]
  /\ decided \in [AllFields -> {0, 1}]
  /\ cached \in [Processes -> Copy]
  /\ save \in [Saves -> SaveRow]
  /\ forgiven \in SUBSET AllFields

\* A copy that missed no decision about a field has it as it was decided.
Holds(copy) ==
  \A f \in AllFields : f \notin copy.missed /\ f \notin forgiven => copy.row[f] = decided[f]

CopiesHold ==
  /\ Holds(Fresh)
  /\ \A p \in Processes : cached[p].there => Holds(cached[p])
  /\ \A r \in Saves : save[r].at = "read" => Holds(save[r].copy)

\* Who read behind the row lock holds it until the end, and misses nothing.
LockHolds ==
  locks => \A r \in Saves : save[r].at = "read" /\ save[r].locked =>
             holder = r /\ save[r].copy.missed = {}

SettingsInv == SettingsTypes /\ CopiesHold /\ LockHolds

-----------------------------------------------------------------------------
LEMMA Copies ==
  /\ NoCopy \in Copy /\ ~NoCopy.there
  /\ NoSave \in SaveRow /\ NoSave.at = "idle"
  /\ \A c \in Copy, F \in SUBSET AllFields :
       /\ Older(c, F) \in Copy
       /\ Older(c, F).there = c.there /\ Older(c, F).row = c.row
       /\ Older(c, F).missed = c.missed \union F
<1>1. NoCopy \in Copy /\ ~NoCopy.there
  BY DEF NoCopy, Copy
<1>2. NoSave \in SaveRow /\ NoSave.at = "idle"
  BY <1>1 DEF NoSave, SaveRow, Cli
<1>3. ASSUME NEW c \in Copy, NEW F \in SUBSET AllFields
      PROVE  /\ Older(c, F) \in Copy
             /\ Older(c, F).there = c.there /\ Older(c, F).row = c.row
             /\ Older(c, F).missed = c.missed \union F
  BY DEF Copy, Older
<1>. QED
  BY <1>1, <1>2, <1>3

LEMMA FreshCopy ==
  ASSUME SettingsInv
  PROVE  Fresh \in Copy /\ Fresh.there /\ Fresh.missed = {} /\ Holds(Fresh)
  BY DEF SettingsInv, SettingsTypes, CopiesHold, Fresh, Copy

\* get_section hands out a copy that holds.
LEMMA SectionCopy ==
  ASSUME SettingsInv, NEW p \in Processes \union {Cli}
  PROVE  Section(p) \in Copy /\ Section(p).there /\ Holds(Section(p))
<1>1. CASE p # Cli /\ cached[p].there
  <2>1. p \in Processes /\ Section(p) = cached[p]
    BY <1>1 DEF Section
  <2>2. cached[p] \in Copy /\ Holds(cached[p])
    BY <1>1, <2>1 DEF SettingsInv, SettingsTypes, CopiesHold
  <2>. QED
    BY <1>1, <2>1, <2>2
<1>2. CASE ~(p # Cli /\ cached[p].there)
  <2>1. Section(p) = Fresh
    BY <1>2 DEF Section
  <2>. QED
    BY <2>1, FreshCopy
<1>. QED
  BY <1>1, <1>2

\* A request has read its copy; the row and the decisions are as they were.
LEMMA ReadsKeep ==
  ASSUME SettingsInv, NEW r \in Saves, NEW p \in Processes \union {Cli},
         NEW decides \in SUBSET AllFields, NEW locked \in BOOLEAN, NEW copy \in Copy,
         Holds(copy), Reads(r, p, decides, locked, copy),
         cached' \in [Processes -> Copy],
         \A q \in Processes : cached'[q].there => Holds(cached'[q]),
         IF locked /\ locks THEN holder = "none" /\ holder' = r /\ copy.missed = {}
                            ELSE holder' = holder
  PROVE  SettingsInv'
<1>. DEFINE new == [at |-> "read", process |-> p, decides |-> decides, locked |-> locked,
                    copy |-> copy]
<1>1. /\ save[r].at = "idle" /\ save' = [save EXCEPT ![r] = new]
      /\ UNCHANGED <<section, locks, savedRow, page, decided, forgiven>>
  BY DEF Reads
<1>2. new \in SaveRow /\ new.at = "read" /\ new.copy = copy /\ new.locked = locked
  BY DEF SaveRow
<1>. HIDE DEF new
<1>3. save'[r] = new /\ \A s \in Saves : s # r => save'[s] = save[s]
  BY <1>1 DEF SettingsInv, SettingsTypes
<1>4. SettingsTypes'
  BY <1>1, <1>2 DEF SettingsInv, SettingsTypes
<1>7. CopiesHold'
  <2>1. Holds(Fresh)'
    BY <1>1 DEF SettingsInv, CopiesHold, Holds, Fresh
  <2>2. \A q \in Processes : cached'[q].there => Holds(cached[q])'
    BY <1>1 DEF Holds
  <2>3. \A s \in Saves : save'[s].at = "read" => Holds(save[s].copy)'
    BY <1>1, <1>2, <1>3 DEF SettingsInv, CopiesHold, Holds
  <2>. QED
    BY <2>1, <2>2, <2>3 DEF CopiesHold
<1>8. LockHolds'
  BY <1>1, <1>2, <1>3, SettingsAssumption DEF SettingsInv, LockHolds
<1>. QED
  BY <1>4, <1>7, <1>8 DEF SettingsInv

LEMMA ReadsCachedStep ==
  ASSUME SettingsInv, NEW r \in Saves, NEW p \in Processes \union {Cli},
         NEW decides \in SUBSET AllFields, ReadsCached(r, p, decides)
  PROVE  SettingsInv'
<1>1. Section(p) \in Copy /\ Section(p).there /\ Holds(Section(p))
  BY SectionCopy
<1>2. /\ Reads(r, p, decides, FALSE, Section(p))
      /\ cached' = IF p = Cli THEN cached ELSE [cached EXCEPT ![p] = Section(p)]
      /\ holder' = holder
  BY DEF ReadsCached
<1>3. cached' \in [Processes -> Copy]
  BY <1>1, <1>2 DEF SettingsInv, SettingsTypes
<1>4. \A q \in Processes : cached'[q].there => Holds(cached'[q])
  BY <1>1, <1>2 DEF SettingsInv, SettingsTypes, CopiesHold
<1>. QED
  BY <1>1, <1>2, <1>3, <1>4, ReadsKeep

LEMMA ReadsLockedStep ==
  ASSUME SettingsInv, NEW r \in Saves, NEW p \in Processes, NEW decides \in SUBSET AllFields,
         ReadsLocked(r, p, decides)
  PROVE  SettingsInv'
<1>1. Fresh \in Copy /\ Fresh.missed = {} /\ Holds(Fresh)
  BY FreshCopy
<1>2. /\ holder = "none" /\ holder' = IF locks THEN r ELSE holder
      /\ Reads(r, p, decides, TRUE, Fresh)
      /\ cached' = cached
  BY DEF ReadsLocked, LockedCopy
<1>3. /\ cached' \in [Processes -> Copy]
      /\ \A q \in Processes : cached'[q].there => Holds(cached'[q])
  BY <1>2 DEF SettingsInv, SettingsTypes, CopiesHold
<1>. QED
  BY <1>1, <1>2, <1>3, ReadsKeep

\* save_section: what it writes back and nobody forgives was decided so.
LEMMA SaveSectionStep ==
  ASSUME SettingsInv, NEW r \in Saves, SaveSection(r)
  PROVE  SettingsInv'
<1>. DEFINE mine == save[r]
            row  == [f \in AllFields |-> IF f \in mine.decides THEN 1 - decided[f]
                                                               ELSE mine.copy.row[f]]
            lost == mine.copy.missed \ mine.decides
            kept == [there |-> TRUE, row |-> row, missed |-> {}]
<1>1. /\ mine.at = "read" /\ holder \in {"none", r} /\ holder' = "none"
      /\ savedRow' = row
      /\ decided' = [f \in AllFields |-> IF f \in mine.decides THEN row[f] ELSE decided[f]]
      /\ forgiven' = (forgiven \ mine.decides) \cup (IF mine.locked /\ locks THEN {} ELSE lost)
      /\ UNCHANGED <<section, locks, page, saves>>
  BY DEF SaveSection
<1>2. /\ cached' = [q \in Processes |-> IF q = mine.process THEN kept
                                         ELSE Older(cached[q], mine.decides)]
      /\ save' = [s \in Saves |-> IF s = r THEN NoSave
                                  ELSE [save[s] EXCEPT !.copy = Older(@, mine.decides)]]
  BY DEF SaveSection, AfterSave
<1>3. /\ mine \in SaveRow /\ mine.copy \in Copy /\ mine.decides \in SUBSET AllFields
      /\ mine.locked \in BOOLEAN
  BY DEF SettingsInv, SettingsTypes, SaveRow
<1>4. /\ \A f \in AllFields : mine.copy.row[f] \in {0, 1} /\ decided[f] \in {0, 1}
      /\ mine.copy.missed \in SUBSET AllFields
  BY <1>3 DEF Copy, SettingsInv, SettingsTypes
<1>5. row \in [AllFields -> {0, 1}]
  <2>1. \A f \in AllFields : 1 - decided[f] \in {0, 1}
    BY <1>4
  <2>. QED
    BY <1>4, <2>1
<1>6. kept \in Copy /\ kept.there /\ kept.row = row /\ kept.missed = {}
  BY <1>5 DEF Copy
<1>7. /\ \A f \in AllFields : f \in mine.decides => decided'[f] = row[f]
      /\ \A f \in AllFields : f \notin mine.decides =>
           decided'[f] = decided[f] /\ row[f] = mine.copy.row[f]
  BY <1>1
<1>8. Holds(mine.copy)
  BY <1>1 DEF SettingsInv, CopiesHold
<1>9. mine.locked /\ locks => mine.copy.missed = {}
  BY <1>1 DEF SettingsInv, LockHolds
<1>10. \A f \in AllFields : f \notin forgiven' => row[f] = decided'[f]
  <2> SUFFICES ASSUME NEW f \in AllFields, f \notin forgiven' PROVE row[f] = decided'[f]
    OBVIOUS
  <2>1. CASE f \in mine.decides
    BY <1>7, <2>1
  <2>2. CASE f \notin mine.decides
    <3>1. f \notin forgiven
      BY <1>1, <2>2
    <3>2. f \notin mine.copy.missed
      BY <1>1, <1>9, <2>2
    <3>. QED
      BY <1>7, <1>8, <2>2, <3>1, <3>2 DEF Holds
  <2>. QED
    BY <2>1, <2>2
<1>11. lost \subseteq AllFields
  BY <1>4
<1>. HIDE DEF row, kept, lost, mine
<1>12. forgiven' \in SUBSET AllFields
  BY <1>1, <1>11 DEF SettingsInv, SettingsTypes
<1>13. decided' \in [AllFields -> {0, 1}]
  BY <1>1, <1>4, <1>5
<1>14. \A q \in Processes :
         cached'[q] \in Copy /\ cached'[q].there =>
           \/ cached'[q] = kept
           \/ /\ cached[q].there /\ cached'[q].row = cached[q].row
              /\ cached'[q].missed = cached[q].missed \union mine.decides
  BY <1>2, <1>3, Copies DEF SettingsInv, SettingsTypes
<1>15. \A q \in Processes : cached'[q] \in Copy
  BY <1>2, <1>3, <1>6, Copies DEF SettingsInv, SettingsTypes
<1>16. ASSUME NEW s \in Saves, s # r
       PROVE  /\ save'[s] \in SaveRow /\ save'[s].at = save[s].at
              /\ save'[s].locked = save[s].locked
              /\ save'[s].copy.row = save[s].copy.row
              /\ save'[s].copy.missed = save[s].copy.missed \union mine.decides
  <2>1. save[s] \in SaveRow /\ save[s].copy \in Copy
    BY DEF SettingsInv, SettingsTypes, SaveRow
  <2>2. save'[s] = [save[s] EXCEPT !.copy = Older(save[s].copy, mine.decides)]
    BY <1>2, <1>16
  <2>3. /\ Older(save[s].copy, mine.decides) \in Copy
        /\ Older(save[s].copy, mine.decides).row = save[s].copy.row
        /\ Older(save[s].copy, mine.decides).missed = save[s].copy.missed \union mine.decides
    BY <1>3, <2>1, Copies
  <2>. QED
    BY <2>1, <2>2, <2>3 DEF SaveRow
<1>17. save'[r] = NoSave
  BY <1>2
<1>18. SettingsTypes'
  <2>1. cached' \in [Processes -> Copy]
    <3>1. cached' = [q \in Processes |-> cached'[q]]
      BY <1>2
    <3>. QED
      BY <1>15, <3>1
  <2>2. save' \in [Saves -> SaveRow]
    <3>1. save' = [s \in Saves |-> save'[s]]
      BY <1>2
    <3>2. \A s \in Saves : save'[s] \in SaveRow
      BY <1>16, <1>17, Copies
    <3>. QED
      BY <3>1, <3>2
  <2>. QED
    BY <1>1, <1>5, <1>12, <1>13, <2>1, <2>2 DEF SettingsInv, SettingsTypes
\* A copy that misses nothing still, and did not decide, is as it was.
<1>19. ASSUME NEW c, NEW d, Holds(c), d.row = c.row, d.missed = c.missed \union mine.decides
       PROVE  \A f \in AllFields : f \notin d.missed /\ f \notin forgiven' => d.row[f] = decided'[f]
  BY <1>1, <1>7, <1>19 DEF Holds
<1>20. CopiesHold'
  <2>1. Holds(Fresh)'
    BY <1>1, <1>10 DEF Holds, Fresh
  <2>2. ASSUME NEW q \in Processes, cached'[q].there PROVE Holds(cached[q])'
    <3>1. CASE cached'[q] = kept
      BY <1>6, <1>10, <3>1 DEF Holds
    <3>2. CASE /\ cached[q].there /\ cached'[q].row = cached[q].row
               /\ cached'[q].missed = cached[q].missed \union mine.decides
      <4>1. Holds(cached[q])
        BY <3>2 DEF SettingsInv, CopiesHold
      <4>2. \A f \in AllFields : f \notin cached'[q].missed /\ f \notin forgiven' =>
              cached'[q].row[f] = decided'[f]
        BY <1>19, <3>2, <4>1
      <4>. QED
        BY <4>2 DEF Holds
    <3>. QED
      BY <1>14, <1>15, <2>2, <3>1, <3>2
  <2>3. ASSUME NEW s \in Saves, save'[s].at = "read" PROVE Holds(save[s].copy)'
    <3>1. s # r
      BY <1>17, <2>3, Copies
    <3>2. Holds(save[s].copy)
      BY <1>16, <2>3, <3>1 DEF SettingsInv, CopiesHold
    <3>3. \A f \in AllFields : f \notin save'[s].copy.missed /\ f \notin forgiven' =>
            save'[s].copy.row[f] = decided'[f]
      <4>1. /\ save'[s].copy.row = save[s].copy.row
            /\ save'[s].copy.missed = save[s].copy.missed \union mine.decides
        BY <1>16, <3>1
      <4>. QED
        BY <1>19, <3>2, <4>1
    <3>. QED
      BY <3>3 DEF Holds
  <2>. QED
    BY <2>1, <2>2, <2>3 DEF CopiesHold
<1>21. LockHolds'
  <2> SUFFICES ASSUME locks', NEW s \in Saves, save'[s].at = "read", save'[s].locked
               PROVE  FALSE
    BY DEF LockHolds
  <2>1. s # r
    BY <1>17, Copies
  <2>2. holder = s
    BY <1>1, <1>16, <2>1 DEF SettingsInv, LockHolds
  <2>. QED
    BY <1>1, <2>1, <2>2, SettingsAssumption
<1>. QED
  BY <1>18, <1>20, <1>21 DEF SettingsInv

\* What is given up, and what time does to the caches.
LEMMA SaveRefusedStep ==
  ASSUME SettingsInv, NEW r \in Saves, SaveRefused(r)
  PROVE  SettingsInv'
<1>1. /\ save' = [save EXCEPT ![r] = NoSave]
      /\ holder' = IF holder = r THEN "none" ELSE holder
      /\ UNCHANGED <<section, locks, savedRow, cached, page, saves, decided, forgiven>>
  BY DEF SaveRefused
<1>2. NoSave \in SaveRow /\ NoSave.at = "idle"
  BY Copies
<1>3. save'[r] = NoSave /\ \A s \in Saves : s # r => save'[s] = save[s]
  BY <1>1 DEF SettingsInv, SettingsTypes
<1>4. SettingsTypes'
  BY <1>1, <1>2 DEF SettingsInv, SettingsTypes
<1>5. CopiesHold'
  BY <1>1, <1>2, <1>3 DEF SettingsInv, CopiesHold, Holds, Fresh
<1>6. LockHolds'
  BY <1>1, <1>2, <1>3 DEF SettingsInv, LockHolds
<1>. QED
  BY <1>4, <1>5, <1>6 DEF SettingsInv

LEMMA CachesStep ==
  ASSUME SettingsInv, NEW p \in Processes, CacheExpires(p) \/ PageServed(p)
  PROVE  SettingsInv'
<1>1. UNCHANGED <<section, locks, savedRow, save, holder, page, saves, decided, forgiven>>
  BY DEF CacheExpires, PageServed
<1>2. PICK c \in {NoCopy, Fresh} : cached' = [cached EXCEPT ![p] = c]
  BY DEF CacheExpires, PageServed
<1>3. c \in Copy /\ (c.there => Holds(c))
  BY <1>2, Copies, FreshCopy
<1>4. SettingsTypes'
  BY <1>1, <1>2, <1>3 DEF SettingsInv, SettingsTypes
<1>5. \A q \in Processes : cached'[q].there => Holds(cached'[q])
  BY <1>2, <1>3 DEF SettingsInv, SettingsTypes, CopiesHold
<1>6. CopiesHold'
  BY <1>1, <1>5 DEF SettingsInv, CopiesHold, Holds, Fresh
<1>7. LockHolds'
  BY <1>1 DEF SettingsInv, LockHolds
<1>. QED
  BY <1>4, <1>6, <1>7 DEF SettingsInv

\* The fields of the sections.
LEMMA FieldNames ==
  /\ {"theme", "webauthn", "mail"} = Sections
  /\ \A s \in Sections : Fields(s) \subseteq AllFields
  /\ Fields("theme") = {"active", "trusted_themes", "option_values"}
  /\ Fields("webauthn") = {"policy", "rp_id"}
  /\ Fields("mail") = {"smtp", "profile"}
<1>1. \A s \in Sections : Fields(s) \subseteq AllFields
  BY DEF AllFields
<1>. QED
  BY <1>1 DEF Sections, Fields

LEMMA SettingsStepInv ==
  ASSUME SettingsInv, [SettingsNext]_settingsVars
  PROVE  SettingsInv'
<1>1. CASE UNCHANGED settingsVars \/ ThemeDetail
  <2>1. UNCHANGED <<section, locks, savedRow, cached, save, holder, decided, forgiven>>
    BY <1>1 DEF settingsVars, ThemeDetail
  <2>. QED
    BY <2>1 DEF SettingsInv, SettingsTypes, CopiesHold, LockHolds, Holds, Fresh
<1>2. ASSUME NEW p \in Processes, CacheExpires(p) \/ PageServed(p) PROVE SettingsInv'
  BY <1>2, CachesStep
<1>3. ASSUME NEW r \in Saves, SaveSection(r) \/ SaveRefused(r) PROVE SettingsInv'
  BY <1>3, SaveSectionStep, SaveRefusedStep
<1>4. /\ "active" \in AllFields /\ "trusted_themes" \in AllFields /\ "option_values" \in AllFields
      /\ "policy" \in AllFields /\ "rp_id" \in AllFields
      /\ "smtp" \in AllFields /\ "profile" \in AllFields
  BY FieldNames
<1>5. ASSUME NEW r \in Saves, WebauthnCliUnlock(r) \/ MailProfileCli(r) PROVE SettingsInv'
  BY <1>4, <1>5, ReadsCachedStep DEF WebauthnCliUnlock, MailProfileCli
<1>6. ASSUME NEW r \in Saves, NEW p \in Processes,
             \/ ThemeActivate(r, p) \/ ThemeTrust(r, p) \/ ThemeOptionsSave(r, p)
             \/ SiteSettingsTheme(r, p)
      PROVE  SettingsInv'
  BY <1>4, <1>6, ReadsLockedStep
  DEF ThemeActivate, ThemeTrust, ThemeOptionsSave, SiteSettingsTheme
<1>7. ASSUME NEW r \in Saves, NEW p \in Processes,
             \/ ThemeRevisionRestoreOptions(r, p)
             \/ SiteSettingsSave(r, p) \/ CaptchaSettingsSave(r, p) \/ WebauthnUpdate(r, p)
             \/ WebauthnUnlockRpId(r, p)
             \/ WebauthnRelockRpId(r, p) \/ RpIdAdopt(r, p)
      PROVE  SettingsInv'
  BY <1>4, <1>7, ReadsCachedStep
  DEF ThemeRevisionRestoreOptions, SiteSettingsSave, CaptchaSettingsSave, WebauthnUpdate,
      WebauthnUnlockRpId, WebauthnRelockRpId, RpIdAdopt
<1>. QED
  BY <1>1, <1>2, <1>3, <1>5, <1>6, <1>7 DEF SettingsNext

\* A copy of the row holds every decision that it did not miss, and a request
\* behind the row lock misses none.
THEOREM SettingsInvariance == SettingsSpec => []SettingsInv
<1>1. SettingsInit => SettingsInv
  <2> SUFFICES ASSUME SettingsInit PROVE SettingsInv
    OBVIOUS
  <2>1. SettingsTypes
    BY Copies DEF SettingsInit, SettingsTypes
  <2>2. CopiesHold /\ LockHolds
    BY Copies DEF SettingsInit, CopiesHold, LockHolds, Holds, Fresh
  <2>. QED
    BY <2>1, <2>2 DEF SettingsInv
<1>2. SettingsInv /\ [SettingsNext]_settingsVars => SettingsInv'
  BY SettingsStepInv
<1>. QED
  BY <1>1, <1>2, PTL DEF SettingsSpec

\* Every field of the row is as it was decided last, unless a request without
\* the lock wrote it back from an older copy.
THEOREM DecisionsAreKept == SettingsSpec => []DecisionsKept
<1>1. SettingsInv => DecisionsKept
  <2> SUFFICES ASSUME SettingsInv, NEW f \in Fields(section), f \notin forgiven
               PROVE  savedRow[f] = decided[f]
    BY DEF DecisionsKept
  <2>1. f \in AllFields
    BY FieldNames DEF SettingsInv, SettingsTypes
  <2>. QED
    BY <2>1 DEF SettingsInv, CopiesHold, Holds, Fresh
<1>. QED
  BY <1>1, SettingsInvariance, PTL

-----------------------------------------------------------------------------
(***************************************************************************)
(* The theme editor: the inductive invariant.                              *)
(***************************************************************************)
Early  == {"ensure", "create", "snapshot"}
Late   == {"write", "read", "declare", "undeclare", "validate", "unlink", "revise",
           "undo_manifest", "undo_file"}
ThemeManifests == [there: BOOLEAN, files: SUBSET Files]
EditRow == [at: {"idle"} \union Early \union Late, op: {"none", "save", "reset", "manifest"},
            file: Files \union {"none"}, content: Int, declares: SUBSET Files, before: Int,
            old: ThemeManifests, read: SUBSET Files]

\* An idle process is about nothing; an edit of a file is about one, and
\* only a save writes it.
RowWhole(row) ==
  /\ row.at = "idle" => row = Idle
  /\ row.op \in {"save", "reset"} => row.file \in Files
  /\ row.at \in {"write", "read"} => row.op = "save"

ThemeTypes ==
  /\ manifest \in ThemeManifests
  /\ local \in [Files -> Int]
  /\ form \in [Editors -> [Files -> Int]]
  /\ editor \in [Editors -> EditRow]
  /\ backup \in [Files -> [before: Int, after: Int]]
  /\ edits \in Nat
  /\ showing \in [Files -> Int]
  /\ \A e \in Editors : RowWhole(editor[e])

\* What a reader gets of a child that validates (Reachable: it does if it is there).
ShownNow == \A f \in Files : showing[f] = IF f \in manifest.files THEN local[f] ELSE Parent

OwnFile(row, f) == row.op # "manifest" /\ f = row.file

\* The manifest and the file that an edit remembers make a theme...
OldWhole(row) == \A f \in row.old.files : IF OwnFile(row, f) THEN row.before # Absent
                                                            ELSE local[f] # Absent
\* ...which is the one that readers have.
OldShown(row) ==
  \A f \in Files : showing[f] = IF f \notin row.old.files THEN Parent
                                ELSE IF OwnFile(row, f) THEN row.before ELSE local[f]

\* The declarations of an edit that goes well.
Declares(row) ==
  CASE row.op = "save"  -> row.old.files \union {row.file}
    [] row.op = "reset" -> row.old.files \ {row.file}
    [] OTHER            -> row.declares

\* What each kind of edit has done where it stands.
SaveStands(row) ==
  row.op = "save" =>
    /\ row.at \in Early \union {"write", "read", "declare", "validate", "revise",
                                "undo_manifest", "undo_file"}
    /\ row.file \in Files /\ row.content # Absent
    /\ row.at \in Late => local[row.file] \in {row.before, row.content}
    /\ row.at \in {"read", "declare", "validate", "revise"} => local[row.file] = row.content
    /\ row.at = "declare" => row.read = Declares(row)

ResetStands(row) ==
  row.op = "reset" =>
    /\ row.at \in {"undeclare", "validate", "unlink", "revise", "undo_manifest", "undo_file"}
    /\ row.file \in Files /\ row.before # Absent
    /\ local[row.file] \in {row.before, Absent}
    /\ row.at \in {"undeclare", "validate", "unlink"} => local[row.file] = row.before
    /\ row.at = "undeclare" => row.read = row.old.files

ManifestStands(row) ==
  row.op = "manifest" =>
    /\ row.at \in Early \union {"declare", "validate", "revise", "undo_manifest"}
    /\ \A f \in row.declares : local[f] # Absent
    /\ row.at \in Early => row.old.there /\ row.old.files = manifest.files
    /\ row.at = "declare" => row.read = row.declares

Stands(row) ==
  /\ row.op # "none"
  /\ SaveStands(row) /\ ResetStands(row) /\ ManifestStands(row)
  /\ row.at = "create" => ~manifest.there
  /\ row.at = "snapshot" => manifest.there
  /\ row.at \in Late => manifest.there /\ row.old.there /\ OldWhole(row)
  /\ row.at \in {"write", "read", "declare", "undeclare", "undo_file"} => manifest = row.old
  /\ row.at \in {"validate", "unlink", "revise"} => manifest.files = Declares(row)
  /\ Reachable \/ (row.op = "reset" /\ row.at = "undo_file")
  /\ themeCut = {} => IF row.at \in Late THEN OldShown(row) ELSE ShownNow

AtRest ==
  /\ <<"reset", "undo_file">> \notin themeCut => Reachable
  /\ themeCut = {} => ShownNow

Alone ==
  ~overlap =>
    /\ \A d, e \in Editing : d = e
    /\ ~manifest.there => manifest.files = {}
    /\ \A e \in Editing : Stands(editor[e])
    /\ Editing = {} => AtRest

ThemeInv == ThemeTypes /\ Alone

-----------------------------------------------------------------------------
LEMMA IdleRow == Idle \in EditRow /\ Idle.at = "idle" /\ RowWhole(Idle)
  BY DEF Idle, EditRow, NoManifest, ThemeManifests, Absent, RowWhole

\* An edit goes on to its next step...
LEMMA EditorGoes ==
  ASSUME ThemeTypes, NEW e \in Editors, NEW at \in Early \union Late, EditGoes(e, at),
         at \in {"write", "read"} => editor[e].op = "save"
  PROVE  /\ editor' \in [Editors -> EditRow]
         /\ editor'[e] = [editor[e] EXCEPT !.at = at] /\ editor'[e].at = at /\ at # "idle"
         /\ \A d \in Editors : d # e => editor'[d] = editor[d]
         /\ \A d \in Editors : RowWhole(editor'[d])
<1>1. /\ editor \in [Editors -> EditRow] /\ editor[e] \in EditRow /\ at # "idle"
      /\ \A d \in Editors : RowWhole(editor[d])
  BY DEF ThemeTypes, Early, Late
<1>. DEFINE new == [editor[e] EXCEPT !.at = at]
<1>2. new \in EditRow /\ new.at = at /\ new.op = editor[e].op /\ new.file = editor[e].file
  BY <1>1 DEF EditRow
<1>3. editor' = [editor EXCEPT ![e] = new]
  BY DEF EditGoes
<1>. HIDE DEF new
<1>4. RowWhole(new)
  BY <1>1, <1>2 DEF RowWhole
<1>5. /\ editor' \in [Editors -> EditRow] /\ editor'[e] = new
      /\ \A d \in Editors : d # e => editor'[d] = editor[d]
  BY <1>1, <1>2, <1>3
<1>. QED
  BY <1>1, <1>2, <1>4, <1>5 DEF new

\* ...or ends.
LEMMA EditorLeaves ==
  ASSUME ThemeTypes, NEW e \in Editors, Leaves(e)
  PROVE  /\ editor' \in [Editors -> EditRow]
         /\ editor'[e] = Idle /\ Idle.at = "idle"
         /\ \A d \in Editors : d # e => editor'[d] = editor[d]
         /\ \A d \in Editors : RowWhole(editor'[d])
<1>1. Idle \in EditRow /\ Idle.at = "idle" /\ RowWhole(Idle)
  BY IdleRow
<1>2. editor' = [editor EXCEPT ![e] = Idle] /\ editor \in [Editors -> EditRow]
  BY DEF Leaves, ThemeTypes
<1>. HIDE DEF Idle
<1>3. /\ editor' \in [Editors -> EditRow] /\ editor'[e] = Idle
      /\ \A d \in Editors : d # e => editor'[d] = editor[d]
  BY <1>1, <1>2
<1>. QED
  BY <1>1, <1>3 DEF ThemeTypes

\* While the processes take turns an edit finds what it left.
LEMMA ThemeTurn ==
  ASSUME ThemeInv, NEW e \in Editors, editor[e].at # "idle", overlap' = overlap, ThemeTypes',
         \A d \in Editors : d # e => editor'[d] = editor[d],
         ~overlap => /\ ~manifest'.there => manifest'.files = {}
                     /\ editor'[e].at # "idle" => Stands(editor[e])'
                     /\ editor'[e].at = "idle" => AtRest'
  PROVE  ThemeInv'
<1>. SUFFICES ASSUME ~overlap PROVE Alone'
  BY DEF ThemeInv, Alone
<1>1. Editing = {e}
  BY DEF ThemeInv, Alone, Editing
<1>2. Editing' = IF editor'[e].at = "idle" THEN {} ELSE {e}
  BY <1>1 DEF Editing
<1>. QED
  BY <1>2 DEF Alone

\* What an edit stands on while it is alone.
LEMMA ThemeStands ==
  ASSUME ThemeInv, NEW e \in Editors, editor[e].at # "idle", ~overlap
  PROVE  Stands(editor[e]) /\ (~manifest.there => manifest.files = {}) /\ editor[e] \in EditRow
  BY DEF ThemeInv, Alone, Editing, ThemeTypes

LEMMA EnsureStep ==
  ASSUME ThemeInv, NEW e \in Editors, EnsureDerivedTheme(e)
  PROVE  ThemeInv'
<1>1. /\ editor[e].at = "ensure" /\ overlap' = overlap
      /\ UNCHANGED <<manifest, local, form, backup, edits, themeCut, showing>>
  BY DEF EnsureDerivedTheme, Kept
<1>2. ThemeTypes
  BY DEF ThemeInv
<1>3. CASE Leaves(e)
  <2>1. ThemeTypes'
    BY <1>1, <1>2, <1>3, EditorLeaves DEF ThemeTypes
  <2>2. ASSUME ~overlap PROVE AtRest'
    BY <1>1, <1>2, <2>2, ThemeStands DEF Stands, AtRest, Reachable, Valid, ShownNow, Late
  <2>. QED
    BY <1>1, <1>2, <1>3, <2>1, <2>2, EditorLeaves, ThemeStands, ThemeTurn
<1>4. ASSUME NEW at \in {"snapshot", "create"}, EditGoes(e, at),
             at = IF manifest.there THEN "snapshot" ELSE "create"
      PROVE  ThemeInv'
  <2>1. at \in Early \union Late
    BY DEF Early
  <2>2. ThemeTypes'
    BY <1>1, <1>2, <1>4, <2>1, EditorGoes DEF ThemeTypes
  <2>3. ASSUME ~overlap PROVE Stands(editor[e])'
    <3>1. editor'[e] = [editor[e] EXCEPT !.at = at] /\ editor[e] \in EditRow
      BY <1>2, <1>4, <2>1, EditorGoes DEF ThemeTypes
    <3>2. Stands(editor[e])
      BY <1>1, <2>3, ThemeStands
    <3>. QED
      BY <1>1, <1>4, <3>1, <3>2 DEF Stands, SaveStands, ResetStands, ManifestStands, EditRow,
         Early, Late, Reachable, Valid, ShownNow
  <2>. QED
    BY <1>1, <1>2, <1>4, <2>1, <2>2, <2>3, EditorGoes, ThemeStands, ThemeTurn
<1>. QED
  BY <1>3, <1>4 DEF EnsureDerivedTheme

LEMMA CreateManifestStep ==
  ASSUME ThemeInv, NEW e \in Editors, CreateManifest(e)
  PROVE  ThemeInv'
<1>1. /\ editor[e].at = "create" /\ overlap' = overlap
      /\ UNCHANGED <<local, form, backup, edits, themeCut, showing>>
      /\ manifest' = [there |-> TRUE, files |-> {}] /\ EditGoes(e, "snapshot")
  BY DEF CreateManifest, Kept
<1>2. ThemeTypes /\ "snapshot" \in Early \union Late
  BY DEF ThemeInv, Early
<1>3. ThemeTypes'
  BY <1>1, <1>2, EditorGoes DEF ThemeTypes, ThemeManifests
<1>4. ASSUME ~overlap PROVE Stands(editor[e])'
  <2>1. editor'[e] = [editor[e] EXCEPT !.at = "snapshot"] /\ editor[e] \in EditRow
    BY <1>1, <1>2, EditorGoes DEF ThemeTypes
  <2>2. Stands(editor[e]) /\ manifest.files = {}
    BY <1>1, <1>4, ThemeStands DEF Stands
  <2>. QED
    BY <1>1, <2>1, <2>2 DEF Stands, SaveStands, ResetStands, ManifestStands, EditRow,
       Early, Late, Reachable, Valid, ShownNow
<1>. QED
  BY <1>1, <1>2, <1>3, <1>4, EditorGoes, ThemeTurn

\* What has its row changed otherwise.
LEMMA EditorWritten ==
  ASSUME ThemeTypes, NEW e \in Editors, NEW new \in EditRow, RowWhole(new),
         editor' = [editor EXCEPT ![e] = new]
  PROVE  /\ editor' \in [Editors -> EditRow] /\ editor'[e] = new
         /\ \A d \in Editors : d # e => editor'[d] = editor[d]
         /\ \A d \in Editors : RowWhole(editor'[d])
<1>1. editor \in [Editors -> EditRow] /\ \A d \in Editors : RowWhole(editor[d])
  BY DEF ThemeTypes
<1>2. /\ editor' \in [Editors -> EditRow] /\ editor'[e] = new
      /\ \A d \in Editors : d # e => editor'[d] = editor[d]
  BY <1>1
<1>. QED
  BY <1>1, <1>2

LEMMA SnapshotStep ==
  ASSUME ThemeInv, NEW e \in Editors, Snapshot(e)
  PROVE  ThemeInv'
<1>. DEFINE row == editor[e]
            new == IF row.op = "save"
                   THEN [row EXCEPT !.at = "write", !.before = local[row.file], !.old = manifest]
                   ELSE [row EXCEPT !.at = "declare", !.read = row.declares]
<1>1. /\ row.at = "snapshot" /\ overlap' = overlap
      /\ UNCHANGED <<manifest, local, form, backup, edits, themeCut, showing>>
      /\ editor' = [editor EXCEPT ![e] = new]
  BY DEF Snapshot, Kept, Order
<1>2. ThemeTypes /\ row \in EditRow /\ (row.op = "save" => row.file \in Files)
  BY DEF ThemeInv, ThemeTypes, RowWhole
<1>3. ~overlap => Stands(row) /\ (~manifest.there => manifest.files = {})
  BY <1>1, ThemeStands
<1>4. /\ new \in EditRow /\ new.at \in {"write", "declare"}
      /\ new.op = row.op /\ new.file = row.file
  BY <1>2 DEF EditRow, ThemeTypes, Late
<1>5. RowWhole(new)
  BY <1>2, <1>4 DEF RowWhole, ThemeInv, ThemeTypes
<1>6. /\ editor' \in [Editors -> EditRow] /\ editor'[e] = new
      /\ \A d \in Editors : d # e => editor'[d] = editor[d]
      /\ \A d \in Editors : RowWhole(editor'[d])
  <2>. HIDE DEF new
  <2>. QED
    BY <1>1, <1>2, <1>4, <1>5, EditorWritten
<1>7. ThemeTypes'
  BY <1>1, <1>2, <1>6 DEF ThemeTypes
<1>8. ASSUME ~overlap PROVE Stands(editor[e])'
  BY <1>1, <1>2, <1>3, <1>4, <1>6, <1>8 DEF Stands, SaveStands, ResetStands, ManifestStands, EditRow,
     Early, Late, Reachable, Valid, ShownNow, OldShown, OldWhole, OwnFile, ThemeTypes, ThemeManifests
<1>. QED
  <2>1. row.at # "idle" /\ new.at # "idle"
    BY <1>1, <1>4
  <2>. HIDE DEF new
  <2>. QED
    BY <1>1, <1>3, <1>6, <1>7, <1>8, <2>1, ThemeTurn

LEMMA WriteFileStep ==
  ASSUME ThemeInv, NEW e \in Editors, WriteFile(e)
  PROVE  ThemeInv'
<1>1. /\ editor[e].at = "write" /\ overlap' = overlap
      /\ UNCHANGED <<manifest, form, backup, edits, themeCut, showing>>
      /\ local' = [local EXCEPT ![editor[e].file] = editor[e].content] /\ EditGoes(e, "read")
  BY DEF WriteFile, Kept, Order
<1>2. /\ ThemeTypes /\ "read" \in Early \union Late
      /\ editor[e] \in EditRow /\ editor[e].op = "save"
  BY <1>1 DEF ThemeInv, Late, ThemeTypes, RowWhole
<1>3. ThemeTypes'
  BY <1>1, <1>2, EditorGoes DEF ThemeTypes, EditRow
<1>4. ASSUME ~overlap PROVE Stands(editor[e])'
  <2>1. editor'[e] = [editor[e] EXCEPT !.at = "read"]
    BY <1>1, <1>2, EditorGoes
  <2>2. Stands(editor[e])
    BY <1>1, <1>4, ThemeStands
  <2>. QED
    BY <1>1, <1>2, <2>1, <2>2 DEF Stands, SaveStands, ResetStands, ManifestStands, EditRow,
       Early, Late, Reachable, Valid, OldShown, OldWhole, OwnFile, ThemeTypes, ThemeManifests
<1>. QED
  BY <1>1, <1>2, <1>3, <1>4, EditorGoes, ThemeStands, ThemeTurn

LEMMA ReadManifestStep ==
  ASSUME ThemeInv, NEW e \in Editors, ReadManifest(e)
  PROVE  ThemeInv'
<1>. DEFINE row == editor[e]
            new == [row EXCEPT !.at = "declare", !.read = manifest.files \cup {row.file}]
<1>1. /\ row.at = "read" /\ overlap' = overlap
      /\ UNCHANGED <<manifest, local, form, backup, edits, themeCut, showing>>
      /\ editor' = [editor EXCEPT ![e] = new]
  BY DEF ReadManifest, Kept, Order, ThemeInv, ThemeTypes
<1>2. ThemeTypes /\ row \in EditRow /\ RowWhole(row)
  BY DEF ThemeInv, ThemeTypes
<1>3. ~overlap => Stands(row) /\ (~manifest.there => manifest.files = {})
  BY <1>1, ThemeStands
<1>4. new \in EditRow /\ new.at = "declare" /\ new.op = row.op /\ new.file = row.file
  <2>1. row.op = "save" /\ row.file \in Files
    BY <1>1, <1>2 DEF RowWhole
  <2>2. manifest.files \in SUBSET Files
    BY <1>2 DEF ThemeTypes, ThemeManifests
  <2>3. manifest.files \cup {row.file} \in SUBSET Files
    BY <2>1, <2>2
  <2>. QED
    BY <1>2, <2>3 DEF EditRow, Late
<1>5. RowWhole(new)
  BY <1>2, <1>4 DEF RowWhole
<1>6. /\ editor' \in [Editors -> EditRow] /\ editor'[e] = new
      /\ \A d \in Editors : d # e => editor'[d] = editor[d]
      /\ \A d \in Editors : RowWhole(editor'[d])
  <2>. HIDE DEF new
  <2>. QED
    BY <1>1, <1>2, <1>4, <1>5, EditorWritten
<1>7. ThemeTypes'
  BY <1>1, <1>2, <1>6 DEF ThemeTypes
<1>8. ASSUME ~overlap PROVE Stands(editor[e])'
  <2>1. /\ new.content = row.content /\ new.before = row.before /\ new.old = row.old
        /\ new.read = manifest.files \cup {row.file}
    BY <1>2 DEF EditRow
  <2>2. Stands(row) /\ row.op = "save" /\ manifest = row.old
    BY <1>1, <1>2, <1>3, <1>8 DEF Stands, RowWhole
  <2>. HIDE DEF new
  <2>. QED
    BY <1>1, <1>4, <1>6, <2>1, <2>2 DEF Stands, SaveStands, ResetStands, ManifestStands,
       Declares, Early, Late, Reachable, Valid, OldShown, OldWhole, OwnFile
<1>. QED
  <2>. HIDE DEF new
  <2>. QED
    BY <1>1, <1>3, <1>4, <1>6, <1>7, <1>8, ThemeTurn

LEMMA WriteManifestStep ==
  ASSUME ThemeInv, NEW e \in Editors, WriteManifest(e)
  PROVE  ThemeInv'
<1>1. /\ editor[e].at = "declare" /\ overlap' = overlap
      /\ UNCHANGED <<local, form, backup, edits, themeCut, showing>>
      /\ manifest' = [there |-> TRUE, files |-> editor[e].read] /\ EditGoes(e, "validate")
  BY DEF WriteManifest, Kept, Order
<1>2. ThemeTypes /\ "validate" \in Early \union Late /\ editor[e] \in EditRow
  BY DEF ThemeInv, Late, ThemeTypes
<1>3. ThemeTypes'
  BY <1>1, <1>2, EditorGoes DEF ThemeTypes, ThemeManifests, EditRow
<1>4. ASSUME ~overlap PROVE Stands(editor[e])'
  <2>1. editor'[e] = [editor[e] EXCEPT !.at = "validate"]
    BY <1>1, <1>2, EditorGoes
  <2>2. Stands(editor[e])
    BY <1>1, <1>4, ThemeStands
  <2>. QED
    BY <1>1, <1>2, <2>1, <2>2 DEF Stands, SaveStands, ResetStands, ManifestStands, Declares,
       EditRow, Early, Late, Reachable, Valid, OldShown, OldWhole, OwnFile, ThemeTypes, ThemeManifests
<1>. QED
  BY <1>1, <1>2, <1>3, <1>4, EditorGoes, ThemeTurn

LEMMA UndeclareStep ==
  ASSUME ThemeInv, NEW e \in Editors, Undeclare(e)
  PROVE  ThemeInv'
<1>1. /\ editor[e].at = "undeclare" /\ overlap' = overlap
      /\ UNCHANGED <<local, form, backup, edits, themeCut, showing>>
      /\ manifest' = [there |-> TRUE, files |-> editor[e].read \ {editor[e].file}]
      /\ EditGoes(e, "validate")
  BY DEF Undeclare, Kept
<1>2. ThemeTypes /\ "validate" \in Early \union Late /\ editor[e] \in EditRow
  BY DEF ThemeInv, Late, ThemeTypes
<1>3. ThemeTypes'
  BY <1>1, <1>2, EditorGoes DEF ThemeTypes, ThemeManifests, EditRow
<1>4. ASSUME ~overlap PROVE Stands(editor[e])'
  <2>1. editor'[e] = [editor[e] EXCEPT !.at = "validate"]
    BY <1>1, <1>2, EditorGoes
  <2>2. Stands(editor[e])
    BY <1>1, <1>4, ThemeStands
  <2>. QED
    BY <1>1, <1>2, <2>1, <2>2 DEF Stands, SaveStands, ResetStands, ManifestStands, Declares,
       EditRow, Early, Late, Reachable, Valid, OldShown, OldWhole, OwnFile, ThemeTypes, ThemeManifests
<1>. QED
  BY <1>1, <1>2, <1>3, <1>4, EditorGoes, ThemeTurn

LEMMA ValidateThemeStep ==
  ASSUME ThemeInv, NEW e \in Editors, ValidateTheme(e)
  PROVE  ThemeInv'
<1>. DEFINE at == IF ~Valid THEN "undo_manifest"
                  ELSE IF editor[e].op = "reset" THEN "unlink" ELSE "revise"
<1>1. /\ editor[e].at = "validate" /\ overlap' = overlap
      /\ UNCHANGED <<manifest, local, form, backup, edits, themeCut, showing>>
      /\ EditGoes(e, at)
  BY DEF ValidateTheme, Kept
<1>2. ThemeTypes /\ at \in Late /\ at \in Early \union Late /\ editor[e] \in EditRow
      /\ at \notin {"write", "read"}
  BY DEF ThemeInv, Late, ThemeTypes
<1>3. /\ editor' \in [Editors -> EditRow]
      /\ editor'[e] = [editor[e] EXCEPT !.at = at] /\ editor'[e].at = at /\ at # "idle"
      /\ \A d \in Editors : d # e => editor'[d] = editor[d]
      /\ \A d \in Editors : RowWhole(editor'[d])
  <2>. HIDE DEF at
  <2>. QED
    BY <1>1, <1>2, EditorGoes
<1>4. ThemeTypes'
  BY <1>1, <1>2, <1>3 DEF ThemeTypes
<1>5. ASSUME ~overlap PROVE Stands(editor[e])'
  <2>1. Stands(editor[e])
    BY <1>1, <1>5, ThemeStands
  <2>. QED
    BY <1>1, <1>2, <1>3, <2>1 DEF Stands, SaveStands, ResetStands, ManifestStands, Declares,
       EditRow, Early, Late, Reachable, Valid, OldShown, OldWhole, OwnFile
<1>. QED
  <2>. HIDE DEF at
  <2>. QED
    BY <1>1, <1>3, <1>4, <1>5, ThemeStands, ThemeTurn

LEMMA UnlinkStep ==
  ASSUME ThemeInv, NEW e \in Editors, Unlink(e)
  PROVE  ThemeInv'
<1>1. /\ editor[e].at = "unlink" /\ overlap' = overlap
      /\ UNCHANGED <<manifest, form, backup, edits, themeCut, showing>>
      /\ local' = [local EXCEPT ![editor[e].file] = Absent] /\ EditGoes(e, "revise")
  BY DEF Unlink, Kept
<1>2. ThemeTypes /\ "revise" \in Early \union Late /\ editor[e] \in EditRow
  BY DEF ThemeInv, Late, ThemeTypes
<1>3. ThemeTypes'
  <2>1. Absent \in Int
    BY DEF Absent
  <2>2. local \in [Files -> Int]
    BY <1>2 DEF ThemeTypes
  <2>3. local' \in [Files -> Int]
    BY <1>1, <2>1, <2>2
  <2>. QED
    BY <1>1, <1>2, <2>3, EditorGoes DEF ThemeTypes
<1>4. ASSUME ~overlap PROVE Stands(editor[e])'
  <2>1. editor'[e] = [editor[e] EXCEPT !.at = "revise"]
    BY <1>1, <1>2, EditorGoes
  <2>2. Stands(editor[e])
    BY <1>1, <1>4, ThemeStands
  <2>. QED
    BY <1>1, <1>2, <2>1, <2>2 DEF Stands, SaveStands, ResetStands, ManifestStands, Declares,
       EditRow, Early, Late, Reachable, Valid, OldShown, OldWhole, OwnFile, ThemeTypes, ThemeManifests
<1>. QED
  BY <1>1, <1>2, <1>3, <1>4, EditorGoes, ThemeStands, ThemeTurn

\* The edit has succeeded: readers get what it declared.
LEMMA CreateRevisionStep ==
  ASSUME ThemeInv, NEW e \in Editors, CreateRevision(e)
  PROVE  ThemeInv'
<1>. DEFINE row == editor[e]
<1>1. /\ row.at = "revise" /\ overlap' = overlap /\ Leaves(e)
      /\ UNCHANGED <<manifest, local, form, edits, themeCut>>
      /\ backup' = IF row.op = "manifest" THEN backup
                   ELSE [backup EXCEPT ![row.file] = [before |-> row.before,
                           after |-> IF row.op = "save" THEN row.content ELSE Absent]]
      /\ showing' = [f \in Files |->
           CASE row.op = "save" /\ f = row.file  -> row.content
             [] row.op = "reset" /\ f = row.file -> Parent
             [] row.op = "manifest"              -> IF f \in row.declares THEN local[f] ELSE Parent
             [] OTHER                            -> showing[f]]
  BY DEF CreateRevision, Kept
<1>2. ThemeTypes /\ row \in EditRow
  BY DEF ThemeInv, ThemeTypes
<1>3. backup' \in [Files -> [before: Int, after: Int]]
  <2>. DEFINE kept == [before |-> row.before,
                       after |-> IF row.op = "save" THEN row.content ELSE Absent]
  <2>1. kept \in [before: Int, after: Int]
    BY <1>2 DEF EditRow, Absent
  <2>2. backup \in [Files -> [before: Int, after: Int]]
    BY <1>2 DEF ThemeTypes
  <2>3. backup' = IF row.op = "manifest" THEN backup ELSE [backup EXCEPT ![row.file] = kept]
    BY <1>1
  <2>. HIDE DEF kept
  <2>. QED
    BY <2>1, <2>2, <2>3
<1>4. showing' \in [Files -> Int]
  BY <1>1, <1>2 DEF ThemeTypes, EditRow, Parent
<1>5. ThemeTypes'
  BY <1>1, <1>2, <1>3, <1>4, EditorLeaves DEF ThemeTypes
<1>6. ASSUME ~overlap PROVE AtRest'
  <2>1. Stands(row)
    BY <1>1, <1>6, ThemeStands
  <2>2. Reachable'
    BY <1>1, <2>1 DEF Stands, Reachable, Valid
  <2>3. ASSUME themeCut = {} PROVE ShownNow'
    <3>1. OldShown(row) /\ manifest.files = Declares(row)
      BY <1>1, <2>1, <2>3 DEF Stands, Late
    <3>. QED
      BY <1>1, <1>2, <2>1, <3>1 DEF Stands, SaveStands, ResetStands, ManifestStands, Declares,
         EditRow, OldShown, OwnFile, ShownNow
  <2>. QED
    BY <1>1, <2>2, <2>3 DEF AtRest
<1>. QED
  BY <1>1, <1>2, <1>5, <1>6, EditorLeaves, ThemeStands, ThemeTurn

LEMMA StepFailsStep ==
  ASSUME ThemeInv, NEW e \in Editors, StepFails(e)
  PROVE  ThemeInv'
<1>1. /\ editor[e].at \in {"create", "write", "read", "declare", "undeclare", "validate",
                           "unlink", "revise"}
      /\ IF editor[e].at = "create" THEN Leaves(e) ELSE EditGoes(e, "undo_manifest")
      /\ overlap' = overlap
      /\ UNCHANGED <<manifest, local, form, backup, edits, themeCut, showing>>
  BY DEF StepFails, Kept
<1>2. ThemeTypes /\ "undo_manifest" \in Early \union Late /\ editor[e] \in EditRow
      /\ editor[e].at # "idle"
  BY <1>1 DEF ThemeInv, Late, ThemeTypes
<1>3. CASE editor[e].at = "create"
  <2>1. ThemeTypes'
    BY <1>1, <1>2, <1>3, EditorLeaves DEF ThemeTypes
  <2>2. ASSUME ~overlap PROVE AtRest'
    BY <1>1, <1>2, <1>3, <2>2, ThemeStands DEF Stands, ResetStands, AtRest, Reachable, Valid, ShownNow, Late
  <2>. QED
    BY <1>1, <1>2, <1>3, <2>1, <2>2, EditorLeaves, ThemeStands, ThemeTurn
<1>4. CASE editor[e].at # "create"
  <2>1. ThemeTypes'
    BY <1>1, <1>2, <1>4, EditorGoes DEF ThemeTypes
  <2>2. ASSUME ~overlap PROVE Stands(editor[e])'
    <3>1. editor'[e] = [editor[e] EXCEPT !.at = "undo_manifest"]
      BY <1>1, <1>2, <1>4, EditorGoes
    <3>2. Stands(editor[e])
      BY <1>2, <2>2, ThemeStands
    <3>. QED
      BY <1>1, <1>2, <1>4, <3>1, <3>2 DEF Stands, SaveStands, ResetStands, ManifestStands,
         EditRow, Early, Late, Reachable, Valid, OldShown, OldWhole, OwnFile
  <2>. QED
    BY <1>1, <1>2, <1>4, <2>1, <2>2, EditorGoes, ThemeStands, ThemeTurn
<1>. QED
  BY <1>3, <1>4

LEMMA UndoManifestStep ==
  ASSUME ThemeInv, NEW e \in Editors, UndoManifest(e)
  PROVE  ThemeInv'
<1>1. /\ editor[e].at = "undo_manifest" /\ overlap' = overlap
      /\ UNCHANGED <<local, form, backup, edits, themeCut, showing>>
      /\ manifest' = editor[e].old
      /\ IF editor[e].op = "manifest" THEN Leaves(e) ELSE EditGoes(e, "undo_file")
  BY DEF UndoManifest, Kept
<1>2. ThemeTypes /\ "undo_file" \in Early \union Late /\ editor[e] \in EditRow
  BY DEF ThemeInv, Late, ThemeTypes
<1>3. manifest' \in ThemeManifests
  BY <1>1, <1>2 DEF EditRow
<1>4. ~overlap => Stands(editor[e]) /\ OldWhole(editor[e]) /\ editor[e].old.there
  BY <1>1, ThemeStands DEF Stands, Late
<1>5. CASE editor[e].op = "manifest"
  <2>1. ThemeTypes'
    BY <1>1, <1>2, <1>3, <1>5, EditorLeaves DEF ThemeTypes
  <2>2. ASSUME ~overlap PROVE AtRest'
    BY <1>1, <1>2, <1>4, <1>5, <2>2
       DEF Stands, AtRest, Reachable, Valid, ShownNow, OldShown, OldWhole, OwnFile, Late
  <2>. QED
    BY <1>1, <1>2, <1>4, <1>5, <2>1, <2>2, EditorLeaves, ThemeTurn
<1>6. CASE editor[e].op # "manifest"
  <2>1. ThemeTypes'
    BY <1>1, <1>2, <1>3, <1>6, EditorGoes DEF ThemeTypes
  <2>2. ASSUME ~overlap PROVE Stands(editor[e])'
    <3>1. editor'[e] = [editor[e] EXCEPT !.at = "undo_file"]
      BY <1>1, <1>2, <1>6, EditorGoes
    <3>. QED
      BY <1>1, <1>2, <1>4, <1>6, <2>2, <3>1 DEF Stands, SaveStands, ResetStands, ManifestStands,
         EditRow, Early, Late, Reachable, Valid, OldShown, OldWhole, OwnFile
  <2>. QED
    BY <1>1, <1>2, <1>4, <1>6, <2>1, <2>2, EditorGoes, ThemeTurn
<1>. QED
  BY <1>5, <1>6

\* What was there before the edit is there again.
LEMMA UndoFileStep ==
  ASSUME ThemeInv, NEW e \in Editors, UndoFile(e)
  PROVE  ThemeInv'
<1>. DEFINE row == editor[e]
<1>1. /\ row.at = "undo_file" /\ overlap' = overlap /\ Leaves(e)
      /\ UNCHANGED <<manifest, form, backup, edits, themeCut, showing>>
  BY DEF UndoFile, Kept
<1>2. ThemeTypes /\ row \in EditRow /\ row.before \in Int /\ local \in [Files -> Int]
  BY DEF ThemeInv, ThemeTypes, EditRow
<1>3. local' = [local EXCEPT ![row.file] =
                  IF row.op = "reset" /\ local[row.file] # Absent THEN local[row.file] ELSE row.before]
  BY <1>2 DEF UndoFile, Undone
<1>4. local' \in [Files -> Int]
  BY <1>2, <1>3
<1>5. ThemeTypes'
  BY <1>1, <1>2, <1>4, EditorLeaves DEF ThemeTypes
<1>6. ASSUME ~overlap PROVE AtRest'
  <2>1. Stands(row) /\ OldWhole(row) /\ manifest = row.old /\ row.op # "manifest" /\ row.file \in Files
    BY <1>1, <1>6, ThemeStands DEF Stands, Late, SaveStands, ResetStands, ManifestStands, Early, EditRow
  <2>2. local' = [local EXCEPT ![row.file] = row.before]
    BY <1>1, <1>3, <2>1 DEF Stands, ResetStands
  <2>3. Reachable'
    BY <1>1, <1>2, <2>1, <2>2 DEF Reachable, Valid, OldWhole, OwnFile
  <2>4. ASSUME themeCut = {} PROVE ShownNow'
    BY <1>1, <1>2, <2>1, <2>2, <2>4 DEF Stands, ShownNow, OldShown, OwnFile, Late
  <2>. QED
    BY <1>1, <2>3, <2>4 DEF AtRest
<1>. QED
  BY <1>1, <1>2, <1>5, <1>6, EditorLeaves, ThemeStands, ThemeTurn

\* A kill leaves a theme that validates, except in the one step.
LEMMA EditKilledStep ==
  ASSUME ThemeInv, NEW e \in Editors, EditKilled(e)
  PROVE  ThemeInv'
<1>. DEFINE row == editor[e]
<1>1. /\ row # Idle /\ overlap' = overlap /\ Leaves(e)
      /\ themeCut' = themeCut \cup {<<row.op, row.at>>}
      /\ UNCHANGED <<manifest, local, form, backup, edits, showing>>
  BY DEF EditKilled
<1>2. ThemeTypes /\ row.at # "idle"
  BY <1>1 DEF ThemeInv, ThemeTypes, RowWhole
<1>3. ThemeTypes'
  BY <1>1, <1>2, EditorLeaves DEF ThemeTypes
<1>4. ASSUME ~overlap PROVE AtRest'
  <2>1. Stands(row)
    BY <1>2, <1>4, ThemeStands
  <2>2. ASSUME <<"reset", "undo_file">> \notin themeCut' PROVE Reachable'
    BY <1>1, <2>1, <2>2 DEF Stands, Reachable, Valid
  <2>3. themeCut' # {}
    BY <1>1
  <2>. QED
    BY <2>2, <2>3 DEF AtRest
<1>. QED
  BY <1>1, <1>2, <1>3, <1>4, EditorLeaves, ThemeStands, ThemeTurn

-----------------------------------------------------------------------------
\* A request begins when its process is idle; if another one is at work the
\* processes overlap.
LEMMA BeginsKeep ==
  ASSUME ThemeInv, NEW e \in Editors, NEW row \in EditRow, Begins(e, row),
         RowWhole(row), row.at # "idle",
         ~overlap /\ AtRest => Stands(row)
  PROVE  ThemeInv'
<1>1. /\ editor[e] = Idle /\ edits' = edits + 1
      /\ editor' = [editor EXCEPT ![e] = row]
      /\ overlap' = (overlap \/ Editing # {})
      /\ UNCHANGED <<manifest, local, form, backup, showing, themeCut>>
  BY DEF Begins
<1>2. ThemeTypes
  BY DEF ThemeInv
<1>3. /\ editor' \in [Editors -> EditRow] /\ editor'[e] = row
      /\ \A d \in Editors : d # e => editor'[d] = editor[d]
      /\ \A d \in Editors : RowWhole(editor'[d])
  BY <1>1, <1>2, EditorWritten
<1>4. ThemeTypes'
  BY <1>1, <1>2, <1>3 DEF ThemeTypes
<1>5. ASSUME ~overlap' PROVE Alone'
  <2>1. ~overlap /\ Editing = {}
    BY <1>1, <1>5
  <2>2. Editing' = {e}
    BY <1>3, <2>1 DEF Editing
  <2>3. ~manifest'.there => manifest'.files = {}
    BY <1>1, <2>1 DEF ThemeInv, Alone
  <2>4. AtRest
    BY <2>1 DEF ThemeInv, Alone
  <2>5. Stands(row)'
    BY <1>1, <2>1, <2>4 DEF Stands, SaveStands, ResetStands, ManifestStands, Reachable, Valid,
       OldShown, OldWhole, ShownNow
  <2>. QED
    BY <1>3, <1>5, <2>2, <2>3, <2>5 DEF Alone
<1>. QED
  BY <1>4, <1>5 DEF ThemeInv, Alone

LEMMA SaveBegins ==
  ASSUME ThemeInv, NEW e \in Editors, NEW f \in Files, NEW text \in Int, text # Absent, Reachable,
         Begins(e, [Idle EXCEPT !.at = "ensure", !.op = "save", !.file = f, !.content = text])
  PROVE  ThemeInv'
<1>. DEFINE row == [Idle EXCEPT !.at = "ensure", !.op = "save", !.file = f, !.content = text]
<1>1. /\ row \in EditRow /\ row.at = "ensure" /\ row.op = "save" /\ row.file = f
      /\ row.content = text
  <2>1. Idle \in EditRow /\ "ensure" \in Early \union Late
    BY IdleRow DEF Early, Late
  <2>. HIDE DEF Idle
  <2>. QED
    BY <2>1 DEF EditRow
<1>2. Begins(e, row)
  OBVIOUS
<1>. HIDE DEF row
<1>3. RowWhole(row)
  BY <1>1 DEF RowWhole
<1>4. AtRest => Stands(row)
  BY <1>1 DEF Stands, SaveStands, ResetStands, ManifestStands, AtRest, Early, Late
<1>. QED
  BY <1>1, <1>2, <1>3, <1>4, BeginsKeep

LEMMA ResetBegins ==
  ASSUME ThemeInv, NEW e \in Editors, NEW f \in Files, Valid, local[f] # Absent,
         Begins(e, [Idle EXCEPT !.at = "undeclare", !.op = "reset", !.file = f,
                                !.before = local[f], !.old = manifest, !.read = manifest.files])
  PROVE  ThemeInv'
<1>. DEFINE row == [Idle EXCEPT !.at = "undeclare", !.op = "reset", !.file = f,
                                !.before = local[f], !.old = manifest, !.read = manifest.files]
<1>1. manifest \in ThemeManifests /\ manifest.files \in SUBSET Files /\ local[f] \in Int
  BY DEF ThemeInv, ThemeTypes, ThemeManifests
<1>2. /\ row \in EditRow /\ row.at = "undeclare" /\ row.op = "reset" /\ row.file = f
      /\ row.before = local[f] /\ row.old = manifest /\ row.read = manifest.files
  <2>1. Idle \in EditRow /\ "undeclare" \in Early \union Late
    BY IdleRow DEF Early, Late
  <2>. HIDE DEF Idle
  <2>. QED
    BY <1>1, <2>1 DEF EditRow
<1>3. Begins(e, row)
  OBVIOUS
<1>. HIDE DEF row
<1>4. RowWhole(row)
  BY <1>2 DEF RowWhole
<1>5. AtRest => Stands(row)
  BY <1>1, <1>2 DEF Stands, SaveStands, ResetStands, ManifestStands, AtRest, Reachable, Valid,
     Early, Late, OldWhole, OldShown, OwnFile, ShownNow
<1>. QED
  BY <1>2, <1>3, <1>4, <1>5, BeginsKeep

LEMMA ManifestBegins ==
  ASSUME ThemeInv, NEW e \in Editors, NEW files \in SUBSET Files, ThemeManifestSave(e, files)
  PROVE  ThemeInv'
<1>. DEFINE old == [there |-> TRUE, files |-> manifest.files]
            row == [Idle EXCEPT !.at = "ensure", !.op = "manifest", !.declares = files, !.old = old]
<1>1. /\ Reachable /\ \A f \in files : local[f] # Absent
      /\ Begins(e, row)
  BY DEF ThemeManifestSave
<1>2. old \in ThemeManifests /\ old.there /\ old.files = manifest.files
  BY DEF ThemeInv, ThemeTypes, ThemeManifests
<1>. HIDE DEF old
<1>3. /\ row \in EditRow /\ row.at = "ensure" /\ row.op = "manifest" /\ row.declares = files
      /\ row.old = old
  <2>1. Idle \in EditRow /\ "ensure" \in Early \union Late
    BY IdleRow DEF Early, Late
  <2>. HIDE DEF Idle
  <2>. QED
    BY <1>2, <2>1 DEF EditRow
<1>. HIDE DEF row
<1>4. RowWhole(row)
  BY <1>3 DEF RowWhole
<1>5. AtRest => Stands(row)
  BY <1>1, <1>2, <1>3 DEF Stands, SaveStands, ResetStands, ManifestStands, AtRest, Early, Late
<1>. QED
  BY <1>1, <1>3, <1>4, <1>5, BeginsKeep

LEMMA ThemeStepInv ==
  ASSUME ThemeInv, [ThemeNext]_themeVars
  PROVE  ThemeInv'
<1>1. CASE UNCHANGED themeVars
  BY <1>1 DEF themeVars, ThemeInv, ThemeTypes, Alone, Editing, AtRest, Reachable, Valid, ShownNow,
     Stands, SaveStands, ResetStands, ManifestStands, OldWhole, OldShown
<1>2. ASSUME NEW e \in Editors, ThemeFileEdit(e) PROVE ThemeInv'
  <2>1. UNCHANGED <<folder, manifest, local, editor, backup, edits, cuts, showing, overlap, themeCut>>
    BY <1>2 DEF ThemeFileEdit
  <2>2. form' \in [Editors -> [Files -> Int]]
    <3>1. \A f \in Files : Effective(f) \in Int
      BY DEF Effective, Parent, ThemeInv, ThemeTypes
    <3>. QED
      BY <1>2, <3>1 DEF ThemeFileEdit, ThemeInv, ThemeTypes
  <2>. QED
    BY <2>1, <2>2 DEF ThemeInv, ThemeTypes, Alone, Editing, AtRest, Reachable, Valid, ShownNow,
       Stands, SaveStands, ResetStands, ManifestStands, OldWhole, OldShown
<1>3. ASSUME NEW e \in Editors, NEW f \in Files, ThemeFileSave(e, f) PROVE ThemeInv'
  <2>1. edits + 1 \in Int /\ edits + 1 # Absent
    BY DEF ThemeInv, ThemeTypes, Absent
  <2>. QED
    BY <1>3, <2>1, SaveBegins DEF ThemeFileSave
<1>4. ASSUME NEW e \in Editors, NEW f \in Files, ThemeOverrideReset(e, f) PROVE ThemeInv'
  BY <1>4, ResetBegins DEF ThemeOverrideReset
<1>5. ASSUME NEW e \in Editors, NEW f \in Files, ThemeRevisionRestore(e, f) PROVE ThemeInv'
  <2>1. CASE backup[f].before = Absent
    BY <1>5, <2>1, ResetBegins DEF ThemeRevisionRestore
  <2>2. CASE backup[f].before # Absent
    <3>1. backup[f].before \in Int
      BY DEF ThemeInv, ThemeTypes
    <3>2. Reachable
      BY <1>5 DEF ThemeRevisionRestore, Reachable
    <3>. QED
      BY <1>5, <2>2, <3>1, <3>2, SaveBegins DEF ThemeRevisionRestore
  <2>. QED
    BY <2>1, <2>2
<1>. QED
  BY <1>1, <1>2, <1>3, <1>4, <1>5, ManifestBegins, EnsureStep, CreateManifestStep, SnapshotStep,
     WriteFileStep, ReadManifestStep, WriteManifestStep, UndeclareStep, ValidateThemeStep, UnlinkStep,
     CreateRevisionStep, StepFailsStep, UndoManifestStep, UndoFileStep, EditKilledStep DEF ThemeNext

\* For any number of files, server processes, edits and kills.
THEOREM ThemeInvariance == ThemeSpec => []ThemeInv
<1>1. ThemeInit => ThemeInv
  <2>1. Absent \in Int /\ Parent \in Int /\ NoManifest \in ThemeManifests
    BY DEF Absent, Parent, NoManifest, ThemeManifests
  <2>2. Idle \in EditRow /\ Idle.at = "idle" /\ RowWhole(Idle)
    BY IdleRow
  <2>3. ASSUME ThemeInit PROVE ThemeTypes
    <3>. HIDE DEF Idle
    <3>. QED
      BY <2>1, <2>2, <2>3 DEF ThemeInit, ThemeTypes
  <2>4. ASSUME ThemeInit PROVE Alone
    <3>1. Editing = {}
      BY <2>2, <2>4 DEF ThemeInit, Editing
    <3>2. ~manifest.there /\ manifest.files = {}
      BY <2>4 DEF ThemeInit, NoManifest
    <3>3. Reachable /\ ShownNow
      BY <2>4, <3>2 DEF ThemeInit, Reachable, ShownNow
    <3>. QED
      BY <3>1, <3>2, <3>3 DEF Alone, AtRest
  <2>. QED
    BY <2>3, <2>4 DEF ThemeInv
<1>2. ThemeInv /\ [ThemeNext]_themeVars => ThemeInv'
  BY ThemeStepInv
<1>. QED
  BY <1>1, <1>2, PTL DEF ThemeSpec

\* The theorem about the theme editor (save_override, reset_override and
\* write_manifest_override of themes/management.py): while the server processes
\* take turns, a child that is there validates whatever fails and wherever an
\* edit is killed, but for the kill of a reset that is being undone; and until
\* an edit is killed every file shows what the last edit that returned made it.
THEOREM EditsAreWhole == ThemeSpec => []EditIsWhole
<1>1. ThemeInv => EditIsWhole
  <2> SUFFICES ASSUME ThemeInv, ~overlap PROVE EditIsWhole
    BY DEF EditIsWhole
  <2>1. ASSUME manifest.there, <<"reset", "undo_file">> \notin themeCut
        PROVE  Valid \/ \E e \in Editors : editor[e].at = "undo_file"
    <3>1. CASE Editing = {}
      BY <2>1, <3>1 DEF ThemeInv, Alone, AtRest, Reachable
    <3>2. CASE Editing # {}
      BY <2>1, <3>2 DEF ThemeInv, Alone, Stands, Reachable, Editing
    <3>. QED
      BY <3>1, <3>2
  <2>2. ASSUME Editing = {}, themeCut = {}, NEW f \in Files PROVE Effective(f) = showing[f]
    <3>1. /\ showing[f] = IF f \in manifest.files THEN local[f] ELSE Parent
          /\ manifest.there => Valid
          /\ ~manifest.there => manifest.files = {}
      BY <2>2 DEF ThemeInv, Alone, AtRest, Reachable, ShownNow
    <3>. QED
      BY <3>1 DEF Effective, Valid
  <2>. QED
    BY <2>1, <2>2 DEF EditIsWhole
<1>. QED
  BY <1>1, ThemeInvariance, PTL

-----------------------------------------------------------------------------
(***************************************************************************)
(* Comments: the inductive invariant.                                      *)
(***************************************************************************)
Outcomes    == {"approve", "restore", "reject", "spam", "delete"}
CommentRow  == [status: Statuses \union {"none"}, author: Authors, body: Nat, token: Nat, links: Nat,
                lapsed: BOOLEAN, withdrawn: BOOLEAN, federated: BOOLEAN,
                told: {"none", "note", "tombstone"}]
RevisionRow == [comment: Comments, immediate: BOOLEAN, status: {"pending", "approved", "rejected"}]
DecisionRow == [type: {"comment", "revision"}, comment: Comments, rev: Nat,
                by: Moderators \union {"auto"}, outcome: Outcomes, replaces: Nat]
Confirms    == [op: {"confirm"}, comment: Comments, link: Nat, next: {"approved", "pending_moderation"}]
Moderates   == [op: {"moderate"}, comment: Comments, by: Moderators, outcome: Outcomes,
                seen: Statuses \union {"none"}]
Reviews     == [op: {"review"}, comment: Comments, appealed: Nat, by: Moderators,
                verdict: {"upheld", "overturned"}, seen: Statuses \union {"none"}]

Flights     == {NoRequest} \union Confirms \union Moderates \union Reviews

CommentTypes ==
  /\ comment \in [Comments -> CommentRow]
  /\ revision \in Seq(RevisionRow)
  /\ decision \in Seq(DecisionRow)
  /\ flight \in [Requests -> Flights]

\* What a request carries from its read to its write.
Carries(q) ==
  /\ q.op = "moderate" => q.outcome \in Allowed(q.seen)
  /\ q.op = "review" =>
       /\ q.appealed \in 1..Len(decision)
       /\ decision[q.appealed].comment = q.comment
       /\ q.verdict = "overturned" /\ decision[q.appealed].type = "comment" =>
            q.seen \in {"rejected", "spam", "deleted"}

\* A decision about a revision names one of the comment it is about.
DecisionsName ==
  \A d \in 1..Len(decision) :
    decision[d].type = "revision" =>
      /\ decision[d].rev \in 1..Len(revision)
      /\ revision[decision[d].rev].comment = decision[d].comment

\* Only a remote author withdraws, and who has not withdrawn finds the comment
\* as the greatest of the decisions on it says.
LastOf(S, d) == d \in S /\ \A e \in S : e <= d

StatusExplained(c) ==
  /\ comment[c].withdrawn => comment[c].author = "remote" /\ comment[c].status = "deleted"
  /\ ~comment[c].withdrawn =>
       \/ /\ DecisionsOn(c) = {}
          /\ comment[c].status \in {"none", "pending_confirmation", "pending_moderation"}
       \/ \E d \in DecisionsOn(c) : /\ LastOf(DecisionsOn(c), d)
                                    /\ comment[c].status = NextStatus(decision[d].outcome)

\* Nothing is recorded of a comment that nobody posted.
Unposted(c) == comment[c].status = "none" => DecisionsOn(c) = {} /\ RevisionsOf(c) = {}

HistoryLegal(c) ==
  comment[c].author # "remote" =>
    \A d, e \in DecisionsOn(c) :
      d < e /\ (\A x \in DecisionsOn(c) : x <= d \/ x >= e) =>
        decision[e].outcome \in Allowed(NextStatus(decision[d].outcome))

\* An edit that waits was the last to need a review.
PendingLast ==
  \A i, j \in 1..Len(revision) :
    /\ revision[i].status = "pending" /\ i < j /\ revision[i].comment = revision[j].comment
    => revision[j].immediate

GivenBack(n) == \E d \in 1..Len(decision) : /\ decision[d].type = "revision"
                                            /\ decision[d].rev = n
                                            /\ decision[d].replaces # 0

TextExplained(c) ==
  \/ comment[c].body = 0 /\ ApprovedOf(c) = {}
  \/ /\ comment[c].body \in ApprovedOf(c)
     /\ \E n \in ApprovedOf(c) :
          /\ LastOf(ApprovedOf(c), n)
          /\ comment[c].body = n \/ GivenBack(comment[c].body) \/ revision[n].immediate

CommentsInv ==
  /\ CommentTypes /\ DecisionsName /\ PendingLast
  /\ \A r \in Requests : Carries(flight[r])
  /\ \A c \in Comments : /\ StatusExplained(c) /\ HistoryLegal(c) /\ Unposted(c)
                         /\ TextExplained(c)

-----------------------------------------------------------------------------
\* The tables are append-only: nothing that was decided is decided otherwise.
Recorded == \A d \in 1..Len(decision) : d \in 1..Len(decision') /\ decision'[d] = decision[d]

LEMMA DecisionAppended ==
  ASSUME CommentTypes, NEW new \in DecisionRow, decision' = Append(decision, new)
  PROVE  /\ decision' \in Seq(DecisionRow) /\ Len(decision) \in Nat /\ Recorded
         /\ 1..Len(decision') = (1..Len(decision)) \union {Len(decision) + 1}
         /\ Len(decision) + 1 \notin 1..Len(decision)
         /\ decision'[Len(decision) + 1] = new
<1>1. decision \in Seq(DecisionRow)
  BY DEF CommentTypes
<1>. QED
  BY <1>1 DEF Recorded

\* A new decision is on its comment, and on no other.
LEMMA DecisionsOnAppended ==
  ASSUME CommentTypes, NEW new \in DecisionRow, decision' = Append(decision, new),
         NEW c \in Comments
  PROVE  DecisionsOn(c)' = IF new.type = "comment" /\ new.comment = c
                           THEN DecisionsOn(c) \union {Len(decision) + 1} ELSE DecisionsOn(c)
  BY DecisionAppended DEF DecisionsOn, Recorded

LEMMA DecisionsOnRange ==
  ASSUME CommentTypes, NEW c \in Comments
  PROVE  /\ DecisionsOn(c) \subseteq 1..Len(decision) /\ Len(decision) \in Nat
         /\ \A d \in DecisionsOn(c) : d \in Nat /\ decision[d].outcome \in Outcomes
<1>1. decision \in Seq(DecisionRow)
  BY DEF CommentTypes
<1>2. \A d \in 1..Len(decision) : decision[d] \in DecisionRow
  BY <1>1
<1>. QED
  BY <1>1, <1>2 DEF DecisionsOn, DecisionRow

\* The row operators.
LEMMA ToldRow ==
  ASSUME NEW row \in CommentRow, NEW activity \in {"Create", "Update", "Delete"}
  PROVE  /\ Told(row, activity) \in CommentRow
         /\ Told(row, activity).status = row.status /\ Told(row, activity).author = row.author
         /\ Told(row, activity).body = row.body /\ Told(row, activity).withdrawn = row.withdrawn
  BY DEF Told, CommentRow

LEMMA Nexts ==
  ASSUME NEW outcome \in Outcomes
  PROVE  NextStatus(outcome) \in {"approved", "rejected", "spam", "deleted"}
  BY DEF Outcomes, NextStatus

LEMMA ModeratedRow ==
  ASSUME NEW row \in CommentRow, NEW outcome \in Outcomes
  PROVE  /\ Moderated(row, outcome) \in CommentRow
         /\ Moderated(row, outcome).status = NextStatus(outcome)
         /\ ~Moderated(row, outcome).withdrawn
         /\ Moderated(row, outcome).author = row.author
         /\ Moderated(row, outcome).body = row.body
<1>. DEFINE new == [row EXCEPT !.status = NextStatus(outcome), !.withdrawn = FALSE]
<1>1. /\ new \in CommentRow /\ new.status = NextStatus(outcome) /\ ~new.withdrawn
      /\ new.author = row.author /\ new.body = row.body
  BY Nexts DEF CommentRow, Statuses
<1>2. Moderated(row, outcome) \in {new, Told(new, "Create"), Told(new, "Delete")}
  BY DEF Moderated, Outcomes
<1>. HIDE DEF new
<1>. QED
  BY <1>1, <1>2, ToldRow

\* Where nothing is decided about a comment, its record explains it as before.
LEMMA StatusKeeps ==
  ASSUME NEW c \in Comments, DecisionsOn(c)' = DecisionsOn(c),
         \A d \in DecisionsOn(c) : decision'[d] = decision[d],
         comment'[c].status = comment[c].status, comment'[c].author = comment[c].author,
         comment'[c].withdrawn = comment[c].withdrawn
  PROVE  /\ StatusExplained(c) => StatusExplained(c)'
         /\ HistoryLegal(c) => HistoryLegal(c)'
<1>1. StatusExplained(c) => StatusExplained(c)'
  BY DEF StatusExplained, LastOf
<1>2. HistoryLegal(c) => HistoryLegal(c)'
  BY DEF HistoryLegal
<1>. QED
  BY <1>1, <1>2

\* Where its revisions and its body stand still, so is the text.
LEMMA TextKeeps ==
  ASSUME NEW c \in Comments, Recorded, ApprovedOf(c)' = ApprovedOf(c),
         \A n \in ApprovedOf(c) : revision'[n].immediate = revision[n].immediate,
         comment'[c].body = comment[c].body, TextExplained(c)
  PROVE  TextExplained(c)'
<1>1. \A n : GivenBack(n) => GivenBack(n)'
  BY DEF GivenBack, Recorded
<1>. QED
  BY <1>1 DEF TextExplained, LastOf

\* A decision that the state of the comment allows explains the state it leaves.
LEMMA DecidesKeep ==
  ASSUME CommentTypes, NEW c \in Comments, StatusExplained(c), HistoryLegal(c),
         NEW new \in DecisionRow, new.type = "comment", new.comment = c,
         decision' = Append(decision, new),
         comment'[c].status = NextStatus(new.outcome), ~comment'[c].withdrawn,
         \/ DecisionsOn(c) = {}
         \/ /\ comment'[c].author = comment[c].author
            /\ new.outcome \in Allowed(comment[c].status)
  PROVE  StatusExplained(c)' /\ HistoryLegal(c)'
<1>. DEFINE n == Len(decision) + 1
<1>1. /\ DecisionsOn(c)' = DecisionsOn(c) \union {n} /\ decision'[n] = new
      /\ \A d \in DecisionsOn(c) : decision'[d] = decision[d] /\ d \in Nat /\ d < n
      /\ n \in Nat
  BY DecisionAppended, DecisionsOnAppended, DecisionsOnRange DEF Recorded
<1>. HIDE DEF n
<1>2. LastOf(DecisionsOn(c)', n)
  BY <1>1 DEF LastOf
<1>3. StatusExplained(c)'
  BY <1>1, <1>2 DEF StatusExplained
<1>4. HistoryLegal(c)'
  <2> SUFFICES ASSUME comment'[c].author # "remote",
                      NEW d \in DecisionsOn(c)', NEW e \in DecisionsOn(c)', d < e,
                      \A x \in DecisionsOn(c)' : x <= d \/ x >= e
               PROVE  decision'[e].outcome \in Allowed(NextStatus(decision'[d].outcome))
    BY DEF HistoryLegal
  <2>1. d \in DecisionsOn(c)
    BY <1>1
  <2>2. CASE e \in DecisionsOn(c)
    <3>1. \A x \in DecisionsOn(c) : x <= d \/ x >= e
      BY <1>1
    <3>2. comment[c].author # "remote"
      BY <2>1
    <3>. QED
      BY <1>1, <2>1, <2>2, <3>1, <3>2 DEF HistoryLegal
  <2>3. CASE e = n
    <3>1. comment[c].author # "remote" /\ new.outcome \in Allowed(comment[c].status)
      BY <2>1
    <3>2. PICK last \in DecisionsOn(c) : /\ LastOf(DecisionsOn(c), last)
                                         /\ comment[c].status = NextStatus(decision[last].outcome)
      BY <2>1, <3>1 DEF StatusExplained
    <3>3. last = d
      <4>1. last <= d \/ last >= n
        BY <1>1, <2>3
      <4>2. d <= last
        BY <2>1, <3>2 DEF LastOf
      <4>. QED
        BY <1>1, <2>1, <4>1, <4>2
    <3>. QED
      BY <1>1, <2>1, <2>3, <3>1, <3>2, <3>3
  <2>. QED
    BY <1>1, <2>2, <2>3
<1>. QED
  BY <1>3, <1>4

LEMMA CarriesStill ==
  ASSUME Recorded, NEW q, Carries(q)
  PROVE  Carries(q)'
  BY DEF Recorded, Carries

\* A request that ends carries nothing, and the others what they did.
LEMMA FlightStill ==
  ASSUME CommentsInv, Recorded,
         flight' = flight \/ \E r \in Requests : flight' = [flight EXCEPT ![r] = NoRequest]
  PROVE  flight' \in [Requests -> Flights] /\ \A r \in Requests : Carries(flight[r])'
<1>1. flight \in [Requests -> Flights] /\ \A r \in Requests : Carries(flight[r])
  BY DEF CommentsInv, CommentTypes
<1>2. Carries(NoRequest) /\ NoRequest \in Flights
  BY DEF Carries, NoRequest, Flights
<1>. HIDE DEF NoRequest
<1>3. flight' \in [Requests -> Flights]
  BY <1>1, <1>2
<1>4. \A r \in Requests : flight'[r] = flight[r] \/ flight'[r] = NoRequest
  BY <1>1
<1>5. ASSUME NEW r \in Requests PROVE Carries(flight[r])'
  <2>1. PICK q : q = flight'[r] /\ Carries(q)
    BY <1>1, <1>2, <1>4
  <2>2. Carries(q)'
    BY <2>1, CarriesStill
  <2>. QED
    BY <2>1, <2>2
<1>. QED
  BY <1>3, <1>5

\* The texts, while no edit is made or reviewed.
LEMMA TextsStill ==
  ASSUME CommentsInv, UNCHANGED revision, Recorded,
         \A d \in 1..Len(decision') : d \in 1..Len(decision) \/ decision'[d].type = "comment",
         \A c \in Comments : comment'[c].body = comment[c].body
  PROVE  /\ DecisionsName' /\ PendingLast'
         /\ \A c \in Comments : TextExplained(c)' /\ RevisionsOf(c)' = RevisionsOf(c)
<1>1. DecisionsName'
  BY DEF CommentsInv, DecisionsName, Recorded
<1>2. PendingLast'
  BY DEF CommentsInv, PendingLast
<1>3. ASSUME NEW c \in Comments PROVE TextExplained(c)' /\ RevisionsOf(c)' = RevisionsOf(c)
  <2>1. ApprovedOf(c)' = ApprovedOf(c) /\ RevisionsOf(c)' = RevisionsOf(c)
    BY DEF ApprovedOf, RevisionsOf
  <2>. QED
    BY <2>1, TextKeeps DEF CommentsInv
<1>. QED
  BY <1>1, <1>2, <1>3

\* What only changes tokens, links and lapses, or where the requests stand.
LEMMA RowsKeep ==
  ASSUME CommentsInv, UNCHANGED <<revision, decision>>, comment' \in [Comments -> CommentRow],
         \A c \in Comments : /\ comment'[c].status = comment[c].status
                             /\ comment'[c].author = comment[c].author
                             /\ comment'[c].withdrawn = comment[c].withdrawn
                             /\ comment'[c].body = comment[c].body,
         flight' \in [Requests -> Flights], \A r \in Requests : Carries(flight[r])'
  PROVE  CommentsInv'
<1>1. Recorded
  BY DEF Recorded
<1>2. CommentTypes'
  BY DEF CommentsInv, CommentTypes
<1>3. /\ DecisionsName' /\ PendingLast'
      /\ \A c \in Comments : TextExplained(c)' /\ RevisionsOf(c)' = RevisionsOf(c)
  BY <1>1, TextsStill
<1>4. ASSUME NEW c \in Comments PROVE StatusExplained(c)' /\ HistoryLegal(c)' /\ Unposted(c)'
  <2>1. DecisionsOn(c)' = DecisionsOn(c)
    BY DEF DecisionsOn
  <2>. QED
    BY <1>3, <2>1, StatusKeeps DEF CommentsInv, Unposted
<1>. QED
  BY <1>2, <1>3, <1>4 DEF CommentsInv

LEMMA ReadsCommentStep ==
  ASSUME CommentsInv, NEW r \in Requests, NEW q \in Flights, Carries(q),
         flight' = [flight EXCEPT ![r] = q], UNCHANGED <<comment, revision, decision>>
  PROVE  CommentsInv'
<1>1. flight \in [Requests -> Flights] /\ comment \in [Comments -> CommentRow] /\ Recorded
  BY DEF CommentsInv, CommentTypes, Recorded
<1>2. /\ flight' \in [Requests -> Flights]
      /\ \A s \in Requests : flight'[s] = IF s = r THEN q ELSE flight[s]
  BY <1>1
<1>3. ASSUME NEW s \in Requests PROVE Carries(flight[s])'
  <2>1. PICK p : p = flight'[s] /\ Carries(p)
    BY <1>2 DEF CommentsInv
  <2>2. Carries(p)'
    BY <1>1, <2>1, CarriesStill
  <2>. QED
    BY <2>1, <2>2
<1>. QED
  BY <1>1, <1>2, <1>3, RowsKeep

\* One comment has its status decided, or comes to wait for a decision.
LEMMA OneDecided ==
  ASSUME CommentsInv, NEW c \in Comments, NEW row \in CommentRow,
         comment' = [comment EXCEPT ![c] = row], row.body = comment[c].body, row.status # "none",
         UNCHANGED revision, Recorded, decision' \in Seq(DecisionRow),
         \A d \in 1..Len(decision') : d \in 1..Len(decision) \/ decision'[d].type = "comment",
         \A d \in Comments : d # c => DecisionsOn(d)' = DecisionsOn(d),
         StatusExplained(c)', HistoryLegal(c)',
         flight' = flight \/ \E r \in Requests : flight' = [flight EXCEPT ![r] = NoRequest]
  PROVE  CommentsInv'
<1>1. comment \in [Comments -> CommentRow]
  BY DEF CommentsInv, CommentTypes
<1>2. /\ comment' \in [Comments -> CommentRow] /\ comment'[c] = row
      /\ \A d \in Comments : d # c => comment'[d] = comment[d]
  BY <1>1
<1>3. flight' \in [Requests -> Flights] /\ \A r \in Requests : Carries(flight[r])'
  BY FlightStill
<1>4. /\ DecisionsName' /\ PendingLast'
      /\ \A d \in Comments : TextExplained(d)' /\ RevisionsOf(d)' = RevisionsOf(d)
  BY <1>2, TextsStill
<1>5. CommentTypes'
  BY <1>2, <1>3 DEF CommentsInv, CommentTypes
<1>6. ASSUME NEW d \in Comments PROVE StatusExplained(d)' /\ HistoryLegal(d)' /\ Unposted(d)'
  <2>1. CASE d = c
    BY <1>2, <2>1 DEF Unposted
  <2>2. CASE d # c
    <3>1. \A e \in DecisionsOn(d) : decision'[e] = decision[e]
      BY DEF DecisionsOn, Recorded
    <3>. QED
      BY <1>2, <1>4, <2>2, <3>1, StatusKeeps DEF CommentsInv, Unposted
  <2>. QED
    BY <2>1, <2>2
<1>. QED
  BY <1>3, <1>4, <1>5, <1>6 DEF CommentsInv

\* A decision of a moderator, of the policy, or of who reviews an appeal.
LEMMA DecidesStep ==
  ASSUME CommentsInv, NEW c \in Comments, NEW row \in CommentRow, NEW new \in DecisionRow,
         new.type = "comment", new.comment = c, decision' = Append(decision, new),
         comment' = [comment EXCEPT ![c] = row], row.body = comment[c].body,
         row.status = NextStatus(new.outcome), ~row.withdrawn,
         \/ DecisionsOn(c) = {}
         \/ row.author = comment[c].author /\ new.outcome \in Allowed(comment[c].status),
         UNCHANGED revision,
         flight' = flight \/ \E r \in Requests : flight' = [flight EXCEPT ![r] = NoRequest]
  PROVE  CommentsInv'
<1>1. comment'[c] = row
  BY DEF CommentsInv, CommentTypes
<1>2. CommentTypes /\ StatusExplained(c) /\ HistoryLegal(c)
  BY DEF CommentsInv
<1>3. StatusExplained(c)' /\ HistoryLegal(c)'
  BY <1>1, <1>2, DecidesKeep
<1>4. /\ decision' \in Seq(DecisionRow) /\ Recorded
      /\ \A d \in 1..Len(decision') : d \in 1..Len(decision) \/ decision'[d].type = "comment"
  BY <1>2, DecisionAppended
<1>5. \A d \in Comments : d # c => DecisionsOn(d)' = DecisionsOn(d)
  BY <1>2, DecisionsOnAppended
<1>6. row.status # "none"
  BY Nexts DEF DecisionRow
<1>. QED
  BY <1>3, <1>4, <1>5, <1>6, OneDecided

LEMMA Publication ==
  ASSUME NEW mode, NEW author, NEW trusted
  PROVE  PublicationState(mode, author, trusted) \in {"approved", "pending_moderation"}
  BY DEF PublicationState

\* Nothing was recorded of a comment before it is posted.
LEMMA CreateCommentStep ==
  ASSUME CommentsInv, NEW c \in Comments, NEW author \in Authors, NEW mode, NEW trusted,
         NEW blocked \in BOOLEAN, NEW confirm \in BOOLEAN, NEW federated \in BOOLEAN,
         CreateComment(c, author, mode, trusted, blocked, confirm, federated)
  PROVE  CommentsInv'
<1>. DEFINE held   == author = "guest" /\ confirm
            status == CASE blocked -> "spam"
                        [] ~blocked /\ held  -> "pending_confirmation"
                        [] ~blocked /\ ~held -> PublicationState(mode, author, trusted)
            link   == IF status = "pending_confirmation" THEN 1 ELSE 0
            row    == [NotPosted EXCEPT !.status = status, !.author = author,
                         !.token = link, !.links = link,
                         !.federated = federated /\ author = "user"]
            posted == IF status = "approved" THEN Told(row, "Create") ELSE row
            outcome == IF status = "spam" THEN "spam" ELSE "approve"
            new    == Decision("comment", c, 0, "auto", outcome, 0)
<1>1. /\ comment[c].status = "none" /\ comment' = [comment EXCEPT ![c] = posted]
      /\ IF status \in {"approved", "spam"} THEN decision' = Append(decision, new)
                                            ELSE UNCHANGED decision
      /\ UNCHANGED <<revision, flight>>
  BY DEF CreateComment, NewDecision
<1>2. status \in {"spam", "pending_confirmation", "approved", "pending_moderation"}
  BY Publication
<1>3. link \in Nat
  OBVIOUS
<1>. HIDE DEF status, link
<1>4. /\ row \in CommentRow /\ row.status = status /\ ~row.withdrawn /\ row.body = 0
  BY <1>2, <1>3 DEF NotPosted, CommentRow, Statuses, Authors
<1>. HIDE DEF row
<1>5. /\ posted \in CommentRow /\ posted.status = status /\ ~posted.withdrawn /\ posted.body = 0
  BY <1>4, ToldRow
<1>. HIDE DEF posted
<1>6. new \in DecisionRow /\ new.type = "comment" /\ new.comment = c /\ new.outcome = outcome
  BY DEF Decision, DecisionRow, Outcomes
<1>7. DecisionsOn(c) = {} /\ comment[c].body = 0
  BY <1>1 DEF CommentsInv, Unposted, TextExplained, ApprovedOf
<1>8. CASE status \in {"approved", "spam"}
  <2>1. NextStatus(outcome) = status
    BY <1>8 DEF NextStatus
  <2>. HIDE DEF new, outcome
  <2>. QED
    BY <1>1, <1>5, <1>6, <1>7, <1>8, <2>1, DecidesStep
<1>9. CASE status \notin {"approved", "spam"}
  <2>1. Recorded /\ decision' \in Seq(DecisionRow) /\ decision' = decision
    BY <1>1, <1>9 DEF Recorded, CommentsInv, CommentTypes
  <2>2. \A d \in Comments : DecisionsOn(d)' = DecisionsOn(d)
    BY <2>1 DEF DecisionsOn
  <2>3. comment'[c] = posted
    BY <1>1 DEF CommentsInv, CommentTypes
  <2>4. StatusExplained(c)' /\ HistoryLegal(c)'
    BY <1>2, <1>5, <1>7, <1>9, <2>2, <2>3 DEF StatusExplained, HistoryLegal
  <2>. QED
    BY <1>1, <1>2, <1>5, <1>7, <2>1, <2>2, <2>4, OneDecided
<1>. QED
  BY <1>8, <1>9

LEMMA LinkStep ==
  ASSUME CommentsInv, NEW c \in Comments, LinkLapses(c) \/ CommentConfirmationResend(c)
  PROVE  CommentsInv'
<1>1. comment \in [Comments -> CommentRow] /\ comment[c] \in CommentRow
  BY DEF CommentsInv, CommentTypes
<1>2. PICK row \in CommentRow : /\ comment' = [comment EXCEPT ![c] = row]
                                /\ row.status = comment[c].status /\ row.author = comment[c].author
                                /\ row.withdrawn = comment[c].withdrawn /\ row.body = comment[c].body
  <2>1. CASE LinkLapses(c)
    <3>. DEFINE row == [comment[c] EXCEPT !.lapsed = TRUE]
    <3>1. /\ row \in CommentRow /\ row.status = comment[c].status /\ row.author = comment[c].author
          /\ row.withdrawn = comment[c].withdrawn /\ row.body = comment[c].body
      BY <1>1 DEF CommentRow
    <3>2. comment' = [comment EXCEPT ![c] = row]
      BY <2>1 DEF LinkLapses
    <3>. HIDE DEF row
    <3>. QED
      BY <3>1, <3>2
  <2>2. CASE CommentConfirmationResend(c)
    <3>1. /\ NewLink(comment[c]) \in CommentRow
          /\ NewLink(comment[c]).status = comment[c].status
          /\ NewLink(comment[c]).author = comment[c].author
          /\ NewLink(comment[c]).withdrawn = comment[c].withdrawn
          /\ NewLink(comment[c]).body = comment[c].body
      <4>1. comment[c].token + 1 \in Nat /\ comment[c].links + 1 \in Nat
        BY <1>1 DEF CommentRow
      <4>. QED
        BY <1>1, <4>1 DEF CommentRow, NewLink
    <3>2. comment' = [comment EXCEPT ![c] = NewLink(comment[c])]
      BY <1>1, <2>2 DEF CommentConfirmationResend
    <3>. QED
      BY <3>1, <3>2
  <2>. QED
    BY <2>1, <2>2
<1>3. UNCHANGED <<revision, decision, flight>>
  BY DEF LinkLapses, CommentConfirmationResend
<1>4. Recorded
  BY <1>3 DEF Recorded
<1>5. /\ comment' \in [Comments -> CommentRow]
      /\ \A d \in Comments : /\ comment'[d].status = comment[d].status
                             /\ comment'[d].author = comment[d].author
                             /\ comment'[d].withdrawn = comment[d].withdrawn
                             /\ comment'[d].body = comment[d].body
  BY <1>1, <1>2
<1>. QED
  BY <1>3, <1>4, <1>5, FlightStill, RowsKeep

LEMMA ConfirmReadStep ==
  ASSUME CommentsInv, NEW r \in Requests, NEW c \in Comments, NEW link \in 1..MaxLinks, NEW mode,
         ConfirmRead(r, c, link, mode)
  PROVE  CommentsInv'
<1>. DEFINE q == [op |-> "confirm", comment |-> c, link |-> link,
                  next |-> PublicationState(mode, "guest", FALSE)]
<1>1. /\ q \in Flights /\ q.op = "confirm"
  <2>1. link \in Nat
    BY CommentsAssumption
  <2>2. PublicationState(mode, "guest", FALSE) \in {"approved", "pending_moderation"}
    BY Publication
  <2>. QED
    BY <2>1, <2>2 DEF Flights, Confirms
<1>2. flight' = [flight EXCEPT ![r] = q] /\ UNCHANGED <<comment, revision, decision>>
  BY DEF ConfirmRead
<1>. HIDE DEF q
<1>3. Carries(q)
  BY <1>1 DEF Carries
<1>. QED
  BY <1>1, <1>2, <1>3, ReadsCommentStep

LEMMA ModerateReadStep ==
  ASSUME CommentsInv, NEW r \in Requests, NEW c \in Comments, NEW m \in Moderators,
         NEW outcome \in Outcomes, ModerateRead(r, c, m, outcome)
  PROVE  CommentsInv'
<1>. DEFINE q == [op |-> "moderate", comment |-> c, by |-> m, outcome |-> outcome,
                  seen |-> comment[c].status]
<1>1. comment[c].status \in Statuses \union {"none"}
  BY DEF CommentsInv, CommentTypes, CommentRow
<1>2. /\ q \in Flights /\ q.op = "moderate" /\ q.outcome = outcome /\ q.seen = comment[c].status
  BY <1>1 DEF Flights, Moderates
<1>3. /\ flight' = [flight EXCEPT ![r] = q] /\ UNCHANGED <<comment, revision, decision>>
      /\ outcome \in Allowed(comment[c].status)
  BY DEF ModerateRead
<1>. HIDE DEF q
<1>4. Carries(q)
  BY <1>2, <1>3 DEF Carries
<1>. QED
  BY <1>2, <1>3, <1>4, ReadsCommentStep

LEMMA ReviewReadStep ==
  ASSUME CommentsInv, NEW r \in Requests, NEW d \in 1..Len(decision), NEW m \in Moderators,
         NEW verdict \in {"upheld", "overturned"}, ReviewRead(r, d, m, verdict)
  PROVE  CommentsInv'
<1>. DEFINE c == decision[d].comment
            q == [op |-> "review", comment |-> c, appealed |-> d, by |-> m, verdict |-> verdict,
                  seen |-> comment[c].status]
<1>1. decision \in Seq(DecisionRow) /\ d \in Nat
  BY DEF CommentsInv, CommentTypes
<1>2. c \in Comments
  <2>1. decision[d] \in DecisionRow
    BY <1>1
  <2>. QED
    BY <2>1 DEF DecisionRow
<1>3. comment[c].status \in Statuses \union {"none"}
  BY <1>2 DEF CommentsInv, CommentTypes, CommentRow
<1>4. /\ q \in Flights /\ q.op = "review" /\ q.appealed = d /\ q.comment = c
      /\ q.verdict = verdict /\ q.seen = comment[c].status
  BY <1>1, <1>2, <1>3 DEF Flights, Reviews
<1>5. /\ flight' = [flight EXCEPT ![r] = q] /\ UNCHANGED <<comment, revision, decision>>
      /\ verdict = "overturned" /\ decision[d].type = "comment" =>
           comment[c].status \in {"rejected", "spam", "deleted"}
  BY DEF ReviewRead
<1>. HIDE DEF q
<1>6. Carries(q)
  BY <1>4, <1>5 DEF Carries
<1>. QED
  BY <1>4, <1>5, <1>6, ReadsCommentStep

\* What kind of request it is tells what it carries.
LEMMA FlightKinds ==
  ASSUME CommentsInv, NEW r \in Requests
  PROVE  /\ flight[r] \in Flights /\ Carries(flight[r])
         /\ flight[r].op = "confirm" => flight[r] \in Confirms
         /\ flight[r].op = "moderate" => flight[r] \in Moderates
         /\ flight[r].op = "review" => flight[r] \in Reviews
<1>1. flight[r] \in Flights /\ Carries(flight[r])
  BY DEF CommentsInv, CommentTypes
<1>2. NoRequest.op = "none"
  BY DEF NoRequest
<1>3. /\ \A q \in Confirms : q.op = "confirm"
      /\ \A q \in Moderates : q.op = "moderate"
      /\ \A q \in Reviews : q.op = "review"
  BY DEF Confirms, Moderates, Reviews
<1>. QED
  BY <1>1, <1>2, <1>3 DEF Flights

\* Nobody decided about a comment whose address is not confirmed.
LEMMA CommentConfirmStep ==
  ASSUME CommentsInv, NEW r \in Requests, CommentConfirm(r)
  PROVE  CommentsInv'
<1>. DEFINE q == flight[r]
<1>1. q \in Confirms
  BY FlightKinds DEF CommentConfirm
<1>2. PICK c \in Comments : c = q.comment /\ q.next \in {"approved", "pending_moderation"}
  BY <1>1 DEF Confirms
<1>. DEFINE row == [comment[c] EXCEPT !.status = q.next, !.token = 0]
            new == Decision("comment", c, 0, "auto", "approve", 0)
<1>. HIDE DEF q
<1>3. comment \in [Comments -> CommentRow] /\ comment[c] \in CommentRow
  BY <1>2 DEF CommentsInv, CommentTypes
<1>4. /\ row \in CommentRow /\ row.status = q.next /\ row.author = comment[c].author
      /\ row.withdrawn = comment[c].withdrawn /\ row.body = comment[c].body
  BY <1>2, <1>3 DEF CommentRow, Statuses
<1>5. /\ comment[c].status = "pending_confirmation"
      /\ comment' = [comment EXCEPT ![c] = row]
      /\ IF q.next = "approved" THEN decision' = Append(decision, new) ELSE UNCHANGED decision
      /\ flight' = [flight EXCEPT ![r] = NoRequest]
      /\ UNCHANGED revision
  BY <1>2, <1>3 DEF CommentConfirm, LinkValid, Confirmed, NewDecision, q
<1>. HIDE DEF row
<1>6. DecisionsOn(c) = {} /\ ~comment[c].withdrawn
  <2>1. \A d \in DecisionsOn(c) : NextStatus(decision[d].outcome) # "pending_confirmation"
    BY <1>2, DecisionsOnRange, Nexts DEF CommentsInv
  <2>2. StatusExplained(c)
    BY <1>2 DEF CommentsInv
  <2>. QED
    BY <1>5, <2>1, <2>2 DEF StatusExplained
<1>7. CASE q.next = "approved"
  <2>1. new \in DecisionRow /\ new.type = "comment" /\ new.comment = c /\ new.outcome = "approve"
    BY <1>2 DEF Decision, DecisionRow, Outcomes
  <2>2. NextStatus("approve") = "approved"
    BY DEF NextStatus
  <2>. HIDE DEF new
  <2>. QED
    BY <1>2, <1>4, <1>5, <1>6, <1>7, <2>1, <2>2, DecidesStep
<1>8. CASE q.next # "approved"
  <2>1. Recorded /\ decision' \in Seq(DecisionRow) /\ decision' = decision
    BY <1>5, <1>8 DEF Recorded, CommentsInv, CommentTypes
  <2>2. \A d \in Comments : DecisionsOn(d)' = DecisionsOn(d)
    BY <2>1 DEF DecisionsOn
  <2>3. comment'[c] = row
    BY <1>2, <1>3, <1>5
  <2>4. row.status = "pending_moderation"
    BY <1>2, <1>4, <1>8
  <2>5. StatusExplained(c)' /\ HistoryLegal(c)'
    BY <1>2, <1>4, <1>6, <2>2, <2>3, <2>4 DEF StatusExplained, HistoryLegal
  <2>. QED
    BY <1>2, <1>4, <1>5, <2>1, <2>2, <2>4, <2>5, OneDecided
<1>. QED
  BY <1>7, <1>8

\* The update names the status that was read, from which the decision is allowed.
LEMMA ApplyStep ==
  ASSUME CommentsInv, NEW r \in Requests, ApplyCommentDecision(r)
  PROVE  CommentsInv'
<1>. DEFINE q == flight[r]
<1>1. q \in Moderates /\ q.outcome \in Allowed(q.seen)
  BY FlightKinds DEF ApplyCommentDecision, Carries
<1>2. PICK c \in Comments : c = q.comment /\ q.outcome \in Outcomes /\ q.by \in Moderators
  BY <1>1 DEF Moderates
<1>. DEFINE row == Moderated(comment[c], q.outcome)
            new == Decision("comment", c, 0, q.by, q.outcome, 0)
<1>. HIDE DEF q
<1>3. comment \in [Comments -> CommentRow] /\ comment[c] \in CommentRow
  BY <1>2 DEF CommentsInv, CommentTypes
<1>4. /\ row \in CommentRow /\ row.status = NextStatus(q.outcome) /\ ~row.withdrawn
      /\ row.author = comment[c].author /\ row.body = comment[c].body
  BY <1>2, <1>3, ModeratedRow
<1>5. /\ comment[c].status = q.seen
      /\ comment' = [comment EXCEPT ![c] = row]
      /\ decision' = Append(decision, new)
      /\ flight' = [flight EXCEPT ![r] = NoRequest]
      /\ UNCHANGED revision
  BY <1>2, <1>3 DEF ApplyCommentDecision, StillSeen, NewDecision, q
<1>6. new \in DecisionRow /\ new.type = "comment" /\ new.comment = c /\ new.outcome = q.outcome
  BY <1>2 DEF Decision, DecisionRow
<1>. HIDE DEF row, new
<1>. QED
  BY <1>1, <1>2, <1>4, <1>5, <1>6, DecidesStep

LEMMA RemoteDeleteStep ==
  ASSUME CommentsInv, NEW c \in Comments, RemoteDelete(c)
  PROVE  CommentsInv'
<1>. DEFINE row == [comment[c] EXCEPT !.status = "deleted", !.token = 0, !.withdrawn = TRUE]
<1>1. comment \in [Comments -> CommentRow] /\ comment[c] \in CommentRow
  BY DEF CommentsInv, CommentTypes
<1>2. /\ row \in CommentRow /\ row.status = "deleted" /\ row.author = comment[c].author
      /\ row.withdrawn /\ row.body = comment[c].body
  BY <1>1 DEF CommentRow, Statuses
<1>3. /\ comment[c].author = "remote" /\ comment' = [comment EXCEPT ![c] = row]
      /\ UNCHANGED <<revision, decision, flight>>
  BY <1>1 DEF RemoteDelete
<1>. HIDE DEF row
<1>4. Recorded /\ decision' \in Seq(DecisionRow) /\ decision' = decision
  BY <1>3 DEF Recorded, CommentsInv, CommentTypes
<1>5. \A d \in Comments : DecisionsOn(d)' = DecisionsOn(d)
  BY <1>4 DEF DecisionsOn
<1>6. comment'[c] = row
  BY <1>1, <1>3
<1>7. StatusExplained(c)' /\ HistoryLegal(c)'
  BY <1>2, <1>3, <1>6 DEF StatusExplained, HistoryLegal
<1>. QED
  BY <1>2, <1>3, <1>4, <1>5, <1>7, OneDecided

-----------------------------------------------------------------------------
LEMMA RevisionAppended ==
  ASSUME CommentTypes, NEW new \in RevisionRow, revision' = Append(revision, new)
  PROVE  /\ revision' \in Seq(RevisionRow) /\ Len(revision) \in Nat
         /\ 1..Len(revision') = (1..Len(revision)) \union {Len(revision) + 1}
         /\ Len(revision) + 1 \notin 1..Len(revision)
         /\ revision'[Len(revision) + 1] = new
         /\ \A i \in 1..Len(revision) : revision'[i] = revision[i]
<1>1. revision \in Seq(RevisionRow)
  BY DEF CommentTypes
<1>. QED
  BY <1>1

\* A revision is reviewed.
LEMMA RevisionSet ==
  ASSUME CommentTypes, NEW i \in 1..Len(revision), NEW verdict \in {"approved", "rejected"},
         revision' = [revision EXCEPT ![i].status = verdict]
  PROVE  /\ revision' \in Seq(RevisionRow) /\ Len(revision) \in Nat /\ Len(revision') = Len(revision)
         /\ \A j \in 1..Len(revision) :
              /\ revision'[j].comment = revision[j].comment
              /\ revision'[j].immediate = revision[j].immediate
              /\ revision'[j].status = IF j = i THEN verdict ELSE revision[j].status
<1>1. revision \in Seq(RevisionRow) /\ revision[i] \in RevisionRow
  BY DEF CommentTypes
<1>. DEFINE new == [revision[i] EXCEPT !.status = verdict]
<1>2. /\ new \in RevisionRow /\ new.comment = revision[i].comment
      /\ new.immediate = revision[i].immediate /\ new.status = verdict
  BY <1>1 DEF RevisionRow
<1>3. revision' = [revision EXCEPT ![i] = new]
  OBVIOUS
<1>. HIDE DEF new
<1>4. /\ revision' \in Seq(RevisionRow) /\ Len(revision) \in Nat /\ Len(revision') = Len(revision)
      /\ revision'[i] = new /\ \A j \in 1..Len(revision) : j # i => revision'[j] = revision[j]
  BY <1>1, <1>2, <1>3
<1>. QED
  BY <1>2, <1>4

LEMMA RevisionRange ==
  ASSUME CommentTypes
  PROVE  /\ Len(revision) \in Nat
         /\ \A i \in 1..Len(revision) : i \in Nat /\ i # 0 /\ revision[i].comment \in Comments
         /\ \A c \in Comments : ApprovedOf(c) \subseteq 1..Len(revision)
<1>1. revision \in Seq(RevisionRow)
  BY DEF CommentTypes
<1>2. \A i \in 1..Len(revision) : revision[i] \in RevisionRow
  BY <1>1
<1>. QED
  BY <1>1, <1>2 DEF RevisionRow, ApprovedOf, RevisionsOf

\* An approved revision is the text.  It is the newest approved one, or it waited
\* while the newest was published without review, or an appeal gave it back.
LEMMA TextWritten ==
  ASSUME CommentsInv, NEW i \in 1..Len(revision), NEW c \in Comments, revision[i].comment = c,
         revision' = [revision EXCEPT ![i].status = "approved"], comment'[c].body = i,
         revision[i].status = "pending" \/ GivenBack(i)'
  PROVE  TextExplained(c)'
<1>1. /\ CommentTypes /\ TextExplained(c) /\ PendingLast
      /\ Len(revision) \in Nat /\ i \in Nat
  BY RevisionRange DEF CommentsInv
<1>2. /\ Len(revision') = Len(revision)
      /\ \A j \in 1..Len(revision) :
           /\ revision'[j].comment = revision[j].comment
           /\ revision'[j].immediate = revision[j].immediate
           /\ revision'[j].status = IF j = i THEN "approved" ELSE revision[j].status
  BY <1>1, RevisionSet
<1>3. ApprovedOf(c)' = ApprovedOf(c) \union {i}
  BY <1>2 DEF ApprovedOf, RevisionsOf
<1>4. CASE \A j \in ApprovedOf(c) : j <= i
  BY <1>1, <1>3, <1>4 DEF TextExplained, LastOf
<1>5. CASE \E j \in ApprovedOf(c) : ~(j <= i)
  <2>1. PICK n \in ApprovedOf(c) : LastOf(ApprovedOf(c), n)
    BY <1>1, <1>5 DEF TextExplained
  <2>2. n \in 1..Len(revision) /\ revision[n].comment = c
    BY DEF ApprovedOf, RevisionsOf
  <2>3. i < n
    <3>1. PICK j \in ApprovedOf(c) : ~(j <= i)
      BY <1>5
    <3>2. j <= n /\ j \in Nat /\ n \in Nat
      BY <1>1, <2>1, RevisionRange DEF LastOf
    <3>. QED
      BY <1>1, <3>1, <3>2
  <2>4. LastOf(ApprovedOf(c)', n)
    BY <1>1, <1>3, <2>1, <2>2, <2>3 DEF LastOf
  <2>5. revision[i].status = "pending" => revision'[n].immediate
    BY <1>1, <1>2, <2>2, <2>3 DEF PendingLast
  <2>. QED
    BY <1>3, <2>1, <2>4, <2>5 DEF TextExplained
<1>. QED
  BY <1>4, <1>5

\* A review of a revision, by a moderator or on appeal, that leaves every status
\* but that of the revision.
LEMMA RevisionReviewed ==
  ASSUME CommentsInv, NEW i \in 1..Len(revision), NEW c \in Comments, revision[i].comment = c,
         NEW verdict \in {"approved", "rejected"},
         revision' = [revision EXCEPT ![i].status = verdict],
         NEW new \in DecisionRow, decision' = Append(decision, new),
         new.type = "revision", new.comment = c, new.rev = i,
         NEW row \in CommentRow, comment' = [comment EXCEPT ![c] = row],
         row.status = comment[c].status, row.author = comment[c].author,
         row.withdrawn = comment[c].withdrawn,
         row.body = IF verdict = "approved" THEN i ELSE comment[c].body,
         \/ revision[i].status = "pending"
         \/ verdict = "approved" /\ new.replaces # 0,
         flight' = flight \/ \E r \in Requests : flight' = [flight EXCEPT ![r] = NoRequest]
  PROVE  CommentsInv'
<1>1. CommentTypes /\ PendingLast /\ DecisionsName
  BY DEF CommentsInv
<1>2. /\ revision' \in Seq(RevisionRow) /\ Len(revision') = Len(revision)
      /\ \A j \in 1..Len(revision) :
           /\ revision'[j].comment = revision[j].comment
           /\ revision'[j].immediate = revision[j].immediate
           /\ revision'[j].status = IF j = i THEN verdict ELSE revision[j].status
  BY <1>1, RevisionSet
<1>3. /\ decision' \in Seq(DecisionRow) /\ Recorded
      /\ 1..Len(decision') = (1..Len(decision)) \union {Len(decision) + 1}
      /\ decision'[Len(decision) + 1] = new
  BY <1>1, DecisionAppended
<1>4. /\ comment' \in [Comments -> CommentRow] /\ comment'[c] = row
      /\ \A d \in Comments : d # c => comment'[d] = comment[d]
  BY <1>1 DEF CommentTypes
<1>5. flight' \in [Requests -> Flights] /\ \A r \in Requests : Carries(flight[r])'
  BY <1>3, FlightStill
<1>6. CommentTypes'
  BY <1>2, <1>3, <1>4, <1>5 DEF CommentTypes
<1>7. DecisionsName'
  BY <1>1, <1>2, <1>3 DEF DecisionsName, Recorded
<1>8. PendingLast'
  BY <1>1, <1>2 DEF PendingLast
<1>9. ASSUME NEW d \in Comments
      PROVE  StatusExplained(d)' /\ HistoryLegal(d)' /\ Unposted(d)' /\ TextExplained(d)'
  <2>1. DecisionsOn(d)' = DecisionsOn(d) /\ \A e \in DecisionsOn(d) : decision'[e] = decision[e]
    BY <1>1, <1>3, DecisionsOnAppended, DecisionsOnRange DEF Recorded
  <2>2. /\ comment'[d].status = comment[d].status /\ comment'[d].author = comment[d].author
        /\ comment'[d].withdrawn = comment[d].withdrawn
    BY <1>4
  <2>3. StatusExplained(d)' /\ HistoryLegal(d)'
    BY <2>1, <2>2, StatusKeeps DEF CommentsInv
  <2>4. RevisionsOf(d)' = RevisionsOf(d)
    BY <1>2 DEF RevisionsOf
  <2>5. Unposted(d)'
    BY <2>1, <2>2, <2>4 DEF CommentsInv, Unposted
  <2>6. CASE d = c /\ verdict = "approved"
    <3>1. revision[i].status = "pending" \/ GivenBack(i)'
      BY <1>3 DEF GivenBack
    <3>. QED
      BY <1>4, <2>3, <2>5, <2>6, <3>1, TextWritten
  <2>7. CASE ~(d = c /\ verdict = "approved")
    <3>1. comment'[d].body = comment[d].body
      BY <1>4, <2>7
    <3>2. ApprovedOf(d)' = ApprovedOf(d)
      BY <1>2, <2>4, <2>7 DEF ApprovedOf, RevisionsOf
    <3>3. \A n \in ApprovedOf(d) : revision'[n].immediate = revision[n].immediate
      BY <1>1, <1>2, RevisionRange
    <3>. QED
      BY <1>3, <2>3, <2>5, <3>1, <3>2, <3>3, TextKeeps DEF CommentsInv
  <2>. QED
    BY <2>6, <2>7
<1>. QED
  BY <1>5, <1>6, <1>7, <1>8, <1>9 DEF CommentsInv

\* An author's edit: published at once it is the newest text; one that waits
\* finds no other one waiting.
LEMMA RevisionMade ==
  ASSUME CommentsInv, NEW c \in Comments, NEW new \in RevisionRow, new.comment = c,
         revision' = Append(revision, new), comment[c].status = "approved",
         \/ new.immediate /\ new.status = "approved"
         \/ new.status = "pending" /\ Pending(c) = {},
         comment' \in [Comments -> CommentRow],
         \A d \in Comments :
           /\ comment'[d].status = comment[d].status /\ comment'[d].author = comment[d].author
           /\ comment'[d].withdrawn = comment[d].withdrawn
           /\ comment'[d].body = IF d = c /\ new.status = "approved" THEN Len(revision) + 1
                                                                    ELSE comment[d].body,
         UNCHANGED <<decision, flight>>
  PROVE  CommentsInv'
<1>. DEFINE n == Len(revision) + 1
<1>1. CommentTypes /\ PendingLast /\ DecisionsName /\ Recorded
  BY DEF CommentsInv, Recorded
<1>2. /\ revision' \in Seq(RevisionRow) /\ n \in Nat
      /\ 1..Len(revision') = (1..Len(revision)) \union {n} /\ n \notin 1..Len(revision)
      /\ \A i \in 1..Len(revision) : i < n
      /\ revision'[n] = new /\ \A i \in 1..Len(revision) : revision'[i] = revision[i]
  BY <1>1, RevisionAppended
<1>3. \A d \in Comments :
        /\ comment'[d].status = comment[d].status /\ comment'[d].author = comment[d].author
        /\ comment'[d].withdrawn = comment[d].withdrawn
        /\ comment'[d].body = IF d = c /\ new.status = "approved" THEN n ELSE comment[d].body
  OBVIOUS
<1>. HIDE DEF n
<1>4. CommentTypes' /\ \A r \in Requests : Carries(flight[r])'
  BY <1>1, <1>2, FlightStill DEF CommentTypes
<1>5. DecisionsName'
  BY <1>1, <1>2 DEF DecisionsName
<1>6. PendingLast'
  <2> SUFFICES ASSUME NEW i \in 1..Len(revision'), NEW j \in 1..Len(revision'), i < j,
                      revision'[i].status = "pending", revision'[i].comment = revision'[j].comment
               PROVE  revision'[j].immediate
    BY DEF PendingLast
  <2>1. i \in 1..Len(revision)
    <3>1. CASE i = n
      <4>1. j \in Nat /\ (j \in 1..Len(revision) \/ j = n)
        BY <1>2
      <4>2. FALSE
        BY <1>2, <3>1, <4>1
      <4>. QED
        BY <4>2
    <3>. QED
      BY <1>2, <3>1
  <2>2. CASE j \in 1..Len(revision)
    BY <1>1, <1>2, <2>1, <2>2 DEF PendingLast
  <2>3. CASE j = n
    <3>1. i \in Pending(c)
      BY <1>2, <2>1, <2>3 DEF Pending, RevisionsOf
    <3>. QED
      BY <1>2, <2>3, <3>1
  <2>. QED
    BY <1>2, <2>2, <2>3
<1>7. ASSUME NEW d \in Comments
      PROVE  StatusExplained(d)' /\ HistoryLegal(d)' /\ Unposted(d)' /\ TextExplained(d)'
  <2>1. DecisionsOn(d)' = DecisionsOn(d)
    BY DEF DecisionsOn
  <2>2. StatusExplained(d)' /\ HistoryLegal(d)'
    BY <1>3, <2>1, StatusKeeps DEF CommentsInv
  <2>3. RevisionsOf(d)' = IF d = c THEN RevisionsOf(d) \union {n} ELSE RevisionsOf(d)
    BY <1>2 DEF RevisionsOf
  <2>4. Unposted(d)'
    BY <1>3, <2>1, <2>3 DEF CommentsInv, Unposted
  <2>5. CASE d = c /\ new.status = "approved"
    <3>1. ApprovedOf(d)' = ApprovedOf(d) \union {n} /\ new.immediate
      BY <1>2, <2>3, <2>5 DEF ApprovedOf, RevisionsOf
    <3>2. LastOf(ApprovedOf(d)', n)
      BY <1>1, <1>2, <3>1, RevisionRange DEF LastOf
    <3>. QED
      BY <1>3, <2>2, <2>4, <2>5, <3>1, <3>2 DEF TextExplained
  <2>6. CASE ~(d = c /\ new.status = "approved")
    <3>1. ApprovedOf(d)' = ApprovedOf(d)
      BY <1>2, <2>3, <2>6 DEF ApprovedOf, RevisionsOf
    <3>2. \A i \in ApprovedOf(d) : revision'[i].immediate = revision[i].immediate
      BY <1>1, <1>2, RevisionRange
    <3>. QED
      BY <1>1, <1>3, <2>2, <2>4, <2>6, <3>1, <3>2, TextKeeps DEF CommentsInv
  <2>. QED
    BY <2>5, <2>6
<1>. QED
  BY <1>4, <1>5, <1>6, <1>7 DEF CommentsInv

LEMMA ReviseStep ==
  ASSUME CommentsInv, NEW c \in Comments, NEW immediate \in BOOLEAN, Revise(c, immediate)
  PROVE  CommentsInv'
<1>. DEFINE new == [comment |-> c, immediate |-> immediate,
                    status |-> IF immediate THEN "approved" ELSE "pending"]
<1>1. /\ new \in RevisionRow /\ new.comment = c /\ new.immediate = immediate
      /\ new.status = IF immediate THEN "approved" ELSE "pending"
  BY DEF RevisionRow
<1>2. /\ comment[c].status = "approved" /\ (immediate \/ Pending(c) = {})
      /\ revision' = Append(revision, new)
      /\ comment' = IF immediate THEN [comment EXCEPT ![c].body = Len(revision) + 1] ELSE comment
      /\ UNCHANGED <<decision, flight>>
  BY DEF Revise, MayEdit
<1>. HIDE DEF new
<1>3. comment \in [Comments -> CommentRow] /\ Len(revision) + 1 \in Nat
  BY RevisionRange DEF CommentsInv, CommentTypes
<1>. DEFINE n == Len(revision) + 1
            row == [comment[c] EXCEPT !.body = n]
<1>4. n \in Nat
  BY <1>3
<1>. HIDE DEF n
<1>5. /\ row \in CommentRow /\ row.body = n /\ row.status = comment[c].status
      /\ row.author = comment[c].author /\ row.withdrawn = comment[c].withdrawn
  BY <1>3, <1>4 DEF CommentRow
<1>6. comment' = IF immediate THEN [comment EXCEPT ![c] = row] ELSE comment
  BY <1>2 DEF n
<1>. HIDE DEF row
<1>7. /\ comment' \in [Comments -> CommentRow]
      /\ \A d \in Comments :
           /\ comment'[d].status = comment[d].status /\ comment'[d].author = comment[d].author
           /\ comment'[d].withdrawn = comment[d].withdrawn
           /\ comment'[d].body = IF d = c /\ new.status = "approved" THEN n ELSE comment[d].body
  BY <1>1, <1>3, <1>5, <1>6
<1>8. \/ new.immediate /\ new.status = "approved"
      \/ new.status = "pending" /\ Pending(c) = {}
  BY <1>1, <1>2
<1>9. revision' = Append(revision, new) /\ comment[c].status = "approved"
  BY <1>2
<1>. QED
  BY <1>1, <1>2, <1>7, <1>8, <1>9, RevisionMade DEF n

LEMMA RemoteReviseStep ==
  ASSUME CommentsInv, NEW c \in Comments, RemoteRevise(c)
  PROVE  CommentsInv'
<1>. DEFINE new == [comment |-> c, immediate |-> FALSE, status |-> "pending"]
<1>1. new \in RevisionRow /\ new.comment = c /\ new.status = "pending"
  BY DEF RevisionRow
<1>2. /\ comment[c].status = "approved" /\ Pending(c) = {}
      /\ revision' = Append(revision, new)
      /\ UNCHANGED <<comment, decision, flight>>
  BY DEF RemoteRevise
<1>. HIDE DEF new
<1>3. comment' \in [Comments -> CommentRow]
  BY <1>2 DEF CommentsInv, CommentTypes
<1>. QED
  BY <1>1, <1>2, <1>3, RevisionMade

\* A moderator's verdict about an edit that waits.
LEMMA CommentRevisionDecisionStep ==
  ASSUME CommentsInv, NEW i \in 1..Len(revision), NEW m \in Moderators,
         NEW outcome \in {"approve", "reject"}, CommentRevisionDecision(i, m, outcome)
  PROVE  CommentsInv'
<1>1. PICK c \in Comments : c = revision[i].comment
  BY RevisionRange DEF CommentsInv
<1>. DEFINE verdict == IF outcome = "approve" THEN "approved" ELSE "rejected"
            text == [comment[c] EXCEPT !.body = i]
            row == IF outcome = "approve"
                   THEN IF text.told # "none" THEN Told(text, "Update") ELSE text
                   ELSE comment[c]
            new == Decision("revision", c, i, m, outcome, 0)
<1>2. comment \in [Comments -> CommentRow] /\ comment[c] \in CommentRow /\ i \in Nat
  BY RevisionRange DEF CommentsInv, CommentTypes
<1>3. /\ text \in CommentRow /\ text.body = i /\ text.status = comment[c].status
      /\ text.author = comment[c].author /\ text.withdrawn = comment[c].withdrawn
  BY <1>2 DEF CommentRow
<1>4. /\ revision[i].status = "pending"
      /\ revision' = [revision EXCEPT ![i].status = verdict]
      /\ decision' = Append(decision, new)
      /\ comment' = IF outcome = "approve" THEN [comment EXCEPT ![c] = row] ELSE comment
      /\ UNCHANGED flight
  BY <1>1 DEF CommentRevisionDecision, ModerateRevision, NewDecision
<1>. HIDE DEF text
<1>5. /\ row \in CommentRow /\ row.status = comment[c].status /\ row.author = comment[c].author
      /\ row.withdrawn = comment[c].withdrawn
      /\ row.body = IF outcome = "approve" THEN i ELSE comment[c].body
  BY <1>2, <1>3, ToldRow
<1>6. comment' = [comment EXCEPT ![c] = row]
  BY <1>2, <1>4
<1>7. /\ new \in DecisionRow /\ new.type = "revision" /\ new.comment = c /\ new.rev = i
  BY <1>2 DEF Decision, DecisionRow, Outcomes
<1>8. verdict \in {"approved", "rejected"} /\ (verdict = "approved" <=> outcome = "approve")
  OBVIOUS
<1>. HIDE DEF row, new, verdict
<1>9. /\ row.body = IF verdict = "approved" THEN i ELSE comment[c].body
      /\ revision[i].comment = c /\ flight' = flight
      /\ revision' = [revision EXCEPT ![i].status = verdict]
  BY <1>1, <1>4, <1>5, <1>8
<1>10. revision[i].status = "pending" /\ decision' = Append(decision, new)
  BY <1>4
<1>. QED
  BY <1>5, <1>6, <1>7, <1>8, <1>9, <1>10, RevisionReviewed

\* An appeal is decided once, by a transaction that still finds it pending.
LEMMA CommentAppealReviewStep ==
  ASSUME CommentsInv, NEW r \in Requests, CommentAppealReview(r)
  PROVE  CommentsInv'
<1>. DEFINE q == flight[r]
<1>1. q \in Reviews /\ Carries(q) /\ q.op = "review"
  BY FlightKinds DEF CommentAppealReview
<1>2. PICK c \in Comments, d \in 1..Len(decision), by \in Moderators :
        /\ c = q.comment /\ d = q.appealed /\ by = q.by /\ decision[d].comment = c
        /\ q.verdict = "overturned" /\ decision[d].type = "comment" =>
             q.seen \in {"rejected", "spam", "deleted"}
  BY <1>1 DEF Reviews, Carries
<1>3. /\ q.verdict = "overturned" /\ decision[d].type = "comment" => comment[c].status = q.seen
      /\ IF q.verdict = "overturned" THEN Overturn(d, by, c)
                                     ELSE UNCHANGED <<comment, revision, decision>>
      /\ flight' = [flight EXCEPT ![r] = NoRequest]
  BY <1>2 DEF CommentAppealReview, StillSeen
<1>4. CommentTypes /\ comment \in [Comments -> CommentRow] /\ comment[c] \in CommentRow
  BY DEF CommentsInv, CommentTypes
<1>5. d \in Nat /\ d # 0 /\ decision[d] \in DecisionRow
  BY <1>4 DEF CommentTypes
<1>6. CASE q.verdict # "overturned"
  <2>1. Recorded
    BY <1>3, <1>6 DEF Recorded
  <2>. QED
    BY <1>3, <1>4, <1>6, <2>1, FlightStill, RowsKeep
<1>7. CASE q.verdict = "overturned" /\ decision[d].type = "comment"
  <2>. DEFINE row == [comment[c] EXCEPT !.status = "approved", !.withdrawn = FALSE]
              new == Decision("comment", c, decision[d].rev, by, "restore", d)
  <2>1. /\ row \in CommentRow /\ row.status = "approved" /\ ~row.withdrawn
        /\ row.author = comment[c].author /\ row.body = comment[c].body
    BY <1>4 DEF CommentRow, Statuses
  <2>2. /\ new \in DecisionRow /\ new.type = "comment" /\ new.comment = c /\ new.outcome = "restore"
    BY <1>5 DEF Decision, DecisionRow, Outcomes
  <2>3. /\ comment' = [comment EXCEPT ![c] = row] /\ decision' = Append(decision, new)
        /\ UNCHANGED revision
    BY <1>3, <1>4, <1>7 DEF Overturn, NewDecision
  <2>4. NextStatus("restore") = "approved" /\ "restore" \in Allowed(comment[c].status)
    BY <1>2, <1>3, <1>7 DEF NextStatus, Allowed
  <2>. HIDE DEF row, new
  <2>. QED
    BY <1>3, <2>1, <2>2, <2>3, <2>4, DecidesStep
<1>8. CASE q.verdict = "overturned" /\ decision[d].type # "comment"
  <2>. DEFINE i == decision[d].rev
  <2>1. decision[d].type = "revision"
    BY <1>5, <1>8 DEF DecisionRow
  <2>2. PICK j \in 1..Len(revision) : j = i /\ revision[j].comment = c
    BY <1>2, <2>1 DEF CommentsInv, DecisionsName
  <2>. DEFINE row == [comment[c] EXCEPT !.body = j]
              new == Decision("revision", c, j, by, "restore", d)
  <2>3. j \in Nat
    BY RevisionRange DEF CommentsInv
  <2>4. /\ row \in CommentRow /\ row.status = comment[c].status /\ row.author = comment[c].author
        /\ row.withdrawn = comment[c].withdrawn /\ row.body = j
    BY <1>4, <2>3 DEF CommentRow
  <2>5. /\ new \in DecisionRow /\ new.type = "revision" /\ new.comment = c /\ new.rev = j
        /\ new.replaces # 0
    BY <1>5, <2>3 DEF Decision, DecisionRow, Outcomes
  <2>6. /\ comment' = [comment EXCEPT ![c] = row] /\ decision' = Append(decision, new)
        /\ revision' = [revision EXCEPT ![j].status = "approved"]
    BY <1>3, <1>4, <1>8, <2>1, <2>2 DEF Overturn, NewDecision
  <2>. HIDE DEF row, new
  <2>. QED
    BY <1>3, <2>2, <2>4, <2>5, <2>6, RevisionReviewed
<1>. QED
  BY <1>6, <1>7, <1>8

LEMMA CommentsStepInv ==
  ASSUME CommentsInv, [CommentsNext]_commentVars
  PROVE  CommentsInv'
<1>1. ASSUME UNCHANGED <<comment, revision, decision, flight>> PROVE CommentsInv'
  <2>1. Recorded /\ comment \in [Comments -> CommentRow]
    BY <1>1 DEF Recorded, CommentsInv, CommentTypes
  <2>. QED
    BY <1>1, <2>1, FlightStill, RowsKeep
<1>2. CASE UNCHANGED commentVars
  BY <1>1, <1>2 DEF commentVars
<1>3. ASSUME NEW c \in Comments, NEW mode \in Modes, NEW trusted \in BOOLEAN,
             NEW federated \in BOOLEAN,
             \/ \E author \in Authors, confirm \in BOOLEAN :
                  PostCommentSubmit(c, author, mode, trusted, confirm, federated)
             \/ OauthCommentCreate(c, mode, trusted, federated)
             \/ CreateRemoteComment(c, mode)
      PROVE  CommentsInv'
  <2>1. ASSUME NEW author \in Authors, NEW confirm \in BOOLEAN,
               PostCommentSubmit(c, author, mode, trusted, confirm, federated)
        PROVE  CommentsInv'
    <3>1. PICK flagged \in BOOLEAN, listed \in BOOLEAN :
            CreateComment(c, author, mode, trusted, Verdict(flagged, listed), confirm, federated)
      BY <2>1 DEF PostCommentSubmit
    <3>2. Verdict(flagged, listed) \in BOOLEAN
      BY DEF Verdict
    <3>. QED
      BY <3>1, <3>2, CreateCommentStep
  <2>. QED
    BY <1>3, <2>1, CreateCommentStep DEF OauthCommentCreate, CreateRemoteComment, Authors
<1>4. ASSUME NEW r \in Requests, Refused(r) PROVE CommentsInv'
  <2>1. /\ UNCHANGED <<comment, revision, decision>>
        /\ flight' = [flight EXCEPT ![r] = NoRequest]
    BY <1>4 DEF Refused
  <2>2. Recorded /\ comment \in [Comments -> CommentRow]
    BY <2>1 DEF Recorded, CommentsInv, CommentTypes
  <2>. QED
    BY <2>1, <2>2, FlightStill, RowsKeep
<1>5. ASSUME NEW d \in 1..Len(decision), CommentAppeal(d) PROVE CommentsInv'
  BY <1>1, <1>5 DEF CommentAppeal
<1>6. ASSUME NEW r \in Requests,
             \/ \E c \in Comments, link \in 1..MaxLinks, mode \in Modes :
                  ConfirmRead(r, c, link, mode)
             \/ \E c \in Comments, m \in Moderators,
                   outcome \in {"approve", "reject", "spam", "delete", "restore"} :
                  ModerateRead(r, c, m, outcome)
             \/ \E d \in 1..Len(decision), m \in Moderators,
                   verdict \in {"upheld", "overturned"} : ReviewRead(r, d, m, verdict)
             \/ CommentConfirm(r) \/ ApplyCommentDecision(r) \/ CommentAppealReview(r) \/ Refused(r)
      PROVE  CommentsInv'
  <2>1. {"approve", "reject", "spam", "delete", "restore"} = Outcomes
    BY DEF Outcomes
  <2>. QED
    BY <1>4, <1>6, <2>1, ConfirmReadStep, ModerateReadStep, ReviewReadStep, CommentConfirmStep,
       ApplyStep, CommentAppealReviewStep
<1>7. ASSUME NEW c \in Comments,
             \/ LinkLapses(c) \/ CommentConfirmationResend(c)
             \/ RemoteDelete(c) \/ RemoteRevise(c)
             \/ \E immediate \in BOOLEAN :
                  CommentEdit(c, immediate) \/ OauthCommentUpdate(c, immediate)
      PROVE  CommentsInv'
  BY <1>7, LinkStep, RemoteDeleteStep, RemoteReviseStep, ReviseStep DEF CommentEdit, OauthCommentUpdate
<1>. QED
  BY <1>2, <1>3, <1>5, <1>6, <1>7, CommentRevisionDecisionStep DEF CommentsNext

\* For any number of comments, moderators, requests, edits and decisions.
THEOREM CommentsInvariance == CommentsSpec => []CommentsInv
<1>1. CommentsInit => CommentsInv
  <2> SUFFICES ASSUME CommentsInit PROVE CommentsInv
    OBVIOUS
  <2>1. /\ NotPosted \in CommentRow /\ NotPosted.status = "none" /\ NotPosted.body = 0
        /\ ~NotPosted.withdrawn
    BY DEF NotPosted, CommentRow, Authors
  <2>2. NoRequest \in Flights /\ Carries(NoRequest)
    BY DEF Flights, NoRequest, Carries
  <2>. HIDE DEF NotPosted, NoRequest
  <2>3. /\ comment \in [Comments -> CommentRow] /\ \A c \in Comments : comment[c] = NotPosted
        /\ flight \in [Requests -> Flights] /\ \A r \in Requests : flight[r] = NoRequest
        /\ revision = <<>> /\ decision = <<>>
    BY <2>1, <2>2 DEF CommentsInit
  <2>4. 1..Len(revision) = {} /\ 1..Len(decision) = {}
    BY <2>3
  <2>5. CommentTypes
    BY <2>3 DEF CommentTypes
  <2>6. DecisionsName /\ PendingLast
    BY <2>4 DEF DecisionsName, PendingLast
  <2>7. ASSUME NEW c \in Comments
        PROVE  StatusExplained(c) /\ HistoryLegal(c) /\ Unposted(c) /\ TextExplained(c)
    <3>1. DecisionsOn(c) = {} /\ RevisionsOf(c) = {} /\ ApprovedOf(c) = {}
      BY <2>4 DEF DecisionsOn, RevisionsOf, ApprovedOf
    <3>. QED
      BY <2>1, <2>3, <3>1 DEF StatusExplained, HistoryLegal, Unposted, TextExplained
  <2>. QED
    BY <2>2, <2>3, <2>5, <2>6, <2>7 DEF CommentsInv
<1>2. CommentsInv /\ [CommentsNext]_commentVars => CommentsInv'
  BY CommentsStepInv
<1>. QED
  BY <1>1, <1>2, PTL DEF CommentsSpec

\* The theorem about moderation (moderate_comment, record_automatic_decision and
\* review_comment_appeal of comments/moderation.py): however requests overtake
\* each other, the decisions on a comment are a legal history and the last one
\* says in which state the comment is; only a remote author's withdrawal
\* changes it without a decision.
THEOREM DecisionsExplain == CommentsSpec => []RecordExplains
<1>1. CommentsInv => RecordExplains
  <2> SUFFICES ASSUME CommentsInv, NEW c \in Comments
               PROVE  /\ IF comment[c].withdrawn THEN comment[c].status = "deleted"
                         ELSE IF DecisionsOn(c) = {}
                         THEN comment[c].status \in
                                {"none", "pending_confirmation", "pending_moderation"}
                         ELSE comment[c].status = NextStatus(decision[LastDecision(c)].outcome)
                      /\ HistoryLegal(c)
    BY DEF RecordExplains, HistoryLegal
  <2>1. StatusExplained(c) /\ HistoryLegal(c)
    BY DEF CommentsInv
  <2>2. ASSUME NEW d \in DecisionsOn(c), LastOf(DecisionsOn(c), d) PROVE LastDecision(c) = d
    <3>1. LastDecision(c) \in DecisionsOn(c) /\ \A e \in DecisionsOn(c) : e <= LastDecision(c)
      BY <2>2 DEF LastDecision, LastOf
    <3>. QED
      BY <2>2, <3>1, DecisionsOnRange DEF LastOf, CommentsInv
  <2>. QED
    BY <2>1, <2>2 DEF StatusExplained
<1>. QED
  BY <1>1, CommentsInvariance, PTL

\* The theorem about edits (create_comment_revision, moderate_revision and
\* review_comment_appeal): the text shown is the newest approved one, unless an
\* appeal gave it back or the newer one was published without review while it
\* waited.
THEOREM TextIsExplained == CommentsSpec => []TextIsNewest
<1>1. CommentsInv => TextIsNewest
  <2> SUFFICES ASSUME CommentsInv, NEW c \in Comments
               PROVE  \/ comment[c].body = Newest(ApprovedOf(c))
                      \/ /\ comment[c].body # 0
                         /\ revision[comment[c].body].status = "approved"
                         /\ \/ GivenBack(comment[c].body)
                            \/ revision[Newest(ApprovedOf(c))].immediate
    BY DEF TextIsNewest, GivenBack
  <2>1. TextExplained(c)
    BY DEF CommentsInv
  <2>2. CASE comment[c].body = 0 /\ ApprovedOf(c) = {}
    BY <2>2 DEF Newest
  <2>3. CASE ~(comment[c].body = 0 /\ ApprovedOf(c) = {})
    <3>1. PICK n \in ApprovedOf(c) :
            /\ LastOf(ApprovedOf(c), n) /\ comment[c].body \in ApprovedOf(c)
            /\ comment[c].body = n \/ GivenBack(comment[c].body) \/ revision[n].immediate
      BY <2>1, <2>3 DEF TextExplained
    <3>2. Newest(ApprovedOf(c)) = n
      <4>1. /\ Newest(ApprovedOf(c)) \in ApprovedOf(c)
            /\ \A j \in ApprovedOf(c) : j <= Newest(ApprovedOf(c))
        BY <3>1 DEF Newest, LastOf
      <4>. QED
        BY <3>1, <4>1, RevisionRange DEF LastOf, CommentsInv
    <3>3. comment[c].body # 0 /\ revision[comment[c].body].status = "approved"
      BY <3>1, RevisionRange DEF CommentsInv, ApprovedOf
    <3>. QED
      BY <3>1, <3>2, <3>3
  <2>. QED
    BY <2>2, <2>3
<1>. QED
  BY <1>1, CommentsInvariance, PTL

=============================================================================
