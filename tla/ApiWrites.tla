------------------------------ MODULE ApiWrites ------------------------------
(***************************************************************************)
(* The writes of the OAuth API with an Idempotency-Key                     *)
(* (web/routes/oauth_provider.py): oauth_post_create, oauth_comment_create *)
(* and oauth_media_upload.  A client that hears nothing repeats its call   *)
(* with the same key, perhaps while the first is still under way.          *)
(*                                                                         *)
(* One client, one user and one key are modelled.  A call that finds the   *)
(* receipt of the key holds its row lock until it commits, so it is one    *)
(* step; a call that finds none is two, and the unique constraint of the   *)
(* receipts decides between it and others.                                 *)
(***************************************************************************)
EXTENDS Naturals, Sequences

CONSTANTS Calls,        \* calls that may be under way at one time
          MaxResources  \* bound: resources made

ASSUME ApiAssumption == MaxResources \in Nat

VARIABLES receipt,    \* the row of OAuthIdempotencyKey
          resources,  \* what was made
          calls,      \* where each call stands
          replies,    \* successful answers to calls with the key
          life        \* times that the key expired

apiVars == <<receipt, resources, calls, replies, life>>

Bodies == {"this", "that"}
Kinds  == {"post", "comment", "media"}

\* What the path of a request names, outside the body that is hashed: the
\* post that a comment is on.
Names(kind) == IF kind = "comment" THEN {"one", "another"} ELSE {"none"}

NoReceipt == [kind |-> "none", body |-> "none", id |-> 0, expired |-> FALSE]
NoAsk     == [kind |-> "none", body |-> "none", name |-> "none", keyed |-> FALSE]

ApiInit ==
    /\ receipt   = NoReceipt
    /\ resources = <<>>
    /\ calls     = [c \in Calls |-> NoAsk]
    /\ replies   = {}
    /\ life      = 0

Ids       == DOMAIN resources
NextId    == Len(resources) + 1
Living(i) == i \in Ids /\ resources[i].there

-----------------------------------------------------------------------------
(* The steps that the three handlers share.                                *)

\* The receipt has the request's type and the hash of its body; otherwise
\* idempotency_conflict.  oauth_comment_create does not hash the post that the
\* path names (oauth_post_update adds it to what it hashes).
SameRequest(ask) == receipt.kind = ask.kind /\ receipt.body = ask.body

\* A slug is taken once (slug_conflict, or the constraint of the table);
\* comments and uploads may be made any number of times.
MayMake(ask) == ask.kind = "post" => ~\E i \in Ids : Living(i) /\ resources[i].kind = "post"

\* The resource, its receipt and the answer.  The answer may be lost, which
\* changes nothing here.
Made(ask) ==
    /\ Len(resources) < MaxResources
    /\ resources' = Append(resources, [kind |-> ask.kind, body |-> ask.body, name |-> ask.name,
                                       there |-> TRUE, keyed |-> ask.keyed, life |-> life])
    /\ receipt' = IF ask.keyed THEN [kind |-> ask.kind, body |-> ask.body, id |-> NextId,
                                     expired |-> FALSE]
                               ELSE receipt
    /\ replies' = IF ask.keyed THEN replies \cup {[ask |-> ask, id |-> NextId, life |-> life]}
                               ELSE replies

-----------------------------------------------------------------------------
(* Calls.                                                                  *)

\* A call without a key, or whose key has no receipt: the checks pass and
\* the resource is about to be made.
FindsNone(c, ask) ==
    /\ calls[c] = NoAsk
    /\ ask.keyed => receipt = NoReceipt
    /\ MayMake(ask)
    /\ calls' = [calls EXCEPT ![c] = ask]
    /\ UNCHANGED <<receipt, resources, replies, life>>

\* Mutation: nothing keeps a second receipt of the key out.
OnlyReceiptAny(ask) == TRUE

\* uq_oauth_idempotency_scope.
OnlyReceipt(ask) == ask.keyed => receipt = NoReceipt

\* It commits, if the constraints let it.
CommitsNew(c) ==
    /\ calls[c] # NoAsk
    /\ OnlyReceipt(calls[c]) /\ MayMake(calls[c])
    /\ Made(calls[c])
    /\ calls' = [calls EXCEPT ![c] = NoAsk]
    /\ UNCHANGED life

\* It is rolled back: a constraint, the comment policy, a refused file, or
\* the end of the process.
RolledBack(c) ==
    /\ calls[c] # NoAsk
    /\ calls' = [calls EXCEPT ![c] = NoAsk]
    /\ UNCHANGED <<receipt, resources, replies, life>>

\* A call that finds the receipt of the same request is answered with the
\* resource that was made.
AnswersAgain(ask) ==
    /\ ask.keyed /\ receipt # NoReceipt /\ ~receipt.expired
    /\ SameRequest(ask) /\ Living(receipt.id)
    /\ replies' = replies \cup {[ask |-> ask, id |-> receipt.id, life |-> life]}
    /\ UNCHANGED <<receipt, resources, calls, life>>

\* If the resource is gone it is made anew and the receipt names the new one.
MakesAnew(ask) ==
    /\ ask.keyed /\ receipt # NoReceipt /\ ~receipt.expired
    /\ SameRequest(ask) /\ ~Living(receipt.id) /\ MayMake(ask)
    /\ Made(ask)
    /\ UNCHANGED <<calls, life>>

\* An expired receipt is deleted, and the call makes its own.
ReplacesExpired(ask) ==
    /\ ask.keyed /\ receipt.expired /\ MayMake(ask)
    /\ Made(ask)
    /\ UNCHANGED <<calls, life>>

\* A day passes.  No call is that slow.
KeyExpires ==
    /\ receipt # NoReceipt /\ ~receipt.expired
    /\ \A c \in Calls : calls[c] = NoAsk
    /\ receipt' = [receipt EXCEPT !.expired = TRUE]
    /\ life' = life + 1
    /\ UNCHANGED <<resources, calls, replies>>

\* A resource is deleted by its owner or an administrator.
ResourceDeleted(i) ==
    /\ Living(i)
    /\ resources' = [resources EXCEPT ![i].there = FALSE]
    /\ UNCHANGED <<receipt, calls, replies, life>>

\* One request of the three handlers up to its commit or its answer.
Writes(kind) ==
    \E body \in Bodies, name \in Names(kind), keyed \in BOOLEAN :
      LET ask == [kind |-> kind, body |-> body, name |-> name, keyed |-> keyed] IN
      \/ \E c \in Calls : FindsNone(c, ask)
      \/ AnswersAgain(ask) \/ MakesAnew(ask) \/ ReplacesExpired(ask)

OauthPostWrite    == Writes("post")
OauthCommentWrite == Writes("comment")
OauthMediaUpload  == Writes("media")

ApiNext ==
    \/ OauthPostWrite \/ OauthCommentWrite \/ OauthMediaUpload
    \/ \E c \in Calls : CommitsNew(c) \/ RolledBack(c)
    \/ \E i \in Ids : ResourceDeleted(i)
    \/ KeyExpires

ApiSpec == ApiInit /\ [][ApiNext]_apiVars

-----------------------------------------------------------------------------
(* Properties.                                                             *)

\* However often and however concurrently a call is repeated with its key,
\* there is one resource for it until the key expires, and every successful
\* answer names a resource of its type made from the same bytes: never what
\* another body under the same key made.  The resource's `name` is not compared,
\* for the key does not tell it: the same bytes on another post's URL are
\* answered with the comment on the first post.
OncePerKey ==
    /\ \A i, j \in Ids : /\ Living(i) /\ Living(j) /\ i # j
                         /\ resources[i].keyed /\ resources[j].keyed
                         => resources[i].life # resources[j].life
    /\ \A a \in replies : resources[a.id].kind = a.ask.kind /\ resources[a.id].body = a.ask.body

=============================================================================
