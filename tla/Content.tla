------------------------------- MODULE Content -------------------------------
(***************************************************************************)
(* A post and what the fediverse is told about it.  The post is changed by *)
(* the editor's form (web/routes/admin.py), the administration API         *)
(* (web/routes/api.py), the OAuth API (web/routes/oauth_provider.py) and   *)
(* the scheduler of every server process (core/scheduler.py).  A change    *)
(* queues an activity in its own transaction (enqueue_post_activity,       *)
(* enqueue_post_delete), unless there is one of the same source_revision   *)
(* already; module FederationDelivery delivers it.                         *)
(*                                                                         *)
(* A request reads the post without a lock and writes the columns that     *)
(* differ from what it read.  The write locks the row until the commit,    *)
(* so from there on the request is one step.  Federation is enabled, and   *)
(* so are the actors of the authors.                                       *)
(***************************************************************************)
EXTENDS Naturals

CONSTANTS PostRequests,   \* requests and scheduler ticks that may be under way
          Writers,    \* users who may be the primary author
          MaxWrites,  \* bound: commits
          MaxSeconds  \* bound: clock

ASSUME ContentAssumption == MaxWrites \in Nat /\ MaxSeconds \in Nat /\ "none" \notin PostRequests

VARIABLES post,     \* the row
          told,     \* the post has an ap_object_id
          said,     \* the newest activity about it
          keys,     \* source_revisions of its activities
          revs,     \* its revisions
          stamp,    \* its updated_at
          second,   \* the clock
          request,  \* where each request stands
          writes,
          excuses   \* why followers may have been told something else

contentVars == <<post, told, said, keys, revs, stamp, second, request, writes, excuses>>

PostStatuses == {"draft", "scheduled", "published", "archived"}
Views    == {"public", "hidden"}
NoPost   == [there |-> FALSE, status |-> "draft", view |-> "public", text |-> 0, author |-> "none"]
NoWord   == [type |-> "none", text |-> 0, by |-> "none", of |-> "none"]
NoRead   == [op |-> "none", copy |-> NoPost, told |-> FALSE, stamp |-> 0, stale |-> FALSE]

ContentInit ==
    /\ post    = NoPost
    /\ told    = FALSE
    /\ said    = NoWord
    /\ keys    = {}
    /\ revs    = 0
    /\ stamp   = 0
    /\ second  = 0
    /\ request = [r \in PostRequests |-> NoRead]
    /\ writes  = 0
    /\ excuses = {}

IsPublic(p) == p.there /\ p.status = "published" /\ p.view = "public"

\* What was said last is what the post is now, in the name of whoever must
\* say it.
Current(p, has, word) ==
    IF IsPublic(p) THEN /\ word.type \in {"Create", "Update"}
                        /\ word.text = p.text /\ word.by = p.author
    ELSE has => word.type = "Delete" /\ word.by = word.of

-----------------------------------------------------------------------------
(* Activities.                                                             *)

\* enqueue_post_activity: by the row as it is now, with the request's text.
PostActivity(type, row, text) ==
    IF IsPublic(row) THEN [type |-> type, text |-> text, by |-> row.author, of |-> row.author]
                     ELSE NoWord

\* enqueue_post_delete: by the author of now, if the post has an object id.
PostDelete(row, has) ==
    IF has THEN [type |-> "Delete", text |-> 0, by |-> row.author, of |-> said.by] ELSE NoWord

\* enqueue_activity keeps the activity that has the key already.
Queues(word, key) ==
    LET new == word # NoWord /\ key \notin keys IN
    /\ said' = IF new THEN word ELSE said
    /\ keys' = IF new THEN keys \cup {key} ELSE keys
    /\ told' = (told \/ word.type \in {"Create", "Update"})

Nothing == said' = said /\ keys' = keys /\ told' = told

\* A commit that writes the row; the object id is a column of it.
Touches(row) == row # post \/ told' # told

\* The commit.  An excuse lasts until what is said is current again.
Commits(r, row, why) ==
    /\ writes < MaxWrites
    /\ writes' = writes + 1
    /\ post' = row
    /\ stamp' = IF Touches(row) THEN second ELSE stamp
    /\ excuses' = IF Current(row, told', said') THEN {} ELSE excuses \cup why
    /\ request' = [q \in PostRequests |->
         IF q = r THEN NoRead
         ELSE [request[q] EXCEPT !.stale = @ \/ (/\ request[q].op # "none" /\ Touches(row)
                                                /\ ~(r \in PostRequests /\ request[r].op = "tick"
                                                                    /\ request[q].op = "tick"))]]
    /\ UNCHANGED second

\* No request: a step that holds the row from its read to its commit.
Direct == "none"
Overlap(r) == IF request[r].stale THEN {"overlap"} ELSE {}
\* A Delete in the name of another author than the one who announced the post.
NewAuthor(row, has) == IF has /\ row.author # said.by THEN {"author"} ELSE {}
SameSecond(word, key) == IF word # NoWord /\ key \in keys THEN {"second"} ELSE {}

-----------------------------------------------------------------------------
(* New posts.                                                              *)

\* post_new_save: a draft whatever the form says, since the values of the
\* form are looked for among the names of the enumeration.  oauth_post_create
\* makes drafts too.
PostNewSave(a) ==
    /\ ~post.there /\ writes = 0
    /\ revs' = 1
    /\ Nothing
    /\ Commits(Direct, [NoPost EXCEPT !.there = TRUE, !.text = 1, !.author = a], {})

\* admin_api_post_create: any status, and no word about it.
AdminApiPostCreate(a, status, view) ==
    /\ ~post.there /\ writes = 0
    /\ UNCHANGED revs
    /\ Nothing
    /\ Commits(Direct, [there |-> TRUE, status |-> status, view |-> view, text |-> 1, author |-> a],
               {"api"})

-----------------------------------------------------------------------------
(* Changes.                                                                *)

\* post_edit_save, admin_api_post_update, a delete or a tick of
\* _publish_scheduled reads the post.
ReadsPost(r, op) ==
    /\ request[r] = NoRead /\ post.there
    /\ op = "tick" => post.status = "scheduled"
    /\ request' = [request EXCEPT ![r] = [op |-> op, copy |-> post, told |-> told,
                                          stamp |-> stamp, stale |-> FALSE]]
    /\ UNCHANGED <<post, told, said, keys, revs, stamp, second, writes, excuses>>

\* The columns that differ from the copy are written.
Written(copy, status, view, text) ==
    [post EXCEPT !.status = IF status # copy.status THEN status ELSE @,
                 !.view   = IF view # copy.view THEN view ELSE @,
                 !.text   = IF text # copy.text THEN text ELSE @]

\* Mutation: a post that is hidden was not public.
WasPublicShown(copy, view) == IsPublic(copy) /\ view = "public"

\* What the request found, before its own change.
WasPublic(copy, view) == IsPublic(copy)

\* post_edit_save.
PostEditSave(r, status, view, text) ==
    LET copy == request[r].copy
        row  == Written(copy, status, view, text)
        mine == [copy EXCEPT !.status = status, !.view = view, !.text = text]
        was  == WasPublic(copy, view)
        key  == <<"revision", revs + 1>>
        gone == <<"delete", request[r].stamp>>
    IN
    /\ request[r].op = "edit" /\ post.there
    /\ revs' = revs + 1
    /\ IF was /\ ~IsPublic(mine)
       THEN /\ Queues(PostDelete(row, request[r].told), gone)
            /\ Commits(r, row, Overlap(r) \cup NewAuthor(row, request[r].told)
                                 \cup SameSecond(PostDelete(row, request[r].told), gone))
       ELSE /\ IF IsPublic(mine) /\ (~was \/ text # copy.text)
               THEN Queues(PostActivity(IF was THEN "Update" ELSE "Create", row, text), key)
               ELSE Nothing
            /\ Commits(r, row, Overlap(r))

\* The delete of the form.
PostEditDelete(r) ==
    LET gone == <<"delete", request[r].stamp>> IN
    /\ request[r].op = "delete" /\ post.there
    /\ Queues(PostDelete(post, request[r].told), gone)
    /\ Commits(r, NoPost, Overlap(r) \cup NewAuthor(post, request[r].told)
                            \cup SameSecond(PostDelete(post, request[r].told), gone))
    /\ UNCHANGED revs

\* admin_api_post_update and admin_api_post_delete: no word either.
AdminApiPostUpdate(r, status, view, text) ==
    /\ request[r].op = "api" /\ post.there
    /\ Nothing
    /\ Commits(r, Written(request[r].copy, status, view, text), {"api"})
    /\ UNCHANGED revs

AdminApiPostDelete ==
    /\ post.there
    /\ Nothing
    /\ Commits(Direct, NoPost, {"api"})
    /\ UNCHANGED revs

\* oauth_post_update: the row is locked from the start.
OauthPostUpdate ==
    LET row  == [post EXCEPT !.text = @ + 1]
        word == PostActivity("Update", row, row.text)
        key  == <<"stamp", second>>
    IN
    /\ post.there
    /\ revs' = revs + 1
    /\ Queues(word, key)
    /\ Commits(Direct, row, SameSecond(word, key))

\* _publish_scheduled: two processes use the same key.
PublishScheduled(r) ==
    LET row  == [post EXCEPT !.status = "published"]
        word == PostActivity("Create", row, request[r].copy.text)
        key  == <<"stamp", request[r].stamp>>
    IN
    /\ request[r].op = "tick" /\ post.there
    /\ Queues(word, key)
    /\ Commits(r, row, Overlap(r) \cup SameSecond(word, key))
    /\ UNCHANGED revs

\* replace_post_authors: nothing is said about a new author.
PostAuthorsUpdate(a) ==
    /\ post.there /\ a # post.author
    /\ Nothing
    /\ Commits(Direct, [post EXCEPT !.author = a], {"author"})
    /\ UNCHANGED revs

\* A request fails, is refused, or finds the post gone.
RequestFails(r) ==
    /\ request[r] # NoRead
    /\ request' = [request EXCEPT ![r] = NoRead]
    /\ UNCHANGED <<post, told, said, keys, revs, stamp, second, writes, excuses>>

SecondPasses ==
    /\ second < MaxSeconds
    /\ second' = second + 1
    /\ UNCHANGED <<post, told, said, keys, revs, stamp, request, writes, excuses>>

ContentNext ==
    \/ AdminApiPostDelete \/ OauthPostUpdate \/ SecondPasses
    \/ \E a \in Writers : PostNewSave(a) \/ PostAuthorsUpdate(a)
    \/ \E a \in Writers, status \in PostStatuses, view \in Views : AdminApiPostCreate(a, status, view)
    \/ \E r \in PostRequests :
         \/ \E op \in {"edit", "delete", "api", "tick"} : ReadsPost(r, op)
         \/ \E status \in PostStatuses, view \in Views, new \in {0, 1} :
              LET text == IF new = 1 THEN writes + 2 ELSE request[r].copy.text IN
              PostEditSave(r, status, view, text) \/ AdminApiPostUpdate(r, status, view, text)
         \/ PostEditDelete(r) \/ PublishScheduled(r) \/ RequestFails(r)

ContentSpec == ContentInit /\ [][ContentNext]_contentVars

-----------------------------------------------------------------------------
(* Properties.                                                             *)

\* Followers have the post as it is: while it is public the newest activity
\* carries its text, in the name of its author, and once it is hidden,
\* withdrawn or deleted the newest activity is a Delete by whoever announced
\* it.  What may come between: the administration API, which says nothing
\* although the documentation has an activity written with every such change;
\* a request that wrote over a change that it had not read; a new primary
\* author; and an earlier activity with the key of the same second.  Two
\* schedulers and the numbering of revisions under the row lock never do.
FollowersTold == Current(post, told, said) \/ excuses # {}

=============================================================================
