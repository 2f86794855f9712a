------------------------------ MODULE Comments ------------------------------
(***************************************************************************)
(* The comments of a post (comments/service.py, comments/moderation.py)    *)
(* with the routes that drive them: submission by a guest, an account or a *)
(* remote actor, confirmation of a guest's address by a mailed link,       *)
(* moderation, author and remote edits as revisions, appeals against       *)
(* decisions and their review.                                             *)
(*                                                                         *)
(* A body is the number of the revision that wrote it, 0 for the text as   *)
(* submitted.  Decisions and revisions are append-only tables.  A handler  *)
(* that reads a row and then writes it under a condition on what it read   *)
(* (comment_confirm, moderate_comment, review_comment_appeal) is two       *)
(* actions, because SELECT ... FOR UPDATE locks nothing on SQLite; the     *)
(* others lock the comment, or are serialised by a unique key, and are one *)
(* action.  Site settings a handler reads are inputs of its action.        *)
(***************************************************************************)
EXTENDS Naturals, Sequences, FiniteSets

CONSTANTS Comments,     \* identities of comment rows
          Moderators,   \* accounts that hold comments.moderate
          Requests,     \* concurrent two-step requests
          FirstN,       \* comments.first_n_count
          MaxEdits,     \* comments.max_user_edits
          MaxLinks,     \* bound: confirmation mails of one comment
          MaxRevisions, \* bound: revisions in all
          MaxDecisions  \* bound: decisions in all

ASSUME CommentsAssumption ==
    {FirstN, MaxEdits, MaxLinks, MaxRevisions, MaxDecisions} \subseteq Nat

VARIABLES comment,   \* the comments table
          revision,  \* the comment_revisions table, in order
          decision,  \* the moderation_decisions table, in order
          appeal,    \* state of the appeal against each decision
          notice,    \* what create_notification was called for
          flight     \* the two-step requests under way

commentVars == <<comment, revision, decision, appeal, notice, flight>>

Statuses == {"pending_confirmation", "pending_moderation", "approved",
             "rejected", "spam", "deleted"}
Authors  == {"guest", "user", "remote"}
Modes    == {"always", "first_n", "trusted_bypass", "none"}

NotPosted == [status |-> "none", author |-> "guest", body |-> 0, token |-> 0, links |-> 0, lapsed |-> FALSE,
              withdrawn |-> FALSE, federated |-> FALSE, told |-> "none"]

NoRequest == [op |-> "none"]

CommentsInit ==
    /\ comment  = [c \in Comments |-> NotPosted]
    /\ revision = <<>>
    /\ decision = <<>>
    /\ appeal   = [d \in 1..MaxDecisions |-> "none"]
    /\ notice   = {}
    /\ flight   = [r \in Requests |-> NoRequest]

-----------------------------------------------------------------------------
(* Decisions.                                                              *)

\* The state a decision leaves its comment in.
NextStatus(outcome) ==
    CASE outcome \in {"approve", "restore"} -> "approved"
      [] outcome = "reject" -> "rejected"
      [] outcome = "spam"   -> "spam"
      [] outcome = "delete" -> "deleted"

\* The transitions of moderate_comment.
Allowed(status) ==
    CASE status = "pending_moderation" -> {"approve", "reject", "spam"}
      [] status = "approved" -> {"delete", "spam"}
      [] status \in {"rejected", "spam", "deleted"} -> {"restore"}
      [] OTHER -> {}

Decision(type, c, rev, by, outcome, replaces) ==
    [type |-> type, comment |-> c, rev |-> rev, by |-> by, outcome |-> outcome,
     replaces |-> replaces]

NewDecision(type, c, rev, by, outcome, replaces) ==
    /\ Len(decision) < MaxDecisions
    /\ decision' = Append(decision, Decision(type, c, rev, by, outcome, replaces))

\* An account author is told of a decision in the decision's transaction.
Notify(c, key) ==
    notice' = notice \cup (IF comment[c].author = "user" THEN {key} ELSE {})

\* enqueue_comment_activity: a note of a local author whose actor federates.
Told(row, activity) ==
    IF row.federated /\ row.author = "user"
    THEN [row EXCEPT !.told = IF activity = "Delete" THEN "tombstone" ELSE "note"]
    ELSE row

-----------------------------------------------------------------------------
(* Submission.                                                             *)

ApprovedCount == Cardinality({c \in Comments :
                    comment[c].author = "user" /\ comment[c].status = "approved"})

PublicationState(mode, author, trusted) ==
    IF \/ mode = "none"
       \/ mode = "first_n" /\ author = "user" /\ ApprovedCount >= FirstN
       \/ mode = "trusted_bypass" /\ author = "user" /\ trusted
    THEN "approved" ELSE "pending_moderation"

\* create_comment: `blocked' is the verdict of the screening, `confirm' whether
\* guests must confirm their address.
CreateComment(c, author, mode, trusted, blocked, confirm, federated) ==
    LET held   == author = "guest" /\ confirm
        status == CASE blocked -> "spam"
                    [] ~blocked /\ held  -> "pending_confirmation"
                    [] ~blocked /\ ~held -> PublicationState(mode, author, trusted)
        link   == IF status = "pending_confirmation" THEN 1 ELSE 0
        row    == [NotPosted EXCEPT !.status = status, !.author = author,
                     !.token = link, !.links = link,
                     !.federated = federated /\ author = "user"]
    IN  /\ comment[c].status = "none"
        /\ comment' = [comment EXCEPT ![c] =
                         IF status = "approved" THEN Told(row, "Create") ELSE row]
        /\ IF status \in {"approved", "spam"}
           THEN NewDecision("comment", c, 0, "auto",
                            IF status = "spam" THEN "spam" ELSE "approve", 0)
           ELSE UNCHANGED decision
        /\ UNCHANGED <<revision, appeal, notice, flight>>

\* The network filter flags the sender or the block list names the text: the
\* comment is taken silently as spam.  (A hard block stores nothing.)
Verdict(flagged, listed) == flagged \/ listed

\* The form of the post's page, for guests and accounts.
PostCommentSubmit(c, author, mode, trusted, confirm, federated) ==
    /\ author \in {"guest", "user"}
    /\ \E flagged, listed \in BOOLEAN :
         CreateComment(c, author, mode, trusted, Verdict(flagged, listed), confirm, federated)

\* The API, for the account of the token; it does not screen.
OauthCommentCreate(c, mode, trusted, federated) ==
    CreateComment(c, "user", mode, trusted, FALSE, TRUE, federated)

\* A remote actor's note in reply to a post; it does not screen either.
CreateRemoteComment(c, mode) ==
    CreateComment(c, "remote", mode, FALSE, FALSE, TRUE, FALSE)

\* The mailed link lapses after confirmation_ttl_hours.
LinkLapses(c) ==
    /\ comment[c].status = "pending_confirmation"
    /\ ~comment[c].lapsed
    /\ comment' = [comment EXCEPT ![c].lapsed = TRUE]
    /\ UNCHANGED <<revision, decision, appeal, notice, flight>>

\* issue_guest_confirmation: a new link, and the ones before it are dead.
NewLink(row) ==
    [row EXCEPT !.token = row.token + 1, !.links = row.links + 1, !.lapsed = FALSE]

CommentConfirmationResend(c) ==
    /\ comment[c].status = "pending_confirmation"
    /\ comment[c].links < MaxLinks
    /\ comment' = [comment EXCEPT ![c] = NewLink(@)]
    /\ UNCHANGED <<revision, decision, appeal, notice, flight>>

LinkValid(c, link) ==
    /\ comment[c].status = "pending_confirmation"
    /\ comment[c].token = link
    /\ ~comment[c].lapsed

\* confirm_guest_comment reads the comment of the link and the policy...
ConfirmRead(r, c, link, mode) ==
    /\ flight[r] = NoRequest
    /\ LinkValid(c, link)
    /\ flight' = [flight EXCEPT ![r] =
         [op |-> "confirm", comment |-> c, link |-> link,
          next |-> PublicationState(mode, "guest", FALSE)]]
    /\ UNCHANGED <<comment, revision, decision, appeal, notice>>

\* ...and consumes the link with one conditional update.
Confirmed(q) ==
    /\ comment' = [comment EXCEPT ![q.comment].status = q.next,
                                  ![q.comment].token = 0]
    /\ IF q.next = "approved"
       THEN NewDecision("comment", q.comment, 0, "auto", "approve", 0)
       ELSE UNCHANGED decision

CommentConfirm(r) ==
    LET q == flight[r] IN
    /\ q.op = "confirm"
    /\ LinkValid(q.comment, q.link)
    /\ Confirmed(q)
    /\ flight' = [flight EXCEPT ![r] = NoRequest]
    /\ UNCHANGED <<revision, appeal, notice>>

-----------------------------------------------------------------------------
(* Moderation.                                                             *)

\* moderate_comment reads the comment and looks its transition up...
ModerateRead(r, c, m, outcome) ==
    /\ flight[r] = NoRequest
    /\ outcome \in Allowed(comment[c].status)
    /\ flight' = [flight EXCEPT ![r] =
         [op |-> "moderate", comment |-> c, by |-> m, outcome |-> outcome,
          seen |-> comment[c].status]]
    /\ UNCHANGED <<comment, revision, decision, appeal, notice>>

\* Mutation: the update does not name the status that was read.
StillSeenNever(q) == TRUE

\* The update names the status that was read.
StillSeen(q) == comment[q.comment].status = q.seen

\* ...and writes it, with what the followers are told.
Moderated(row, outcome) ==
    LET new == [row EXCEPT !.status = NextStatus(outcome), !.withdrawn = FALSE] IN
    CASE outcome \in {"approve", "restore"} -> Told(new, "Create")
      [] outcome = "delete" /\ row.told # "none" -> Told(new, "Delete")
      [] OTHER -> new

ApplyCommentDecision(r) ==
    LET q == flight[r]
    IN  /\ q.op = "moderate"
        /\ StillSeen(q)
        /\ comment' = [comment EXCEPT ![q.comment] = Moderated(@, q.outcome)]
        /\ NewDecision("comment", q.comment, 0, q.by, q.outcome, 0)
        /\ Notify(q.comment, <<"decision", Len(decision) + 1>>)
        /\ flight' = [flight EXCEPT ![r] = NoRequest]
        /\ UNCHANGED <<revision, appeal>>

\* _delete of the federation inbox: the remote author withdraws the note.
RemoteDelete(c) ==
    /\ comment[c].author = "remote"
    /\ comment[c].status \notin {"none", "deleted"}
    /\ comment' = [comment EXCEPT ![c].status = "deleted", ![c].token = 0,
                                  ![c].withdrawn = TRUE]
    /\ UNCHANGED <<revision, decision, appeal, notice, flight>>

-----------------------------------------------------------------------------
(* Edits.                                                                  *)

RevisionsOf(c) == {i \in 1..Len(revision) : revision[i].comment = c}
\* Mutation: an edit that waits is not looked for.
PendingNever(c) == {}
Pending(c)     == {i \in RevisionsOf(c) : revision[i].status = "pending"}

\* can_edit_comment: within the window, the author, a bounded number of times.
MayEdit(c) ==
    /\ comment[c].status = "approved"
    /\ comment[c].author = "user"
    /\ Cardinality(RevisionsOf(c)) < MaxEdits

\* create_comment_revision: a trusted author's edit is published at once
\* while comments.trusted_edit_bypass is set, any other waits for review.
Revise(c, immediate) ==
    /\ Len(revision) < MaxRevisions
    /\ MayEdit(c)
    /\ immediate \/ Pending(c) = {}
    /\ revision' = Append(revision, [comment |-> c, immediate |-> immediate,
                            status |-> IF immediate THEN "approved" ELSE "pending"])
    /\ comment' = IF immediate THEN [comment EXCEPT ![c].body = Len(revision) + 1]
                               ELSE comment
    /\ UNCHANGED <<decision, appeal, notice, flight>>

\* The form of the post's page and the API edit alike.
CommentEdit(c, immediate)         == Revise(c, immediate)
OauthCommentUpdate(c, immediate)  == Revise(c, immediate)

\* create_remote_comment_revision: always reviewed.
RemoteRevise(c) ==
    /\ Len(revision) < MaxRevisions
    /\ comment[c].author = "remote"
    /\ comment[c].status = "approved"
    /\ Pending(c) = {}
    /\ revision' = Append(revision, [comment |-> c, immediate |-> FALSE,
                                     status |-> "pending"])
    /\ UNCHANGED <<comment, decision, appeal, notice, flight>>

\* moderate_revision: approval replaces the text and tells the followers.
ModerateRevision(i, m, outcome) ==
    LET c   == revision[i].comment
        row == [comment[c] EXCEPT !.body = i]
    IN  /\ revision' = [revision EXCEPT ![i].status =
                          IF outcome = "approve" THEN "approved" ELSE "rejected"]
        /\ comment' = IF outcome = "approve"
                      THEN [comment EXCEPT ![c] =
                              IF row.told # "none" THEN Told(row, "Update") ELSE row]
                      ELSE comment
        /\ NewDecision("revision", c, i, m, outcome, 0)
        /\ Notify(c, <<"decision", Len(decision) + 1>>)

CommentRevisionDecision(i, m, outcome) ==
    /\ revision[i].status = "pending"
    /\ comment[revision[i].comment].status = "approved"
    /\ ModerateRevision(i, m, outcome)
    /\ UNCHANGED <<appeal, flight>>

-----------------------------------------------------------------------------
(* Appeals.                                                                *)

Replaced(d) == \E j \in 1..Len(decision) : decision[j].replaces = d

\* submit_comment_appeal, within the appeal window; one per decision.
MayAppeal(d) ==
    /\ decision[d].outcome \in {"reject", "spam", "delete"}
    /\ ~Replaced(d)
    /\ comment[decision[d].comment].author = "user"
    /\ appeal[d] = "none"

CommentAppeal(d) ==
    /\ MayAppeal(d)
    /\ appeal' = [appeal EXCEPT ![d] = "pending"]
    /\ UNCHANGED <<comment, revision, decision, notice, flight>>

\* Somebody else reviews, unless there is nobody else.
OtherReviewer(by) == Moderators \ {by} # {}
MayReview(m, d)   == decision[d].by # m \/ ~OtherReviewer(decision[d].by)

ReviewRead(r, d, m, verdict) ==
    /\ flight[r] = NoRequest
    /\ appeal[d] = "pending"
    /\ MayReview(m, d)
    /\ verdict = "overturned" /\ decision[d].type = "comment" =>
         comment[decision[d].comment].status \in {"rejected", "spam", "deleted"}
    /\ flight' = [flight EXCEPT ![r] =
         [op |-> "review", comment |-> decision[d].comment, appealed |-> d, by |-> m,
          verdict |-> verdict, seen |-> comment[decision[d].comment].status]]
    /\ UNCHANGED <<comment, revision, decision, appeal, notice>>

\* The last update of the transaction: the appeal is still pending.
StillPending(d) == appeal[d] = "pending"

\* What an overturned decision does to the comment and the revision.
Overturn(d, by, c) ==
    /\ NewDecision(decision[d].type, c, decision[d].rev, by, "restore", d)
    /\ IF decision[d].type = "revision"
       THEN /\ revision' = [revision EXCEPT ![decision[d].rev].status = "approved"]
            /\ comment' = [comment EXCEPT ![c].body = decision[d].rev]
       ELSE /\ comment' = [comment EXCEPT ![c].status = "approved",
                                          ![c].withdrawn = FALSE]
            /\ UNCHANGED revision

CommentAppealReview(r) ==
    LET q == flight[r] IN
    /\ q.op = "review"
    /\ StillPending(q.appealed)
    /\ q.verdict = "overturned" /\ decision[q.appealed].type = "comment" => StillSeen(q)
    /\ IF q.verdict = "overturned"
       THEN Overturn(q.appealed, q.by, q.comment)
       ELSE UNCHANGED <<comment, revision, decision>>
    /\ appeal' = [appeal EXCEPT ![q.appealed] = q.verdict]
    /\ Notify(q.comment, <<"appeal", q.appealed>>)
    /\ flight' = [flight EXCEPT ![r] = NoRequest]

\* A request whose conditional update finds nothing rolls back.
Refused(r) ==
    LET q == flight[r] IN
    /\ \/ q.op = "confirm" /\ ~LinkValid(q.comment, q.link)
       \/ q.op = "moderate" /\ ~StillSeen(q)
       \/ /\ q.op = "review"
          /\ \/ ~StillPending(q.appealed)
             \/ /\ q.verdict = "overturned"
                /\ decision[q.appealed].type = "comment"
                /\ ~StillSeen(q)
    /\ flight' = [flight EXCEPT ![r] = NoRequest]
    /\ UNCHANGED <<comment, revision, decision, appeal, notice>>

CommentsNext ==
    \/ \E c \in Comments, mode \in Modes, trusted, federated \in BOOLEAN :
         \/ \E author \in Authors, confirm \in BOOLEAN :
              PostCommentSubmit(c, author, mode, trusted, confirm, federated)
         \/ OauthCommentCreate(c, mode, trusted, federated)
         \/ CreateRemoteComment(c, mode)
    \/ \E c \in Comments : \/ LinkLapses(c)
                           \/ CommentConfirmationResend(c)
                           \/ RemoteDelete(c)
                           \/ RemoteRevise(c)
                           \/ \E immediate \in BOOLEAN : CommentEdit(c, immediate) \/ OauthCommentUpdate(c, immediate)
    \/ \E r \in Requests :
         \/ \E c \in Comments, link \in 1..MaxLinks, mode \in Modes :
              ConfirmRead(r, c, link, mode)
         \/ \E c \in Comments, m \in Moderators,
               outcome \in {"approve", "reject", "spam", "delete", "restore"} :
              ModerateRead(r, c, m, outcome)
         \/ \E d \in 1..Len(decision), m \in Moderators,
               verdict \in {"upheld", "overturned"} : ReviewRead(r, d, m, verdict)
         \/ CommentConfirm(r) \/ ApplyCommentDecision(r) \/ CommentAppealReview(r) \/ Refused(r)
    \/ \E i \in 1..Len(revision), m \in Moderators, outcome \in {"approve", "reject"} :
         CommentRevisionDecision(i, m, outcome)
    \/ \E d \in 1..Len(decision) : CommentAppeal(d)

CommentsSpec == CommentsInit /\ [][CommentsNext]_commentVars

-----------------------------------------------------------------------------
(* Properties.                                                             *)

DecisionsOn(c) == {d \in 1..Len(decision) :
                     decision[d].type = "comment" /\ decision[d].comment = c}
LastDecision(c) == CHOOSE d \in DecisionsOn(c) : \A e \in DecisionsOn(c) : e <= d

\* The record explains what the public sees, whoever raced whom: the decisions
\* about a comment are a legal history, each one allowed in the state the one
\* before it left, and the comment is in the state the last one says; one that
\* nobody decided about waits.  Only a remote author's own withdrawal changes
\* the state without a decision.  (moderate_comment, record_automatic_decision,
\* review_comment_appeal.)
RecordExplains ==
    \A c \in Comments :
      LET s == comment[c].status
          D == DecisionsOn(c)
      IN  /\ IF comment[c].withdrawn THEN s = "deleted"
             ELSE IF D = {}
             THEN s \in {"none", "pending_confirmation", "pending_moderation"}
             ELSE s = NextStatus(decision[LastDecision(c)].outcome)
          /\ comment[c].author # "remote" =>
               \A d, e \in D : d < e /\ (\A x \in D : x <= d \/ x >= e) =>
                 decision[e].outcome \in Allowed(NextStatus(decision[d].outcome))

ApprovedOf(c) == {i \in RevisionsOf(c) : revision[i].status = "approved"}
Newest(S)     == IF S = {} THEN 0 ELSE CHOOSE i \in S : \A j \in S : j <= i

\* The text shown is the newest approved one, except in the two cases in which
\* the code writes an older text over a newer one: an appeal gave an older
\* revision back (review_comment_appeal), or the newer one was published
\* without review while the older one still waited (create_comment_revision
\* looks for a pending revision only when the edit needs review).
TextIsNewest ==
    \A c \in Comments :
      LET shown == comment[c].body
          newest == Newest(ApprovedOf(c))
      IN  \/ shown = newest
          \/ /\ shown # 0
             /\ revision[shown].status = "approved"
             /\ \/ \E d \in 1..Len(decision) :
                     /\ decision[d].type = "revision"
                     /\ decision[d].rev = shown
                     /\ decision[d].replaces # 0
                \/ revision[newest].immediate

=============================================================================
