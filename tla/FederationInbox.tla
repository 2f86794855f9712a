--------------------------- MODULE FederationInbox ---------------------------
(***************************************************************************)
(* The ActivityPub inbox: _receive_inbox stores an authenticated activity  *)
(* once (web/routes/federation.py), workers claim and process the stored   *)
(* rows (federation/inbox.py), and the administrator answers pending       *)
(* follows and reprocesses failed rows.                                    *)
(*                                                                         *)
(* One local account and one remote actor: a single Follower row           *)
(* (unique per account, actor and direction) and the remote's notes.       *)
(* A worker's session reads rows, changes them in memory and writes the    *)
(* columns that differ from what it read when it commits, by primary key   *)
(* (read committed); the processing state of the intake row is part of     *)
(* that transaction.                                                       *)
(***************************************************************************)
EXTENDS Naturals, FiniteSets

CONSTANTS
  RemoteFollows,      \* ids of Follow activities of the remote actor
  Notes,              \* object ids of the remote actor's replies
  InboxWorkers,
  Nobody,
  MaxTries,           \* attempt_count limit of process_claimed
  MaxInboxCrashes,   \* bound: worker deaths
  MaxFailures,        \* bound: internal processing errors
  MaxOverlaps         \* bound: leases that expire under a live worker

ASSUME InboxAssumption ==
  /\ MaxTries \in Nat \ {0}
  /\ MaxInboxCrashes \in Nat
  /\ MaxFailures \in Nat
  /\ MaxOverlaps \in Nat
  /\ Nobody \notin InboxWorkers \union RemoteFollows

Activities ==
  [type: {"Follow", "Undo"}, of: RemoteFollows] \union [type: {"Create", "Update", "Delete"}, of: Notes]

VARIABLES
  intake,    \* federation_inbox_activities
  follower,  \* the inbound ap_followers row
  comment,   \* the comment of each note
  answers,   \* follow responses in federation_outbox_activities
  stage, task, tries, found,  \* workers: step, intake row, attempt_count and row read
  inboxCrashes, failures, overlaps,
  blind      \* observer: a follow handler committed over a relation it had not read

inboxWorkerVars == <<stage, task, tries, found>>
inboxBounds == <<inboxCrashes, failures, overlaps>>
data == <<follower, comment, answers>>
inboxVars == <<intake, data, inboxWorkerVars, inboxBounds, blind>>

IntakeStates == {"absent", "received", "processing", "processed", "rejected", "failed"}
Final == {"processed", "rejected", "failed"}
Intake ==
  [state: IntakeStates, tries: 0..MaxTries, due: BOOLEAN,
   lease: {"none", "held", "expired"}, owner: InboxWorkers \union {Nobody}]

Relation ==
  [state: {"pending", "accepted", "rejected", "undone"}, activity: RemoteFollows]
NoRelation == [state |-> "none", activity |-> Nobody]   \* a query that finds nothing
\* A remote edit is a revision that waits for a moderator, one at a time.
CommentStates == {"none", "live", "revised", "deleted"}
FoundComment == [state: CommentStates, activity: {Nobody}]
Answer == [follow: RemoteFollows, type: {"Accept", "Reject"}]

\* "Nobody" is neither a stored activity nor a row.
ASSUME NobodyAssumption == Nobody \notin Activities \union Relation \union FoundComment

-----------------------------------------------------------------------------
InboxInit ==
  /\ intake = [a \in Activities |->
       [state |-> "absent", tries |-> 0, due |-> TRUE, lease |-> "none", owner |-> Nobody]]
  /\ follower = NoRelation
  /\ comment = [n \in Notes |-> "none"]
  /\ answers = {}
  /\ stage = [w \in InboxWorkers |-> "idle"]
  /\ task = [w \in InboxWorkers |-> Nobody]
  /\ tries = [w \in InboxWorkers |-> 0]
  /\ found = [w \in InboxWorkers |-> Nobody]
  /\ inboxCrashes = 0 /\ failures = 0 /\ overlaps = 0
  /\ blind = FALSE

\* _receive_inbox after all its checks.  A known activity_uri, found by the
\* query or by the unique constraint, is a duplicate and changes nothing.
ReceiveInbox(a) ==
  /\ intake[a].state = "absent"
  /\ intake' = [intake EXCEPT ![a].state = "received"]
  /\ UNCHANGED <<data, inboxWorkerVars, inboxBounds, blind>>

\* received_at of a row put back after an error is in the future.
BecomesDue(a) ==
  /\ ~intake[a].due
  /\ intake' = [intake EXCEPT ![a].due = TRUE]
  /\ UNCHANGED <<data, inboxWorkerVars, inboxBounds, blind>>

WorkedOn(a) == \E w \in InboxWorkers : task[w] = a

IntakeLeaseExpires(a) ==
  /\ intake[a].lease = "held"
  /\ WorkedOn(a) => overlaps < MaxOverlaps
  /\ overlaps' = IF WorkedOn(a) THEN overlaps + 1 ELSE overlaps
  /\ intake' = [intake EXCEPT ![a].lease = "expired"]
  /\ UNCHANGED <<data, inboxWorkerVars, inboxCrashes, failures, blind>>

(***************************************************************************)
(* claim_inbox and process_claimed.                                        *)
(***************************************************************************)
\* Mutant: rows of dead workers are not claimed.
EligibleReceived(r) == r.state = "received" /\ r.due
InboxEligible(r) ==
  \/ r.state = "received" /\ r.due
  \/ r.state = "processing" /\ r.lease = "expired"

Increment(n) == IF n < MaxTries THEN n + 1 ELSE n

ClaimedBy(r, w) ==
  [r EXCEPT !.state = "processing", !.lease = "held", !.owner = w, !.tries = Increment(r.tries)]

\* The guarded UPDATE of claim_inbox.  A claim that finds nothing or loses the
\* race ends the batch and changes nothing.
ClaimInbox(w, a) ==
  /\ stage[w] = "idle"
  /\ InboxEligible(intake[a])
  /\ intake' = [intake EXCEPT ![a] = ClaimedBy(@, w)]
  /\ stage' = [stage EXCEPT ![w] = "claimed"]
  /\ task' = [task EXCEPT ![w] = a]
  /\ UNCHANGED <<data, tries, found, inboxBounds, blind>>

LeaveTask(w) ==
  /\ stage' = [stage EXCEPT ![w] = "idle"]
  /\ task' = [task EXCEPT ![w] = Nobody]
  /\ tries' = [tries EXCEPT ![w] = 0]
  /\ found' = [found EXCEPT ![w] = Nobody]

Holds(w) == intake[task[w]].state = "processing" /\ intake[task[w]].owner = w

LoadIntake(w) ==
  /\ stage[w] = "claimed"
  /\ Holds(w)
  /\ tries' = [tries EXCEPT ![w] = intake[task[w]].tries]
  /\ stage' = [stage EXCEPT ![w] = "loaded"]
  /\ UNCHANGED <<intake, data, task, found, inboxBounds, blind>>

IntakeUnavailable(w) ==
  /\ stage[w] = "claimed"
  /\ ~Holds(w)
  /\ LeaveTask(w)
  /\ UNCHANGED <<intake, data, inboxBounds, blind>>

\* The handler's query for the row it works on.
Read(w) ==
  /\ stage[w] = "loaded"
  /\ found' = [found EXCEPT ![w] =
       IF task[w].type \in {"Follow", "Undo"} THEN follower
       ELSE [state |-> comment[task[w].of], activity |-> Nobody]]
  /\ stage' = [stage EXCEPT ![w] = "read"]
  /\ UNCHANGED <<intake, data, task, tries, inboxBounds, blind>>

\* The columns of the intake row that process_claimed writes.
HandledAs(r, state) == [r EXCEPT !.state = state, !.lease = "none", !.owner = Nobody]
Settle(w, state) ==
  /\ intake' = [intake EXCEPT ![task[w]] = HandledAs(@, state)]
  /\ LeaveTask(w)

\* except Exception: put the row back, or give up.
Errored(r, n) ==
  IF n < MaxTries THEN HandledAs([r EXCEPT !.due = FALSE], "received")
                  ELSE HandledAs(r, "failed")
Error(w) ==
  /\ intake' = [intake EXCEPT ![task[w]] = Errored(@, tries[w])]
  /\ LeaveTask(w)

Fail(w) ==
  /\ stage[w] = "read"
  /\ failures < MaxFailures
  /\ failures' = failures + 1
  /\ Error(w)
  /\ UNCHANGED <<data, inboxCrashes, overlaps, blind>>

\* InboxProcessingError: the domain is blocked, the payload is invalid, the
\* local actor is disabled, the reply target is gone or the policy refuses.
Reject(w) ==
  /\ stage[w] = "read"
  /\ Settle(w, "rejected")
  /\ UNCHANGED <<data, inboxBounds, blind>>

Raced(w) == blind' = (blind \/ found[w] # follower)

\* INSERT of a row that exists by now: IntegrityError out of the savepoint.
Conflict(w) ==
  /\ stage[w] = "read"
  /\ \/ task[w].type = "Follow" /\ found[w] = NoRelation /\ follower # NoRelation
     \/ task[w].type = "Create" /\ found[w] = NoRelation /\ comment[task[w].of] # "none"
  /\ Error(w)
  /\ UNCHANGED <<data, inboxBounds, blind>>

\* The new follower state by require_approval_to_follow.
FollowState(approval) == IF approval THEN "pending" ELSE "accepted"

\* queue_follow_accept: enqueue_activity stores a source and revision once.
Answered(f, type) == answers \union {[follow |-> f, type |-> type]}

\* The row after the session writes what differs from what it read.
Updated(old, new) ==
  [state |-> IF new.state = old.state THEN follower.state ELSE new.state,
   activity |-> IF new.activity = old.activity THEN follower.activity ELSE new.activity]

\* Mutant: the test of the approval setting is inverted.
FollowUnanswered(w, approval) ==
  /\ stage[w] = "read" /\ task[w].type = "Follow"
  /\ found[w] = NoRelation => follower = NoRelation
  /\ follower' = LET new == [state |-> FollowState(approval), activity |-> task[w].of]
                 IN  IF found[w] = NoRelation THEN new ELSE Updated(found[w], new)
  /\ answers' = IF approval THEN Answered(task[w].of, "Accept") ELSE answers
  /\ Raced(w)
  /\ Settle(w, "processed")
  /\ UNCHANGED <<comment, inboxBounds>>

\* _follow.
Follow(w, approval) ==
  /\ stage[w] = "read" /\ task[w].type = "Follow"
  /\ found[w] = NoRelation => follower = NoRelation
  /\ follower' = LET new == [state |-> FollowState(approval), activity |-> task[w].of]
                 IN  IF found[w] = NoRelation THEN new ELSE Updated(found[w], new)
  /\ answers' = IF approval THEN answers ELSE Answered(task[w].of, "Accept")
  /\ Raced(w)
  /\ Settle(w, "processed")
  /\ UNCHANGED <<comment, inboxBounds>>

\* Mutant: the relation of the actor is undone, whatever Follow it records.
UndoAny(w) ==
  /\ stage[w] = "read" /\ task[w].type = "Undo"
  /\ follower' = IF found[w].state \notin {"none", "undone"}
                 THEN [follower EXCEPT !.state = "undone"] ELSE follower
  /\ Raced(w)
  /\ Settle(w, "processed")
  /\ UNCHANGED <<comment, answers, inboxBounds>>

\* _undo: only the relation of the very Follow is undone.
Undo(w) ==
  /\ stage[w] = "read" /\ task[w].type = "Undo"
  /\ follower' = IF found[w].activity = task[w].of /\ found[w].state # "undone"
                 THEN [follower EXCEPT !.state = "undone"] ELSE follower
  /\ Raced(w)
  /\ Settle(w, "processed")
  /\ UNCHANGED <<comment, answers, inboxBounds>>

\* _create.
Create(w) ==
  /\ stage[w] = "read" /\ task[w].type = "Create"
  /\ found[w] = NoRelation => comment[task[w].of] = "none"
  /\ comment' = IF found[w] = NoRelation THEN [comment EXCEPT ![task[w].of] = "live"] ELSE comment
  /\ Settle(w, "processed")
  /\ UNCHANGED <<follower, answers, inboxBounds, blind>>

\* _update and create_remote_comment_revision: a note that is unknown, deleted
\* or has a revision waiting by now is an InboxProcessingError.
Update(w) ==
  LET n == task[w].of
      taken == found[w].state = "live" /\ comment[n] # "revised" IN
  /\ stage[w] = "read" /\ task[w].type = "Update"
  /\ comment' = IF taken /\ comment[n] = "live" THEN [comment EXCEPT ![n] = "revised"] ELSE comment
  /\ Settle(w, IF taken THEN "processed" ELSE "rejected")
  /\ UNCHANGED <<follower, answers, inboxBounds, blind>>

\* _delete: an unknown note is an InboxProcessingError.
Delete(w) ==
  /\ stage[w] = "read" /\ task[w].type = "Delete"
  /\ comment' = IF found[w].state \in {"live", "revised"}
                THEN [comment EXCEPT ![task[w].of] = "deleted"] ELSE comment
  /\ Settle(w, IF found[w] = NoRelation THEN "rejected" ELSE "processed")
  /\ UNCHANGED <<follower, answers, inboxBounds, blind>>

\* The process dies, or its commit raises: the transaction is rolled back.
InboxCrash(w) ==
  /\ stage[w] # "idle"
  /\ inboxCrashes < MaxInboxCrashes
  /\ inboxCrashes' = inboxCrashes + 1
  /\ LeaveTask(w)
  /\ UNCHANGED <<intake, data, failures, overlaps, blind>>

(***************************************************************************)
(* The administrator.                                                      *)
(***************************************************************************)
Answerable(state) == state = "pending"

\* respond_inbound_follow holds the row with FOR UPDATE.
Respond(type) ==
  /\ Answerable(follower.state)
  /\ follower' = [follower EXCEPT !.state = IF type = "Accept" THEN "accepted" ELSE "rejected"]
  /\ answers' = Answered(follower.activity, type)
  /\ UNCHANGED <<intake, comment, inboxWorkerVars, inboxBounds, blind>>

\* review_comment_revision: approved or not, the revision no longer waits.
ReviewRevision(n) ==
  /\ comment[n] = "revised"
  /\ comment' = [comment EXCEPT ![n] = "live"]
  /\ UNCHANGED <<intake, follower, answers, inboxWorkerVars, inboxBounds, blind>>

\* reprocess_inbox.
Reprocess(a) ==
  /\ intake[a].state = "failed"
  /\ intake' = [intake EXCEPT ![a] =
       [state |-> "received", tries |-> 0, due |-> TRUE, lease |-> "none", owner |-> Nobody]]
  /\ UNCHANGED <<data, inboxWorkerVars, inboxBounds, blind>>

-----------------------------------------------------------------------------
Handle(w) ==
  \/ \E approval \in BOOLEAN : Follow(w, approval)
  \/ Undo(w) \/ Create(w) \/ Update(w) \/ Delete(w) \/ Conflict(w) \/ Reject(w) \/ Fail(w)

InboxStep(w) ==
  \/ \E a \in Activities : ClaimInbox(w, a)
  \/ LoadIntake(w) \/ IntakeUnavailable(w) \/ Read(w) \/ Handle(w)

InboxNext ==
  \/ \E w \in InboxWorkers : InboxStep(w) \/ InboxCrash(w)
  \/ \E a \in Activities : ReceiveInbox(a) \/ BecomesDue(a) \/ IntakeLeaseExpires(a) \/ Reprocess(a)
  \/ \E type \in {"Accept", "Reject"} : Respond(type)
  \/ \E n \in Notes : ReviewRevision(n)

InboxSpec == InboxInit /\ [][InboxNext]_inboxVars

-----------------------------------------------------------------------------
(***************************************************************************)
(* Properties.                                                             *)
(***************************************************************************)
\* Every variable of the inbox model keeps its type.
InboxTypeOK ==
  /\ intake \in [Activities -> Intake]
  /\ follower \in Relation \union {NoRelation}
  /\ comment \in [Notes -> CommentStates]
  /\ answers \subseteq Answer
  /\ stage \in [InboxWorkers -> {"idle", "claimed", "loaded", "read"}]
  /\ task \in [InboxWorkers -> Activities \union {Nobody}]
  /\ found \in [InboxWorkers -> Relation \union FoundComment \union {Nobody}]
  /\ \A w \in InboxWorkers :
       /\ (task[w] = Nobody) <=> (stage[w] = "idle")
       /\ (found[w] = Nobody) <=> (stage[w] # "read")
  /\ tries \in [InboxWorkers -> 0..MaxTries]
  /\ inboxCrashes \in Nat /\ failures \in Nat /\ overlaps \in Nat
  /\ blind \in BOOLEAN

\* A remote follower that counts as accepted was told so: the state of the
\* relation and the queued Accept are one transaction, whatever fails between.
AcceptedIsAnswered ==
  follower.state = "accepted" /\ ~blind
    => [follow |-> follower.activity, type |-> "Accept"] \in answers

\* Every stored activity is eventually processed, rejected or failed, although
\* workers die and processing raises.
IntakeSettles ==
  \A a \in Activities : intake[a].state = "received" ~> intake[a].state \in Final

\* "Undo [is] ownership-checked": a relation is undone only by the Undo of the
\* Follow it records, unless _undo wrote over a relation it had not read.
UndoOwnsFollow ==
  follower.state = "undone" /\ ~blind =>
    intake[[type |-> "Undo", of |-> follower.activity]].state # "absent"
=============================================================================
