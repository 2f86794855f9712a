----------------------------- MODULE QueuesProofs -----------------------------
(***************************************************************************)
(* Machine-checked proofs about two queues of the database, the            *)
(* ActivityPub inbox and web push, for any number of activities, rows and  *)
(* workers and any bounds.                                                 *)
(***************************************************************************)
EXTENDS FederationInbox, WebPush, FiniteSetTheorems, TLAPS

-----------------------------------------------------------------------------
(***************************************************************************)
(* The inbox: the parts of the inductive invariant.                        *)
(***************************************************************************)
OfFollow(a) == a.type \in {"Follow", "Undo"}

\* A worker found what its handler asks for, and a relation that it found is
\* there for good.
FoundRow ==
  \A w \in InboxWorkers : stage[w] = "read" =>
    IF OfFollow(task[w])
    THEN /\ found[w] \in Relation \union {NoRelation}
         /\ found[w] # NoRelation => follower # NoRelation
    ELSE found[w] \in FoundComment

\* What a worker works on was stored.
TaskStored == \A w \in InboxWorkers : stage[w] # "idle" => intake[task[w]].state # "absent"

InboxInv == InboxTypeOK /\ FoundRow /\ TaskStored /\ AcceptedIsAnswered /\ UndoOwnsFollow

-----------------------------------------------------------------------------
\* No worker, no relation.
LEMMA InboxInitInv == InboxInit => InboxInv
<1> SUFFICES ASSUME InboxInit PROVE InboxInv
  OBVIOUS
<1>1. [state |-> "absent", tries |-> 0, due |-> TRUE, lease |-> "none", owner |-> Nobody] \in Intake
  BY InboxAssumption DEF Intake, IntakeStates
<1>2. intake \in [Activities -> Intake]
  BY <1>1 DEF InboxInit
<1>3. NoRelation \in FoundComment
  BY DEF NoRelation, FoundComment, CommentStates
<1>4. InboxTypeOK
  <2>1. 0 \in 0..MaxTries
    BY InboxAssumption
  <2>2. /\ comment \in [Notes -> CommentStates]
        /\ stage \in [InboxWorkers -> {"idle", "claimed", "loaded", "read"}]
        /\ task \in [InboxWorkers -> Activities \union {Nobody}]
        /\ found \in [InboxWorkers -> Relation \union FoundComment \union {Nobody}]
        /\ tries \in [InboxWorkers -> 0..MaxTries]
    BY <2>1 DEF InboxInit, CommentStates
  <2>3. \A w \in InboxWorkers : task[w] = Nobody /\ found[w] = Nobody /\ stage[w] = "idle"
    BY DEF InboxInit
  <2>. QED
    BY <1>2, <2>2, <2>3 DEF InboxInit, InboxTypeOK
<1>5. NoRelation.state = "none"
  BY DEF NoRelation
<1>. QED
  BY <1>4, <1>5
  DEF InboxInit, InboxInv, FoundRow, TaskStored, AcceptedIsAnswered, UndoOwnsFollow

\* Every write to the intake writes an intake row, and no write makes an activity
\* that was stored absent.
LEMMA IntakeOperations ==
  ASSUME NEW r \in Intake
  PROVE  /\ [r EXCEPT !.state = "received"] \in Intake
         /\ [r EXCEPT !.state = "received"].state = "received"
         /\ [r EXCEPT !.due = TRUE] \in Intake /\ [r EXCEPT !.due = TRUE].state = r.state
         /\ [r EXCEPT !.lease = "expired"] \in Intake
         /\ [r EXCEPT !.lease = "expired"].state = r.state
         /\ \A w \in InboxWorkers :
              ClaimedBy(r, w) \in Intake /\ ClaimedBy(r, w).state = "processing"
         /\ \A s \in IntakeStates : HandledAs(r, s) \in Intake /\ HandledAs(r, s).state = s
         /\ \A n \in Nat : Errored(r, n) \in Intake /\ Errored(r, n).state # "absent"
<1> USE InboxAssumption DEF Intake, IntakeStates
<1>1. /\ [r EXCEPT !.state = "received"] \in Intake
      /\ [r EXCEPT !.state = "received"].state = "received"
      /\ [r EXCEPT !.due = TRUE] \in Intake /\ [r EXCEPT !.due = TRUE].state = r.state
      /\ [r EXCEPT !.lease = "expired"] \in Intake
      /\ [r EXCEPT !.lease = "expired"].state = r.state
  OBVIOUS
<1>2. ASSUME NEW w \in InboxWorkers
      PROVE  ClaimedBy(r, w) \in Intake /\ ClaimedBy(r, w).state = "processing"
  <2>1. Increment(r.tries) \in 0..MaxTries
    BY DEF Increment
  <2>. QED
    BY <2>1 DEF ClaimedBy
<1>3. ASSUME NEW s \in IntakeStates
      PROVE  HandledAs(r, s) \in Intake /\ HandledAs(r, s).state = s
  BY DEF HandledAs
<1>4. ASSUME NEW n \in Nat
      PROVE  Errored(r, n) \in Intake /\ Errored(r, n).state # "absent"
  BY DEF Errored, HandledAs
<1>. QED
  BY <1>1, <1>2, <1>3, <1>4

\* Writing one row.
LEMMA IntakeWrite ==
  ASSUME InboxTypeOK, NEW a \in Activities, NEW r \in Intake, r.state # "absent",
         intake' = [intake EXCEPT ![a] = r]
  PROVE  /\ intake' \in [Activities -> Intake]
         /\ \A b \in Activities : intake[b].state # "absent" => intake'[b].state # "absent"
  BY DEF InboxTypeOK

\* A worker that leaves its task.
LEMMA LeavesTask ==
  ASSUME InboxTypeOK, FoundRow, NEW w \in InboxWorkers, LeaveTask(w),
         follower # NoRelation => follower' # NoRelation,
         \A b \in Activities : intake[b].state # "absent" => intake'[b].state # "absent",
         TaskStored
  PROVE  /\ stage' \in [InboxWorkers -> {"idle", "claimed", "loaded", "read"}]
         /\ task' \in [InboxWorkers -> Activities \union {Nobody}]
         /\ found' \in [InboxWorkers -> Relation \union FoundComment \union {Nobody}]
         /\ \A v \in InboxWorkers :
              /\ (task'[v] = Nobody) <=> (stage'[v] = "idle")
              /\ (found'[v] = Nobody) <=> (stage'[v] # "read")
         /\ tries' \in [InboxWorkers -> 0..MaxTries]
         /\ FoundRow' /\ TaskStored'
<1>. USE DEF LeaveTask, InboxTypeOK
<1>1. \A v \in InboxWorkers : /\ stage'[v] = IF v = w THEN "idle" ELSE stage[v]
                              /\ task'[v] = IF v = w THEN Nobody ELSE task[v]
                              /\ found'[v] = IF v = w THEN Nobody ELSE found[v]
  OBVIOUS
<1>2. /\ stage' \in [InboxWorkers -> {"idle", "claimed", "loaded", "read"}]
      /\ task' \in [InboxWorkers -> Activities \union {Nobody}]
      /\ found' \in [InboxWorkers -> Relation \union FoundComment \union {Nobody}]
      /\ tries' \in [InboxWorkers -> 0..MaxTries]
  BY InboxAssumption
<1>3. \A v \in InboxWorkers :
        /\ (task'[v] = Nobody) <=> (stage'[v] = "idle")
        /\ (found'[v] = Nobody) <=> (stage'[v] # "read")
  BY <1>1
<1>4. FoundRow' /\ TaskStored'
  BY <1>1 DEF FoundRow, TaskStored
<1>. QED
  BY <1>2, <1>3, <1>4

\* A step that leaves the workers' view of the rows alone.
LEMMA OtherStep ==
  ASSUME InboxInv, intake' \in [Activities -> Intake],
         \A b \in Activities : intake[b].state # "absent" => intake'[b].state # "absent",
         inboxCrashes' \in Nat, failures' \in Nat, overlaps' \in Nat,
         UNCHANGED <<data, inboxWorkerVars, blind>>
  PROVE  InboxInv'
<1>. USE DEF InboxInv, data, inboxWorkerVars
<1>1. InboxTypeOK'
  BY DEF InboxTypeOK
<1>2. FoundRow' /\ TaskStored'
  BY DEF FoundRow, TaskStored, InboxTypeOK
<1>3. AcceptedIsAnswered'
  BY DEF AcceptedIsAnswered
<1>4. UndoOwnsFollow'
  <2>1. follower.state = "undone" => [type |-> "Undo", of |-> follower.activity] \in Activities
    BY DEF InboxTypeOK, Relation, NoRelation, Activities
  <2>. QED
    BY <2>1 DEF UndoOwnsFollow
<1>. QED
  BY <1>1, <1>2, <1>3, <1>4

\* A handler that ends: its transaction commits and its worker is free.
LEMMA HandlerEnds ==
  ASSUME InboxInv, NEW w \in InboxWorkers, LeaveTask(w),
         intake' \in [Activities -> Intake],
         \A b \in Activities : intake[b].state # "absent" => intake'[b].state # "absent",
         follower' \in Relation \union {NoRelation},
         follower # NoRelation => follower' # NoRelation,
         comment' \in [Notes -> CommentStates], answers' \subseteq Answer,
         inboxCrashes' \in Nat, failures' \in Nat, overlaps' \in Nat, blind' \in BOOLEAN,
         AcceptedIsAnswered', UndoOwnsFollow'
  PROVE  InboxInv'
<1>1. /\ stage' \in [InboxWorkers -> {"idle", "claimed", "loaded", "read"}]
      /\ task' \in [InboxWorkers -> Activities \union {Nobody}]
      /\ found' \in [InboxWorkers -> Relation \union FoundComment \union {Nobody}]
      /\ \A v \in InboxWorkers :
           /\ (task'[v] = Nobody) <=> (stage'[v] = "idle")
           /\ (found'[v] = Nobody) <=> (stage'[v] # "read")
      /\ tries' \in [InboxWorkers -> 0..MaxTries]
      /\ FoundRow' /\ TaskStored'
  BY LeavesTask DEF InboxInv
<1>2. InboxTypeOK'
  BY <1>1 DEF InboxTypeOK
<1>. QED
  BY <1>1, <1>2 DEF InboxInv

\* What the relation says stays true of a step that leaves it alone.
LEMMA RelationKept ==
  ASSUME InboxInv, follower' = follower, blind' = blind, answers \subseteq answers',
         \A b \in Activities : intake[b].state # "absent" => intake'[b].state # "absent"
  PROVE  AcceptedIsAnswered' /\ UndoOwnsFollow'
<1>1. AcceptedIsAnswered'
  BY DEF InboxInv, AcceptedIsAnswered
<1>2. follower.state = "undone" => [type |-> "Undo", of |-> follower.activity] \in Activities
  BY DEF InboxInv, InboxTypeOK, Relation, NoRelation, Activities
<1>. QED
  BY <1>1, <1>2 DEF InboxInv, UndoOwnsFollow

\* An error, a rejection, a conflict, a crash, or a lost claim changes no data.
LEMMA FailingStep ==
  ASSUME InboxInv, NEW w \in InboxWorkers,
         Fail(w) \/ Reject(w) \/ Conflict(w) \/ InboxCrash(w) \/ IntakeUnavailable(w)
  PROVE  InboxInv'
<1>t. InboxTypeOK /\ TaskStored
  BY DEF InboxInv
<1>0. ASSUME intake' \in [Activities -> Intake],
             \A b \in Activities : intake[b].state # "absent" => intake'[b].state # "absent",
             LeaveTask(w), UNCHANGED data, UNCHANGED blind,
             inboxCrashes' \in Nat, failures' \in Nat, overlaps' \in Nat
      PROVE  InboxInv'
  <2>1. AcceptedIsAnswered' /\ UndoOwnsFollow'
    BY <1>0, RelationKept DEF data
  <2>. QED
    BY <1>0, <1>t, <2>1, HandlerEnds DEF data, InboxTypeOK
<1>1. CASE InboxCrash(w) \/ IntakeUnavailable(w)
  BY <1>0, <1>1, <1>t DEF InboxCrash, IntakeUnavailable, InboxTypeOK, inboxBounds
<1>2. CASE Fail(w) \/ Reject(w) \/ Conflict(w)
  <2>1. stage[w] = "read" /\ LeaveTask(w) /\ (Error(w) \/ Settle(w, "rejected"))
    BY <1>2 DEF Fail, Reject, Conflict, Error, Settle
  <2>2. task[w] \in Activities /\ tries[w] \in Nat
    BY <1>t, <2>1, InboxAssumption DEF InboxTypeOK
  <2>3. PICK r \in Intake : r.state # "absent" /\ intake' = [intake EXCEPT ![task[w]] = r]
    <3>1. intake[task[w]] \in Intake
      BY <1>t, <2>2 DEF InboxTypeOK
    <3>2. CASE Error(w)
      BY <2>2, <3>1, <3>2, IntakeOperations DEF Error
    <3>3. CASE Settle(w, "rejected")
      <4>1. "rejected" \in IntakeStates
        BY DEF IntakeStates
      <4>. QED
        BY <3>1, <3>3, <4>1, IntakeOperations DEF Settle
    <3>. QED
      BY <2>1, <3>2, <3>3
  <2>4. /\ intake' \in [Activities -> Intake]
        /\ \A b \in Activities : intake[b].state # "absent" => intake'[b].state # "absent"
    BY <1>t, <2>2, <2>3, IntakeWrite
  <2>. QED
    BY <1>0, <1>2, <1>t, <2>1, <2>4 DEF Fail, Reject, Conflict, InboxTypeOK, inboxBounds
<1>. QED
  BY <1>1, <1>2

\* The row of the task is settled.
LEMMA SettledStep ==
  ASSUME InboxTypeOK, NEW w \in InboxWorkers, stage[w] = "read",
         NEW s \in IntakeStates \ {"absent"}, Settle(w, s)
  PROVE  /\ LeaveTask(w)
         /\ task[w] \in Activities
         /\ intake' \in [Activities -> Intake]
         /\ \A b \in Activities : intake[b].state # "absent" => intake'[b].state # "absent"
<1>1. task[w] \in Activities /\ intake[task[w]] \in Intake
  BY DEF InboxTypeOK
<1> DEFINE r == HandledAs(intake[task[w]], s)
<1>2. r \in Intake /\ r.state = s
  BY <1>1, IntakeOperations
<1>3. intake' = [intake EXCEPT ![task[w]] = r] /\ LeaveTask(w)
  BY DEF Settle
<1> HIDE DEF r
<1>. QED
  BY <1>1, <1>2, <1>3, IntakeWrite

\* A handler of a note changes the comment alone.
LEMMA NoteStep ==
  ASSUME InboxInv, NEW w \in InboxWorkers, Create(w) \/ Update(w) \/ Delete(w)
  PROVE  InboxInv'
<1>t. InboxTypeOK /\ comment \in [Notes -> CommentStates]
  BY DEF InboxInv, InboxTypeOK
<1>0. ASSUME stage[w] = "read", Settle(w, "processed") \/ Settle(w, "rejected"),
             comment' \in [Notes -> CommentStates],
             UNCHANGED <<follower, answers, inboxBounds, blind>>
      PROVE  InboxInv'
  <2>1. {"processed", "rejected"} \subseteq IntakeStates \ {"absent"}
    BY DEF IntakeStates
  <2>2. PICK s \in IntakeStates \ {"absent"} : Settle(w, s)
    BY <1>0, <2>1
  <2>3. /\ LeaveTask(w)
        /\ intake' \in [Activities -> Intake]
        /\ \A b \in Activities : intake[b].state # "absent" => intake'[b].state # "absent"
    BY <1>0, <1>t, <2>2, SettledStep
  <2>4. AcceptedIsAnswered' /\ UndoOwnsFollow'
    BY <1>0, <2>3, RelationKept
  <2>. QED
    BY <1>0, <1>t, <2>3, <2>4, HandlerEnds DEF inboxBounds, InboxTypeOK
<1>1. \A n, c : c \in CommentStates => [comment EXCEPT ![n] = c] \in [Notes -> CommentStates]
  BY <1>t
<1>2. {"live", "revised", "deleted"} \subseteq CommentStates
  BY DEF CommentStates
<1>3. CASE Create(w)
  BY <1>0, <1>1, <1>2, <1>3, <1>t DEF Create
<1>4. CASE Update(w)
  <2>1. comment' \in [Notes -> CommentStates]
    BY <1>1, <1>2, <1>4, <1>t DEF Update
  <2>2. Settle(w, "processed") \/ Settle(w, "rejected")
    BY <1>4 DEF Update
  <2>. QED
    BY <1>0, <1>4, <2>1, <2>2 DEF Update
<1>5. CASE Delete(w)
  <2>1. comment' \in [Notes -> CommentStates]
    BY <1>1, <1>2, <1>5, <1>t DEF Delete
  <2>2. Settle(w, "processed") \/ Settle(w, "rejected")
    BY <1>5 DEF Delete
  <2>. QED
    BY <1>0, <1>5, <2>1, <2>2 DEF Delete
<1>. QED
  BY <1>3, <1>4, <1>5

\* What the handler of a follow or an undo read.
LEMMA ReadRelation ==
  ASSUME InboxInv, NEW w \in InboxWorkers, stage[w] = "read", OfFollow(task[w])
  PROVE  /\ task[w] \in Activities /\ task[w].of \in RemoteFollows
         /\ found[w] \in Relation \union {NoRelation}
         /\ found[w] # NoRelation => follower \in Relation
<1>1. task[w] \in Activities
  BY DEF InboxInv, InboxTypeOK
<1>2. task[w].of \in RemoteFollows
  BY <1>1 DEF Activities, OfFollow
<1>. QED
  BY <1>1, <1>2 DEF InboxInv, InboxTypeOK, FoundRow

\* _follow: accepted and answered are one transaction.
LEMMA FollowStep ==
  ASSUME InboxInv, NEW w \in InboxWorkers, NEW approval \in BOOLEAN, Follow(w, approval)
  PROVE  InboxInv'
<1> DEFINE f == task[w].of
           new == [state |-> FollowState(approval), activity |-> f]
<1>1. /\ stage[w] = "read" /\ OfFollow(task[w])
      /\ Settle(w, "processed") /\ "processed" \in IntakeStates \ {"absent"}
  BY DEF Follow, OfFollow, IntakeStates
<1>2. /\ f \in RemoteFollows
      /\ found[w] \in Relation \union {NoRelation}
      /\ found[w] # NoRelation => follower \in Relation
  BY <1>1, ReadRelation
<1>3. /\ LeaveTask(w)
      /\ intake' \in [Activities -> Intake]
      /\ \A b \in Activities : intake[b].state # "absent" => intake'[b].state # "absent"
  BY <1>1, SettledStep DEF InboxInv
<1>4. /\ new \in Relation /\ new.activity = f
      /\ new.state = IF approval THEN "pending" ELSE "accepted"
  BY <1>2 DEF Relation, FollowState
<1> HIDE DEF new, f
<1>5. /\ found[w] = NoRelation => follower' = new
      /\ found[w] # NoRelation => follower' = Updated(found[w], new)
  BY DEF Follow, new, f
<1>6. follower' \in Relation
  <2>1. CASE found[w] = NoRelation
    BY <1>4, <1>5, <2>1
  <2>2. CASE found[w] # NoRelation
    BY <1>2, <1>4, <1>5, <2>2 DEF Updated, Relation
  <2>. QED
    BY <2>1, <2>2
<1>7. blind' \in BOOLEAN /\ (~blind' => ~blind /\ found[w] = follower)
  BY DEF Follow, Raced, InboxInv, InboxTypeOK
<1>8. ~blind' => follower' = new
  <2> SUFFICES ASSUME ~blind', found[w] # NoRelation PROVE follower' = new
    BY <1>5
  <2>1. follower' = Updated(follower, new)
    BY <1>5, <1>7
  <2>2. Updated(follower, new) = [state |-> new.state, activity |-> new.activity]
    BY DEF Updated
  <2>. QED
    BY <1>4, <2>1, <2>2 DEF Relation
<1>9. answers' \subseteq Answer
  <2>1. [follow |-> f, type |-> "Accept"] \in Answer
    BY <1>2 DEF Answer
  <2>. QED
    BY <2>1 DEF Follow, Answered, InboxInv, InboxTypeOK, f
<1>10. AcceptedIsAnswered'
  <2> SUFFICES ASSUME ~blind', follower'.state = "accepted"
               PROVE  [follow |-> follower'.activity, type |-> "Accept"] \in answers'
    BY DEF AcceptedIsAnswered
  <2>1. ~approval /\ follower'.activity = f
    BY <1>4, <1>8
  <2>. QED
    BY <2>1 DEF Follow, Answered, f
<1>11. UndoOwnsFollow'
  BY <1>4, <1>8 DEF UndoOwnsFollow
<1>12. NoRelation \notin Relation
  BY DEF NoRelation, Relation
<1>. QED
  BY <1>3, <1>6, <1>7, <1>9, <1>10, <1>11, <1>12, HandlerEnds
  DEF Follow, InboxInv, InboxTypeOK, inboxBounds

\* _undo: the Undo of the relation that is undone was stored.
LEMMA UndoStep ==
  ASSUME InboxInv, NEW w \in InboxWorkers, Undo(w)
  PROVE  InboxInv'
<1> DEFINE f == task[w].of
<1>1. /\ stage[w] = "read" /\ OfFollow(task[w]) /\ task[w].type = "Undo"
      /\ Settle(w, "processed") /\ "processed" \in IntakeStates \ {"absent"}
  BY DEF Undo, OfFollow, IntakeStates
<1>2. /\ task[w] \in Activities /\ f \in RemoteFollows
      /\ found[w] \in Relation \union {NoRelation}
      /\ found[w] # NoRelation => follower \in Relation
  BY <1>1, ReadRelation
<1>3. /\ LeaveTask(w)
      /\ intake' \in [Activities -> Intake]
      /\ \A b \in Activities : intake[b].state # "absent" => intake'[b].state # "absent"
  BY <1>1, SettledStep DEF InboxInv
<1>4. task[w] = [type |-> "Undo", of |-> f] /\ intake'[task[w]].state # "absent"
  <2>1. task[w] = [type |-> "Undo", of |-> f]
    BY <1>1, <1>2 DEF Activities
  <2>2. intake[task[w]].state # "absent"
    BY <1>1 DEF InboxInv, TaskStored
  <2>. QED
    BY <1>2, <1>3, <2>1, <2>2
<1>5. blind' \in BOOLEAN /\ (~blind' => ~blind /\ found[w] = follower)
  BY DEF Undo, Raced, InboxInv, InboxTypeOK
<1>6. CASE found[w].activity = f /\ found[w].state # "undone"
  <2>1. follower' = [follower EXCEPT !.state = "undone"]
    BY <1>6 DEF Undo
  <2>2. found[w] # NoRelation
    BY <1>2, <1>6, InboxAssumption DEF NoRelation
  <2>3. /\ follower' \in Relation /\ follower'.state = "undone"
        /\ follower'.activity = follower.activity
    BY <1>2, <2>1, <2>2 DEF Relation
  <2>4. AcceptedIsAnswered'
    BY <2>3 DEF AcceptedIsAnswered
  <2>5. UndoOwnsFollow'
    BY <1>4, <1>5, <1>6, <2>3 DEF UndoOwnsFollow
  <2>6. NoRelation \notin Relation
    BY DEF NoRelation, Relation
  <2>. QED
    BY <1>3, <1>5, <2>3, <2>4, <2>5, <2>6, HandlerEnds
    DEF Undo, InboxInv, InboxTypeOK, inboxBounds
<1>7. CASE ~(found[w].activity = f /\ found[w].state # "undone")
  <2>1. follower' = follower /\ answers' = answers
    BY <1>7 DEF Undo
  <2>2. AcceptedIsAnswered'
    BY <1>5, <2>1 DEF AcceptedIsAnswered, InboxInv
  <2>3. follower.state = "undone" => [type |-> "Undo", of |-> follower.activity] \in Activities
    BY DEF InboxInv, InboxTypeOK, Relation, NoRelation, Activities
  <2>4. UndoOwnsFollow'
    BY <1>3, <1>5, <2>1, <2>3 DEF UndoOwnsFollow, InboxInv
  <2>. QED
    BY <1>3, <1>5, <2>1, <2>2, <2>4, HandlerEnds
    DEF Undo, InboxInv, InboxTypeOK, inboxBounds
<1>. QED
  BY <1>6, <1>7

\* A worker on its way to the handler.
LEMMA ApproachStep ==
  ASSUME InboxInv, NEW w \in InboxWorkers,
         (\E a \in Activities : ClaimInbox(w, a)) \/ LoadIntake(w) \/ Read(w)
  PROVE  InboxInv'
<1>t. InboxTypeOK /\ FoundRow /\ TaskStored
  BY DEF InboxInv
<1>1. ASSUME NEW a \in Activities, ClaimInbox(w, a) PROVE InboxInv'
  <2>1. /\ ClaimedBy(intake[a], w) \in Intake
        /\ ClaimedBy(intake[a], w).state = "processing"
    <3>1. intake[a] \in Intake
      BY <1>t DEF InboxTypeOK
    <3>. QED
      BY <3>1, IntakeOperations, ZenonT(60)
  <2>2. intake' = [intake EXCEPT ![a] = ClaimedBy(intake[a], w)]
    BY <1>1 DEF ClaimInbox
  <2>3. /\ intake' \in [Activities -> Intake] /\ intake'[a].state = "processing"
        /\ \A b \in Activities : intake[b].state # "absent" => intake'[b].state # "absent"
    BY <1>t, <2>1, <2>2 DEF InboxTypeOK
  <2>4. a # Nobody
    BY NobodyAssumption
  <2>5. /\ stage' = [stage EXCEPT ![w] = "claimed"] /\ task' = [task EXCEPT ![w] = a]
        /\ found' = found /\ tries' = tries /\ stage[w] = "idle"
    BY <1>1 DEF ClaimInbox
  <2>6. \A v \in InboxWorkers : /\ stage'[v] = IF v = w THEN "claimed" ELSE stage[v]
                                /\ task'[v] = IF v = w THEN a ELSE task[v]
    BY <1>t, <2>5 DEF InboxTypeOK
  <2>7. /\ stage' \in [InboxWorkers -> {"idle", "claimed", "loaded", "read"}]
        /\ task' \in [InboxWorkers -> Activities \union {Nobody}]
    BY <1>t, <2>5 DEF InboxTypeOK
  <2>8. InboxTypeOK'
    BY <1>1, <1>t, <2>3, <2>4, <2>5, <2>6, <2>7 DEF ClaimInbox, data, inboxBounds, InboxTypeOK
  <2>9. FoundRow' /\ TaskStored'
    BY <1>1, <1>t, <2>3, <2>5, <2>6 DEF ClaimInbox, data, FoundRow, TaskStored, InboxTypeOK
  <2>10. AcceptedIsAnswered' /\ UndoOwnsFollow'
    BY <1>1, <2>3, RelationKept DEF ClaimInbox, data
  <2>. QED
    BY <2>8, <2>9, <2>10 DEF InboxInv
<1>2. CASE LoadIntake(w)
  <2>1. intake[task[w]].tries \in 0..MaxTries
    BY <1>t, <1>2 DEF LoadIntake, InboxTypeOK, Intake
  <2>2. \A v \in InboxWorkers : stage'[v] = IF v = w THEN "loaded" ELSE stage[v]
    BY <1>t, <1>2 DEF LoadIntake, InboxTypeOK
  <2>3. /\ tries' \in [InboxWorkers -> 0..MaxTries]
        /\ stage' \in [InboxWorkers -> {"idle", "claimed", "loaded", "read"}]
    BY <1>t, <1>2, <2>1 DEF LoadIntake, InboxTypeOK
  <2>4. InboxTypeOK'
    BY <1>t, <1>2, <2>2, <2>3 DEF LoadIntake, InboxTypeOK, data, inboxBounds
  <2>5. FoundRow' /\ TaskStored'
    BY <1>t, <1>2, <2>2 DEF LoadIntake, FoundRow, TaskStored, data
  <2>6. AcceptedIsAnswered' /\ UndoOwnsFollow'
    BY <1>2, RelationKept DEF LoadIntake, data
  <2>. QED
    BY <2>4, <2>5, <2>6 DEF InboxInv
<1>3. CASE Read(w)
  <2> DEFINE row == IF OfFollow(task[w]) THEN follower
                    ELSE [state |-> comment[task[w].of], activity |-> Nobody]
  <2>1. stage[w] = "loaded" /\ task[w] \in Activities
    BY <1>t, <1>3 DEF Read, InboxTypeOK
  <2>2. IF OfFollow(task[w]) THEN row \in Relation \union {NoRelation} /\ row = follower
        ELSE row \in FoundComment
    <3>1. ~OfFollow(task[w]) => task[w].of \in Notes
      BY <2>1 DEF OfFollow, Activities
    <3>. QED
      BY <1>t, <3>1 DEF InboxTypeOK, FoundComment
  <2>3. NoRelation \in FoundComment
    BY DEF NoRelation, FoundComment, CommentStates
  <2>4. row \in Relation \union FoundComment /\ row # Nobody
    BY <2>2, <2>3, NobodyAssumption
  <2>5. found' = [found EXCEPT ![w] = row] /\ stage' = [stage EXCEPT ![w] = "read"]
    BY <1>3 DEF Read, OfFollow
  <2> HIDE DEF row
  <2>6. \A v \in InboxWorkers : /\ stage'[v] = IF v = w THEN "read" ELSE stage[v]
                                /\ found'[v] = IF v = w THEN row ELSE found[v]
    BY <1>t, <2>5 DEF InboxTypeOK
  <2>7. /\ stage' \in [InboxWorkers -> {"idle", "claimed", "loaded", "read"}]
        /\ found' \in [InboxWorkers -> Relation \union FoundComment \union {Nobody}]
    BY <1>t, <2>4, <2>5 DEF InboxTypeOK
  <2>8. InboxTypeOK'
    BY <1>3, <1>t, <2>1, <2>4, <2>6, <2>7 DEF Read, data, inboxBounds, InboxTypeOK
  <2>9. FoundRow' /\ TaskStored'
    BY <1>3, <1>t, <2>1, <2>2, <2>6 DEF Read, data, FoundRow, TaskStored
  <2>10. AcceptedIsAnswered' /\ UndoOwnsFollow'
    BY <1>3, RelationKept DEF Read, data
  <2>. QED
    BY <2>8, <2>9, <2>10 DEF InboxInv
<1>. QED
  BY <1>1, <1>2, <1>3

\* The intake row of an activity, written by nobody's worker.
LEMMA IntakeStep ==
  ASSUME InboxInv, NEW a \in Activities,
         ReceiveInbox(a) \/ BecomesDue(a) \/ IntakeLeaseExpires(a) \/ Reprocess(a)
  PROVE  InboxInv'
<1>t. InboxTypeOK /\ intake[a] \in Intake /\ inboxCrashes \in Nat /\ failures \in Nat
      /\ overlaps \in Nat
  BY DEF InboxInv, InboxTypeOK
<1>0. ASSUME NEW r \in Intake, r.state # "absent" \/ intake[a].state = "absent",
             intake' = [intake EXCEPT ![a] = r],
             inboxCrashes' \in Nat, failures' \in Nat, overlaps' \in Nat,
             UNCHANGED <<data, inboxWorkerVars, blind>>
      PROVE  InboxInv'
  <2>1. /\ intake' \in [Activities -> Intake]
        /\ \A b \in Activities : intake[b].state # "absent" => intake'[b].state # "absent"
    BY <1>0, <1>t DEF InboxTypeOK
  <2>. QED
    BY <1>0, <2>1, OtherStep
<1>1. CASE ReceiveInbox(a)
  <2>1. /\ [intake[a] EXCEPT !.state = "received"] \in Intake
        /\ intake' = [intake EXCEPT ![a] = [intake[a] EXCEPT !.state = "received"]]
    BY <1>1, <1>t, IntakeOperations DEF ReceiveInbox
  <2>. QED
    BY <1>0, <1>1, <1>t, <2>1 DEF ReceiveInbox, inboxBounds
<1>2. CASE BecomesDue(a)
  <2>1. /\ [intake[a] EXCEPT !.due = TRUE] \in Intake
        /\ [intake[a] EXCEPT !.due = TRUE].state = intake[a].state
        /\ intake' = [intake EXCEPT ![a] = [intake[a] EXCEPT !.due = TRUE]]
    BY <1>2, <1>t, IntakeOperations DEF BecomesDue
  <2>. QED
    BY <1>0, <1>2, <1>t, <2>1 DEF BecomesDue, inboxBounds
<1>3. CASE IntakeLeaseExpires(a)
  <2>1. /\ [intake[a] EXCEPT !.lease = "expired"] \in Intake
        /\ [intake[a] EXCEPT !.lease = "expired"].state = intake[a].state
        /\ intake' = [intake EXCEPT ![a] = [intake[a] EXCEPT !.lease = "expired"]]
    BY <1>3, <1>t, IntakeOperations DEF IntakeLeaseExpires
  <2>2. overlaps' \in Nat
    BY <1>3, <1>t DEF IntakeLeaseExpires
  <2>. QED
    BY <1>0, <1>3, <1>t, <2>1, <2>2 DEF IntakeLeaseExpires
<1>4. CASE Reprocess(a)
  <2> DEFINE r == [state |-> "received", tries |-> 0, due |-> TRUE, lease |-> "none", owner |-> Nobody]
  <2>1. r \in Intake /\ r.state = "received"
    BY InboxAssumption DEF Intake, IntakeStates
  <2>2. intake' = [intake EXCEPT ![a] = r]
    BY <1>4 DEF Reprocess
  <2> HIDE DEF r
  <2>. QED
    BY <1>0, <1>4, <1>t, <2>1, <2>2 DEF Reprocess, inboxBounds
<1>. QED
  BY <1>1, <1>2, <1>3, <1>4

\* The administrator's answer and the moderator's decision.
LEMMA AdministratorStep ==
  ASSUME InboxInv,
         \/ \E type \in {"Accept", "Reject"} : Respond(type)
         \/ \E n \in Notes : ReviewRevision(n)
  PROVE  InboxInv'
<1>t. InboxTypeOK /\ FoundRow /\ TaskStored
  BY DEF InboxInv
<1>1. ASSUME NEW type \in {"Accept", "Reject"}, Respond(type) PROVE InboxInv'
  <2>1. follower \in Relation
    BY <1>1, <1>t DEF Respond, Answerable, InboxTypeOK, NoRelation
  <2>2. /\ follower' \in Relation /\ follower'.activity = follower.activity
        /\ follower'.state = IF type = "Accept" THEN "accepted" ELSE "rejected"
    BY <1>1, <2>1 DEF Respond, Relation
  <2>3. answers' = answers \union {[follow |-> follower.activity, type |-> type]}
    BY <1>1 DEF Respond, Answered
  <2>4. answers' \subseteq Answer
    BY <1>t, <2>1, <2>3 DEF InboxTypeOK, Relation, Answer
  <2>5. NoRelation \notin Relation
    BY DEF NoRelation, Relation
  <2>6. InboxTypeOK'
    BY <1>1, <1>t, <2>2, <2>4 DEF Respond, InboxTypeOK, inboxWorkerVars, inboxBounds
  <2>7. FoundRow' /\ TaskStored'
    BY <1>1, <1>t, <2>2, <2>5 DEF Respond, FoundRow, TaskStored, inboxWorkerVars
  <2>8. AcceptedIsAnswered'
    BY <2>2, <2>3 DEF AcceptedIsAnswered
  <2>9. UndoOwnsFollow'
    BY <2>2 DEF UndoOwnsFollow
  <2>. QED
    BY <2>6, <2>7, <2>8, <2>9 DEF InboxInv
<1>2. ASSUME NEW n \in Notes, ReviewRevision(n) PROVE InboxInv'
  <2>1. comment' \in [Notes -> CommentStates]
    BY <1>2, <1>t DEF ReviewRevision, InboxTypeOK, CommentStates
  <2>2. InboxTypeOK'
    BY <1>2, <1>t, <2>1 DEF ReviewRevision, InboxTypeOK, inboxWorkerVars, inboxBounds
  <2>3. FoundRow' /\ TaskStored'
    BY <1>2, <1>t DEF ReviewRevision, FoundRow, TaskStored, inboxWorkerVars
  <2>4. AcceptedIsAnswered' /\ UndoOwnsFollow'
    BY <1>2, RelationKept DEF ReviewRevision
  <2>. QED
    BY <2>2, <2>3, <2>4 DEF InboxInv
<1>. QED
  BY <1>1, <1>2

\* Every step of the inbox preserves the invariant.
LEMMA InboxNextInv == InboxInv /\ [InboxNext]_inboxVars => InboxInv'
<1> SUFFICES ASSUME InboxInv, [InboxNext]_inboxVars PROVE InboxInv'
  OBVIOUS
<1>1. ASSUME NEW w \in InboxWorkers, InboxStep(w) \/ InboxCrash(w) PROVE InboxInv'
  <2>1. CASE (\E a \in Activities : ClaimInbox(w, a)) \/ LoadIntake(w) \/ Read(w)
    BY <2>1, ApproachStep
  <2>2. CASE Fail(w) \/ Reject(w) \/ Conflict(w) \/ InboxCrash(w) \/ IntakeUnavailable(w)
    BY <2>2, FailingStep
  <2>3. CASE Create(w) \/ Update(w) \/ Delete(w)
    BY <2>3, NoteStep
  <2>4. ASSUME NEW approval \in BOOLEAN, Follow(w, approval) PROVE InboxInv'
    BY <2>4, FollowStep
  <2>5. CASE Undo(w)
    BY <2>5, UndoStep
  <2>. QED
    BY <1>1, <2>1, <2>2, <2>3, <2>4, <2>5 DEF InboxStep, Handle
<1>2. ASSUME NEW a \in Activities,
             ReceiveInbox(a) \/ BecomesDue(a) \/ IntakeLeaseExpires(a) \/ Reprocess(a)
      PROVE  InboxInv'
  BY <1>2, IntakeStep
<1>3. CASE \/ \E type \in {"Accept", "Reject"} : Respond(type)
           \/ \E n \in Notes : ReviewRevision(n)
  BY <1>3, AdministratorStep
<1>4. CASE UNCHANGED inboxVars
  BY <1>4, OtherStep DEF inboxVars, inboxBounds, InboxInv, InboxTypeOK
<1>. QED
  BY <1>1, <1>2, <1>3, <1>4 DEF InboxNext

\* The invariant of the inbox.
THEOREM InboxInvariance == InboxSpec => []InboxInv
  BY InboxInitInv, InboxNextInv, PTL DEF InboxSpec

\* Intake rows, the relation, the comments and the workers keep their types.
THEOREM InboxTypeCorrect == InboxSpec => []InboxTypeOK
<1>1. InboxInv => InboxTypeOK
  BY DEF InboxInv
<1>. QED
  BY <1>1, InboxInvariance, PTL

\* _follow and respond_inbound_follow: a follower that counts as accepted was told
\* so, unless a handler committed over a relation that it had not read.
THEOREM AcceptedWasAnswered == InboxSpec => []AcceptedIsAnswered
<1>1. InboxInv => AcceptedIsAnswered
  BY DEF InboxInv
<1>. QED
  BY <1>1, InboxInvariance, PTL

\* _undo: a relation is undone only by the Undo of the Follow it records, with the
\* same exception.
THEOREM UndoIsOfTheFollow == InboxSpec => []UndoOwnsFollow
<1>1. InboxInv => UndoOwnsFollow
  BY DEF InboxInv
<1>. QED
  BY <1>1, InboxInvariance, PTL

-----------------------------------------------------------------------------
(***************************************************************************)
(* Web push: the parts of the inductive invariant.                         *)
(***************************************************************************)
PushStatuses == {"none", "pending", "retry", "leased"} \union PushFinal
PushRow ==
  [status: PushStatuses, attempts: Nat, owner: PushWorkers \union {"none"}, lapsed: BOOLEAN]
Pusher == [row: Rows \union {<<>>}, phase: {"idle", "claimed", "sending"}, attempts: Nat]

PushTypes ==
  /\ pref \in SUBSET Switches /\ inbox \in SUBSET Events
  /\ endpoint \in [Endpoints -> {"absent", "active", "disabled"}]
  /\ push \in [Rows -> PushRow]
  /\ pusher \in [PushWorkers -> Pusher]
  /\ \A w \in PushWorkers : pusher[w].phase # "idle" => pusher[w].row \in Rows
  /\ taken \in [Rows -> Nat]
  /\ overran \in SUBSET Rows
  /\ grace \in [Rows -> Int]

WorkingOn(w, r) == pusher[w].phase # "idle" /\ pusher[w].row = r

\* Until its lease lapses, a row belongs to the worker that claimed it.
LeaseHeld ==
  \A r \in Rows, w \in PushWorkers : WorkingOn(w, r) =>
    /\ r[1] \in inbox
    /\ r \notin overran => push[r].status = "leased" /\ push[r].owner = w

LapseNoted == \A r \in Rows : push[r].lapsed => r \in overran

\* Nothing is known of an event that was not stored.
NoRowBefore ==
  \A r \in Rows : r[1] \notin inbox => push[r].status = "none" /\ taken[r] = 0

\* A delivery that the service took is sent, or its worker died.
TakenOnce ==
  \A r \in Rows : r \notin overran /\ taken[r] > 0 =>
    /\ taken[r] = 1
    /\ \/ push[r].status = "sent"
       \/ push[r].status = "leased" /\ \A w \in PushWorkers : ~WorkingOn(w, r)

DeliveryInv == PushTypes /\ LeaseHeld /\ LapseNoted /\ NoRowBefore /\ TakenOnce

\* After an opt-out the sends under way are counted.
GraceCovers ==
  \A r \in Rows :
    IF Deliverable(r) THEN grace[r] >= 0 ELSE Cardinality(Sending(r)) <= grace[r]

-----------------------------------------------------------------------------
\* Every write to web_push_deliveries writes a delivery row.
LEMMA PushOperations ==
  /\ NoPush \in PushRow /\ NoPush.status = "none" /\ ~NoPush.lapsed
  /\ [NoPush EXCEPT !.status = "pending"] \in PushRow
  /\ [NoPush EXCEPT !.status = "pending"].status = "pending"
  /\ ~[NoPush EXCEPT !.status = "pending"].lapsed
  /\ \A p \in PushRow :
       /\ [p EXCEPT !.status = "cancelled", !.owner = "none"] \in PushRow
       /\ [p EXCEPT !.status = "cancelled", !.owner = "none"].status = "cancelled"
       /\ [p EXCEPT !.status = "cancelled", !.owner = "none"].lapsed = p.lapsed
       /\ [p EXCEPT !.lapsed = TRUE] \in PushRow
       /\ [p EXCEPT !.lapsed = TRUE].status = p.status
  /\ \A p \in PushRow, w \in PushWorkers :
       LET c == [status |-> "leased", owner |-> w, lapsed |-> FALSE, attempts |-> p.attempts + 1]
       IN  c \in PushRow /\ c.status = "leased" /\ c.owner = w /\ ~c.lapsed
<1> USE DEF PushRow, PushStatuses, PushFinal, NoPush
<1>1. /\ NoPush \in PushRow /\ NoPush.status = "none" /\ ~NoPush.lapsed
      /\ [NoPush EXCEPT !.status = "pending"] \in PushRow
      /\ [NoPush EXCEPT !.status = "pending"].status = "pending"
      /\ ~[NoPush EXCEPT !.status = "pending"].lapsed
  OBVIOUS
<1>2. ASSUME NEW p \in PushRow
      PROVE  /\ [p EXCEPT !.status = "cancelled", !.owner = "none"] \in PushRow
             /\ [p EXCEPT !.status = "cancelled", !.owner = "none"].status = "cancelled"
             /\ [p EXCEPT !.status = "cancelled", !.owner = "none"].lapsed = p.lapsed
             /\ [p EXCEPT !.lapsed = TRUE] \in PushRow
             /\ [p EXCEPT !.lapsed = TRUE].status = p.status
  OBVIOUS
<1>3. ASSUME NEW p \in PushRow, NEW w \in PushWorkers
      PROVE  LET c == [status |-> "leased", owner |-> w, lapsed |-> FALSE,
                       attempts |-> p.attempts + 1]
             IN  c \in PushRow /\ c.status = "leased" /\ c.owner = w /\ ~c.lapsed
  OBVIOUS
<1>. QED
  BY <1>1, <1>2, <1>3

\* The end of a claim writes a delivery row without a lease.
LEMMA ClosedRow ==
  ASSUME NEW p \in PushRow, NEW s \in PushStatuses
  PROVE  Closed(p, s) \in PushRow /\ Closed(p, s).status = s /\ ~Closed(p, s).lapsed
  BY DEF Closed, PushRow, PushStatuses, PushFinal

\* What a worker may hold.
LEMMA PusherOperations ==
  /\ Resting \in Pusher /\ Resting.phase = "idle"
  /\ \A r \in Rows, n \in Nat :
       /\ [row |-> r, phase |-> "claimed", attempts |-> 0] \in Pusher
       /\ [row |-> r, phase |-> "sending", attempts |-> n] \in Pusher
  BY DEF Resting, Pusher

\* Nothing is stored, sent or taken.
LEMMA DeliveryInit == PushInit => DeliveryInv /\ GraceCovers
<1> SUFFICES ASSUME PushInit PROVE DeliveryInv /\ GraceCovers
  OBVIOUS
<1> USE DEF PushInit
<1>1. \A r \in Rows : push[r] = NoPush /\ taken[r] = 0 /\ grace[r] = 0
  OBVIOUS
<1>2. \A w \in PushWorkers : pusher[w] = Resting
  OBVIOUS
<1>a. NoPush \in PushRow /\ NoPush.status = "none" /\ ~NoPush.lapsed
  BY PushOperations
<1>b. Resting \in Pusher /\ Resting.phase = "idle"
  BY PusherOperations
<1>3. PushTypes
  <2>1. \A w \in PushWorkers : pusher[w].phase = "idle"
    BY <1>2, <1>b
  <2>2. push \in [Rows -> PushRow] /\ pusher \in [PushWorkers -> Pusher]
    BY <1>a, <1>b
  <2>. QED
    BY <2>1, <2>2 DEF PushTypes, Switches
<1>4. LeaseHeld /\ LapseNoted /\ NoRowBefore /\ TakenOnce
  BY <1>1, <1>2, <1>a, <1>b
  DEF LeaseHeld, LapseNoted, NoRowBefore, TakenOnce, WorkingOn
<1>5. \A r \in Rows : Sending(r) = {}
  BY <1>2, PusherOperations DEF Sending
<1>6. GraceCovers
  BY <1>1, <1>5, FS_EmptySet DEF GraceCovers
<1>. QED
  BY <1>3, <1>4, <1>6 DEF DeliveryInv

\* A step that rewrites only rows that no worker holds any more: not yet claimed
\* or with a lapsed lease.
LEMMA UnclaimedStep ==
  ASSUME DeliveryInv, push' \in [Rows -> PushRow],
         \A r \in Rows :
           \/ push'[r] = push[r]
           \/ /\ push[r].status \in {"pending", "retry"}
              /\ push'[r].lapsed => push[r].lapsed
           \/ /\ push[r].status = "leased" /\ push[r].lapsed
              /\ push'[r].lapsed => push[r].lapsed,
         UNCHANGED <<inbox, pusher, taken, overran>>,
         pref' \in SUBSET Switches, endpoint' \in [Endpoints -> {"absent", "active", "disabled"}],
         grace' \in [Rows -> Int]
  PROVE  DeliveryInv'
<1> USE DEF DeliveryInv
<1>1. PushTypes'
  BY DEF PushTypes
<1>2. \A r \in Rows : r \notin overran => ~push[r].lapsed
  BY DEF LapseNoted
<1>3. LapseNoted'
  BY DEF LapseNoted
<1>4. LeaseHeld'
  BY <1>2 DEF LeaseHeld, WorkingOn
<1>5. NoRowBefore'
  BY DEF NoRowBefore
<1>6. TakenOnce'
  BY <1>2 DEF TakenOnce, WorkingOn
<1>. QED
  BY <1>1, <1>3, <1>4, <1>5, <1>6

\* create_notification makes rows of an event that no worker knows.
LEMMA CreateStep ==
  ASSUME DeliveryInv, GraceCovers, NEW e \in Events, CreateNotification(e)
  PROVE  DeliveryInv' /\ GraceCovers'
<1> USE DEF DeliveryInv
<1> DEFINE new == [NoPush EXCEPT !.status = "pending"]
<1>1. new \in PushRow /\ new.status = "pending" /\ ~new.lapsed
  BY PushOperations
<1>2. \A r \in Rows : push'[r] = IF r[1] = e /\ Deliverable(r) THEN new ELSE push[r]
  BY DEF CreateNotification
<1>3. push' = [r \in Rows |-> IF r[1] = e /\ Deliverable(r) THEN new ELSE push[r]]
  BY DEF CreateNotification
<1> HIDE DEF new
<1>4. push' \in [Rows -> PushRow]
  BY <1>1, <1>3 DEF PushTypes
<1>5. /\ inbox' = inbox \union {e} /\ e \notin inbox
      /\ UNCHANGED <<pref, endpoint, pusher, taken, overran, grace>>
  BY DEF CreateNotification
<1>6. PushTypes'
  BY <1>4, <1>5 DEF PushTypes
<1>7. LeaseHeld'
  BY <1>2, <1>5 DEF LeaseHeld, WorkingOn
<1>8. LapseNoted' /\ NoRowBefore'
  BY <1>1, <1>2, <1>5 DEF LapseNoted, NoRowBefore
<1>9. TakenOnce'
  <2>1. \A r \in Rows : taken[r] > 0 => r[1] \in inbox
    BY DEF NoRowBefore, PushTypes
  <2>. QED
    BY <1>2, <1>5, <2>1 DEF TakenOnce, WorkingOn
<1>10. GraceCovers'
  BY <1>5 DEF GraceCovers, Deliverable, Sending
<1>. QED
  BY <1>6, <1>7, <1>8, <1>9, <1>10

\* Rows not yet claimed are cancelled; the others stay.
LEMMA CancelledRows ==
  ASSUME DeliveryInv, NEW rows
  PROVE  /\ Cancelled(rows) \in [Rows -> PushRow]
         /\ \A r \in Rows :
              \/ Cancelled(rows)[r] = push[r]
              \/ /\ push[r].status \in {"pending", "retry"}
                 /\ Cancelled(rows)[r].lapsed => push[r].lapsed
<1> DEFINE c(r) == [push[r] EXCEPT !.status = "cancelled", !.owner = "none"]
<1>1. \A r \in Rows : push[r] \in PushRow
  BY DEF DeliveryInv, PushTypes
<1>2. \A r \in Rows : c(r) \in PushRow /\ c(r).lapsed = push[r].lapsed
  BY <1>1, PushOperations
<1>3. Cancelled(rows) =
        [r \in Rows |-> IF r \in rows /\ push[r].status \in {"pending", "retry"}
                        THEN c(r) ELSE push[r]]
  BY DEF Cancelled
<1> HIDE DEF c
<1>. QED
  BY <1>1, <1>2, <1>3

\* The number of sends under way is a number.
LEMMA SendingFinite ==
  ASSUME NEW r
  PROVE  IsFiniteSet(Sending(r)) /\ Cardinality(Sending(r)) \in Nat
<1>1. Sending(r) \subseteq PushWorkers
  BY DEF Sending
<1>. QED
  BY <1>1, WebPushAssumption, FS_Subset, FS_CardinalityType

\* An opt-out, of the account or of a browser, counts the sends under way.
LEMMA OptOutStep ==
  ASSUME DeliveryInv, GraceCovers,
         \/ \E p \in SUBSET Switches : PreferencesUpdate(p)
         \/ \E S \in SUBSET Endpoints : WebPushUnsubscribe(S)
         \/ \E s \in Endpoints : WebPushSubscribe(s)
  PROVE  DeliveryInv' /\ GraceCovers'
<1>t. PushTypes
  BY DEF DeliveryInv
<1>n. \A r \in Rows : Cardinality(Sending(r)) \in Nat
  BY SendingFinite
<1>i. Nat \subseteq Int
  OBVIOUS
<1>1. ASSUME NEW p \in SUBSET Switches, PreferencesUpdate(p)
      PROVE  DeliveryInv' /\ GraceCovers'
  <2>1. /\ push' = push \/ push' = Cancelled(Rows)
        /\ pref' = p
        /\ UNCHANGED <<inbox, endpoint, pusher, taken, overran>>
        /\ grace' = IF Wanted(pref) /\ ~Wanted(p)
                    THEN [r \in Rows |-> Cardinality(Sending(r))] ELSE grace
    BY <1>1 DEF PreferencesUpdate
  <2>2. grace' \in [Rows -> Int]
    BY <1>n, <1>t, <1>i, <2>1 DEF PushTypes
  <2>3. DeliveryInv'
    <3>1. CASE push' = push
      BY <1>t, <2>1, <2>2, <3>1, UnclaimedStep DEF PushTypes
    <3>2. CASE push' = Cancelled(Rows)
      <4>1. /\ push' \in [Rows -> PushRow]
            /\ \A r \in Rows :
                 \/ push'[r] = push[r]
                 \/ /\ push[r].status \in {"pending", "retry"}
                    /\ push'[r].lapsed => push[r].lapsed
        BY <3>2, CancelledRows
      <4>2. pref' \in SUBSET Switches /\ endpoint' \in [Endpoints -> {"absent", "active", "disabled"}]
        BY <1>t, <2>1 DEF PushTypes
      <4>. QED
        BY <2>1, <2>2, <4>1, <4>2, UnclaimedStep
    <3>. QED
      BY <2>1, <3>1, <3>2
  <2>4. ASSUME NEW r \in Rows
        PROVE  IF Deliverable(r)' THEN grace'[r] >= 0 ELSE Cardinality(Sending(r)') <= grace'[r]
    <3>1. /\ Sending(r)' = Sending(r)
          /\ Deliverable(r) <=> Wanted(pref) /\ endpoint[r[2]] = "active"
          /\ Deliverable(r)' <=> Wanted(p) /\ endpoint[r[2]] = "active"
      BY <2>1 DEF Sending, Deliverable, Wanted
    <3>2. CASE Wanted(pref) /\ ~Wanted(p)
      <4>1. grace'[r] = Cardinality(Sending(r))
        BY <2>1, <3>2
      <4>. QED
        BY <1>n, <3>1, <3>2, <4>1
    <3>3. CASE ~(Wanted(pref) /\ ~Wanted(p))
      <4>1. grace'[r] = grace[r] /\ grace[r] \in Int
        BY <1>t, <2>1, <3>3 DEF PushTypes
      <4>. QED
        BY <1>n, <3>1, <3>3, <4>1 DEF GraceCovers
    <3>. QED
      BY <3>2, <3>3
  <2>5. GraceCovers'
    BY <2>4 DEF GraceCovers
  <2>. QED
    BY <2>3, <2>5
<1>2. ASSUME NEW S \in SUBSET Endpoints, WebPushUnsubscribe(S)
      PROVE  DeliveryInv' /\ GraceCovers'
  <2> DEFINE rows == {r \in Rows : r[2] \in S}
             counts(r) == r \in rows /\ endpoint[r[2]] = "active"
  <2>1. /\ push' = Cancelled(rows)
        /\ endpoint' = [s \in Endpoints |->
                          IF s \in S /\ endpoint[s] = "active" THEN "disabled" ELSE endpoint[s]]
        /\ grace' = [r \in Rows |-> IF counts(r) THEN Cardinality(Sending(r)) ELSE grace[r]]
        /\ UNCHANGED <<pref, inbox, pusher, taken, overran>>
    BY <1>2 DEF WebPushUnsubscribe
  <2>2. grace' \in [Rows -> Int]
    BY <1>n, <1>t, <1>i, <2>1 DEF PushTypes
  <2>3. endpoint' \in [Endpoints -> {"absent", "active", "disabled"}]
    BY <1>t, <2>1 DEF PushTypes
  <2>4. /\ push' \in [Rows -> PushRow]
        /\ \A r \in Rows :
             \/ push'[r] = push[r]
             \/ /\ push[r].status \in {"pending", "retry"}
                /\ push'[r].lapsed => push[r].lapsed
    BY <2>1, CancelledRows
  <2>a. pref' \in SUBSET Switches /\ UNCHANGED <<inbox, pusher, taken, overran>>
    BY <1>t, <2>1 DEF PushTypes
  <2>5. DeliveryInv'
    <3> HIDE DEF rows, counts
    <3>. QED
      BY <2>2, <2>3, <2>4, <2>a, UnclaimedStep
  <2>6. ASSUME NEW r \in Rows
        PROVE  IF Deliverable(r)' THEN grace'[r] >= 0 ELSE Cardinality(Sending(r)') <= grace'[r]
    <3>1. /\ Sending(r)' = Sending(r)
          /\ r[2] \in Endpoints /\ grace[r] \in Int
          /\ Deliverable(r) <=> Wanted(pref) /\ endpoint[r[2]] = "active"
          /\ Deliverable(r)' <=> Wanted(pref) /\ endpoint'[r[2]] = "active"
      BY <1>t, <2>1 DEF Sending, Deliverable, Wanted, Rows, PushTypes
    <3>2. CASE counts(r)
      <4>1. grace'[r] = Cardinality(Sending(r))
        BY <2>1, <3>2
      <4>. QED
        BY <1>n, <3>1, <4>1
    <3>3. CASE ~counts(r)
      <4>1. grace'[r] = grace[r] /\ endpoint'[r[2]] = endpoint[r[2]]
        BY <2>1, <3>1, <3>3
      <4>. QED
        BY <3>1, <4>1 DEF GraceCovers
    <3>. QED
      BY <3>2, <3>3
  <2>7. GraceCovers'
    BY <2>6 DEF GraceCovers
  <2>. QED
    BY <2>5, <2>7
<1>3. ASSUME NEW s \in Endpoints, WebPushSubscribe(s) PROVE DeliveryInv' /\ GraceCovers'
  <2>1. /\ endpoint' = [endpoint EXCEPT ![s] = "active"]
        /\ UNCHANGED <<pref, inbox, push, pusher, taken, overran, grace>>
    BY <1>3 DEF WebPushSubscribe
  <2>2. DeliveryInv'
    BY <1>t, <2>1, UnclaimedStep DEF PushTypes
  <2>3. ASSUME NEW r \in Rows
        PROVE  IF Deliverable(r)' THEN grace'[r] >= 0 ELSE Cardinality(Sending(r)') <= grace'[r]
    <3>1. /\ Sending(r)' = Sending(r) /\ grace' = grace /\ grace[r] \in Int
          /\ Deliverable(r) => Deliverable(r)'
      BY <1>t, <2>1 DEF Sending, Deliverable, Wanted, Rows, PushTypes
    <3>. QED
      BY <1>n, <3>1 DEF GraceCovers
  <2>4. GraceCovers'
    BY <2>3 DEF GraceCovers
  <2>. QED
    BY <2>2, <2>4
<1>. QED
  BY <1>1, <1>2, <1>3

\* Who adds no send keeps the count of the sends under way.
LEMMA GraceKept ==
  ASSUME PushTypes, GraceCovers, UNCHANGED <<pref, endpoint, grace>>,
         \A r \in Rows : ~Deliverable(r) => Sending(r)' \subseteq Sending(r)
  PROVE  GraceCovers'
<1> SUFFICES ASSUME NEW r \in Rows
             PROVE  IF Deliverable(r)' THEN grace'[r] >= 0
                    ELSE Cardinality(Sending(r)') <= grace'[r]
  BY DEF GraceCovers
<1>1. Deliverable(r)' <=> Deliverable(r)
  BY DEF Deliverable
<1>2. CASE Deliverable(r)
  BY <1>1, <1>2 DEF GraceCovers
<1>3. CASE ~Deliverable(r)
  <2>1. Sending(r)' \in SUBSET Sending(r)
    BY <1>3
  <2>2. Cardinality(Sending(r)') <= Cardinality(Sending(r))
    BY <2>1, SendingFinite, FS_Subset
  <2>3. Cardinality(Sending(r)') \in Nat
    BY <2>1, SendingFinite, FS_Subset, FS_CardinalityType
  <2>4. grace[r] \in Int /\ Cardinality(Sending(r)) \in Nat /\ grace' = grace
    BY SendingFinite DEF PushTypes
  <2>. QED
    BY <1>1, <1>3, <2>2, <2>3, <2>4 DEF GraceCovers
<1>. QED
  BY <1>2, <1>3

\* _claim buries rows whose lease lapsed, and no other.
LEMMA BuriedRows ==
  ASSUME DeliveryInv
  PROVE  /\ Buried \in [Rows -> PushRow]
         /\ \A r \in Rows :
              \/ Buried[r] = push[r]
              \/ /\ push[r].status = "leased" /\ push[r].lapsed
                 /\ Buried[r].status = "dead" /\ ~Buried[r].lapsed
<1>1. \A r \in Rows : push[r] \in PushRow
  BY DEF DeliveryInv, PushTypes
<1>2. "dead" \in PushStatuses
  BY DEF PushStatuses, PushFinal
<1>3. \A r \in Rows : /\ Closed(push[r], "dead") \in PushRow
                      /\ Closed(push[r], "dead").status = "dead"
                      /\ ~Closed(push[r], "dead").lapsed
  BY <1>1, <1>2, ClosedRow
<1>. QED
  BY <1>1, <1>3 DEF Buried

\* _claim: a row that is free, or whose lease lapsed.
LEMMA ClaimStep ==
  ASSUME DeliveryInv, GraceCovers, NEW w \in PushWorkers, NEW r \in Rows, Claim(w, r)
  PROVE  DeliveryInv' /\ GraceCovers'
<1>t. PushTypes /\ LapseNoted /\ LeaseHeld /\ NoRowBefore /\ TakenOnce
  BY DEF DeliveryInv
<1> DEFINE c == [status |-> "leased", owner |-> w, lapsed |-> FALSE, attempts |-> push[r].attempts + 1]
           h == [row |-> r, phase |-> "claimed", attempts |-> 0]
<1>1. c \in PushRow /\ c.status = "leased" /\ c.owner = w /\ ~c.lapsed
  <2>1. push[r] \in PushRow
    BY <1>t DEF PushTypes
  <2>. QED
    BY <2>1, PushOperations
<1>2. h \in Pusher /\ h.phase = "claimed" /\ h.row = r
  BY PusherOperations
<1>3. push' = [Buried EXCEPT ![r] = c] /\ pusher' = [pusher EXCEPT ![w] = h]
  BY DEF Claim
<1> HIDE DEF c, h
<1>4. /\ pusher[w].phase = "idle"
      /\ push[r].status \in {"pending", "retry"} \/ (push[r].status = "leased" /\ push[r].lapsed)
      /\ UNCHANGED <<pref, inbox, endpoint, taken, overran, grace>>
  BY DEF Claim, PushClaimable
<1>5. Buried \in [Rows -> PushRow]
  BY BuriedRows
<1>6. /\ push' \in [Rows -> PushRow] /\ push'[r] = c
      /\ \A q \in Rows : q # r => push'[q] = Buried[q]
  BY <1>1, <1>3, <1>5
<1>7. \A q \in Rows : q # r /\ q \notin overran => push'[q] = push[q]
  BY <1>t, <1>6, BuriedRows DEF LapseNoted
<1>8. /\ pusher' \in [PushWorkers -> Pusher]
      /\ \A v \in PushWorkers : pusher'[v] = IF v = w THEN h ELSE pusher[v]
  BY <1>2, <1>3, <1>t DEF PushTypes
<1>9. r[1] \in inbox
  BY <1>4, <1>t DEF NoRowBefore
<1>10. PushTypes'
  BY <1>2, <1>4, <1>6, <1>8, <1>t DEF PushTypes
<1>11. LapseNoted'
  BY <1>1, <1>4, <1>6, <1>t, BuriedRows DEF LapseNoted
<1>12. r \notin overran => push[r].status \in {"pending", "retry"}
  BY <1>4, <1>t DEF LapseNoted
<1>13. LeaseHeld'
  <2> SUFFICES ASSUME NEW q \in Rows, NEW v \in PushWorkers, WorkingOn(v, q)'
               PROVE  /\ q[1] \in inbox'
                      /\ q \notin overran' => push'[q].status = "leased" /\ push'[q].owner = v
    BY DEF LeaseHeld
  <2>1. CASE v = w
    BY <1>1, <1>2, <1>4, <1>6, <1>8, <1>9, <2>1 DEF WorkingOn
  <2>2. CASE v # w
    <3>1. WorkingOn(v, q)
      BY <1>8, <2>2 DEF WorkingOn
    <3>. QED
      BY <1>4, <1>7, <1>12, <1>t, <3>1 DEF LeaseHeld
  <2>. QED
    BY <2>1, <2>2
<1>14. NoRowBefore'
  <2> SUFFICES ASSUME NEW q \in Rows, q[1] \notin inbox
               PROVE  push'[q].status = "none" /\ taken[q] = 0
    BY <1>4 DEF NoRowBefore
  <2>1. push[q].status = "none" /\ taken[q] = 0 /\ q # r
    BY <1>9, <1>t DEF NoRowBefore
  <2>. QED
    BY <1>6, <2>1, BuriedRows
<1>15. TakenOnce'
  <2> SUFFICES ASSUME NEW q \in Rows, q \notin overran, taken[q] > 0
               PROVE  /\ taken[q] = 1
                      /\ \/ push'[q].status = "sent"
                         \/ /\ push'[q].status = "leased"
                            /\ \A v \in PushWorkers : ~WorkingOn(v, q)'
    BY <1>4 DEF TakenOnce
  <2>1. q # r
    BY <1>12, <1>t DEF TakenOnce
  <2>2. \A v \in PushWorkers : WorkingOn(v, q)' => WorkingOn(v, q)
    BY <1>2, <1>8, <2>1 DEF WorkingOn
  <2>. QED
    BY <1>7, <1>t, <2>1, <2>2 DEF TakenOnce
<1>16. GraceCovers'
  <2>1. \A q \in Rows : Sending(q)' \subseteq Sending(q)
    BY <1>2, <1>8 DEF Sending
  <2>. QED
    BY <1>4, <1>t, <2>1, GraceKept
<1>. QED
  BY <1>10, <1>11, <1>13, <1>14, <1>15, <1>16 DEF DeliveryInv

\* A pass that only buries, and a lease that lapses.
LEMMA LapseStep ==
  ASSUME DeliveryInv, GraceCovers, ClaimNothing \/ \E r \in Rows : LeaseLapses(r)
  PROVE  DeliveryInv' /\ GraceCovers'
<1>t. PushTypes /\ LapseNoted /\ LeaseHeld /\ NoRowBefore /\ TakenOnce
  BY DEF DeliveryInv
<1>1. CASE ClaimNothing
  <2>1. push' = Buried /\ UNCHANGED <<pref, inbox, endpoint, pusher, taken, overran, grace>>
    BY <1>1 DEF ClaimNothing
  <2>2. /\ push' \in [Rows -> PushRow]
        /\ \A r \in Rows :
             \/ push'[r] = push[r]
             \/ /\ push[r].status = "leased" /\ push[r].lapsed
                /\ push'[r].lapsed => push[r].lapsed
    BY <2>1, BuriedRows
  <2>3. /\ pref' \in SUBSET Switches /\ grace' \in [Rows -> Int]
        /\ endpoint' \in [Endpoints -> {"absent", "active", "disabled"}]
    BY <1>t, <2>1 DEF PushTypes
  <2>4. DeliveryInv'
    BY <2>1, <2>2, <2>3, UnclaimedStep
  <2>5. GraceCovers'
    BY <1>t, <2>1, GraceKept DEF Sending
  <2>. QED
    BY <2>4, <2>5
<1>2. ASSUME NEW r \in Rows, LeaseLapses(r) PROVE DeliveryInv' /\ GraceCovers'
  <2> DEFINE p == [push[r] EXCEPT !.lapsed = TRUE]
  <2>1. push[r] \in PushRow /\ push[r].status = "leased"
    BY <1>2, <1>t DEF LeaseLapses, PushTypes
  <2>2. p \in PushRow /\ p.status = "leased"
    BY <2>1, PushOperations
  <2>3. push' = [push EXCEPT ![r] = p]
    BY <1>2 DEF LeaseLapses
  <2>4. overran' = overran \union {r} /\ UNCHANGED <<pref, inbox, endpoint, pusher, taken, grace>>
    BY <1>2 DEF LeaseLapses
  <2> HIDE DEF p
  <2>5. /\ push' \in [Rows -> PushRow]
        /\ \A q \in Rows : push'[q] = IF q = r THEN p ELSE push[q]
    BY <1>t, <2>2, <2>3 DEF PushTypes
  <2>6. PushTypes'
    BY <1>t, <2>4, <2>5 DEF PushTypes
  <2>7. LapseNoted' /\ LeaseHeld' /\ TakenOnce'
    BY <1>t, <2>4, <2>5 DEF LapseNoted, LeaseHeld, TakenOnce, WorkingOn
  <2>8. NoRowBefore'
    BY <1>t, <2>1, <2>4, <2>5 DEF NoRowBefore
  <2>9. GraceCovers'
    BY <1>t, <2>4, GraceKept DEF Sending
  <2>. QED
    BY <2>6, <2>7, <2>8, <2>9 DEF DeliveryInv
<1>. QED
  BY <1>1, <1>2

\* A worker that lets go of its row, with what it writes to the row.
LEMMA WorkerLeaves ==
  ASSUME DeliveryInv, NEW w \in PushWorkers, NEW r \in Rows, WorkingOn(w, r),
         pusher' = [pusher EXCEPT ![w] = Resting],
         NEW p \in PushRow, push' = [push EXCEPT ![r] = p], p.lapsed => push[r].lapsed,
         NEW n \in Nat, taken' = [taken EXCEPT ![r] = n],
         overran \subseteq overran', overran' \subseteq overran \union {r},
         r \notin overran' =>
           n = taken[r] \/ (n = taken[r] + 1 /\ p.status \in {"sent", "leased"}),
         pref' = pref, inbox' = inbox,
         endpoint' \in [Endpoints -> {"absent", "active", "disabled"}],
         grace' \in [Rows -> Int]
  PROVE  DeliveryInv'
<1>t. PushTypes /\ LapseNoted /\ LeaseHeld /\ NoRowBefore /\ TakenOnce
  BY DEF DeliveryInv
<1>r. Resting \in Pusher /\ Resting.phase = "idle"
  BY PusherOperations
<1>1. /\ pusher' \in [PushWorkers -> Pusher]
      /\ \A v \in PushWorkers : pusher'[v] = IF v = w THEN Resting ELSE pusher[v]
  BY <1>r, <1>t DEF PushTypes
<1>2. /\ push' \in [Rows -> PushRow]
      /\ \A q \in Rows : push'[q] = IF q = r THEN p ELSE push[q]
  BY <1>t DEF PushTypes
<1>3. /\ taken' \in [Rows -> Nat]
      /\ \A q \in Rows : taken'[q] = IF q = r THEN n ELSE taken[q]
  BY <1>t DEF PushTypes
<1>4. PushTypes'
  BY <1>1, <1>2, <1>3, <1>r, <1>t DEF PushTypes
<1>5. LapseNoted'
  BY <1>2, <1>t DEF LapseNoted
<1>6. r[1] \in inbox
  BY <1>t DEF LeaseHeld
<1>7. NoRowBefore'
  BY <1>2, <1>3, <1>6, <1>t DEF NoRowBefore
<1>8. \A q \in Rows, v \in PushWorkers : WorkingOn(v, q)' => v # w /\ WorkingOn(v, q)
  BY <1>1, <1>r DEF WorkingOn
<1>9. r \notin overran => \A v \in PushWorkers : ~WorkingOn(v, r)'
  BY <1>8, <1>t DEF LeaseHeld
<1>10. LeaseHeld'
  BY <1>2, <1>8, <1>9, <1>t DEF LeaseHeld
<1>11. r \notin overran => taken[r] = 0
  BY <1>t DEF LeaseHeld, TakenOnce, PushTypes
<1>12. TakenOnce'
  <2> SUFFICES ASSUME NEW q \in Rows, q \notin overran', taken'[q] > 0
               PROVE  /\ taken'[q] = 1
                      /\ \/ push'[q].status = "sent"
                         \/ /\ push'[q].status = "leased"
                            /\ \A v \in PushWorkers : ~WorkingOn(v, q)'
    BY DEF TakenOnce
  <2>1. CASE q = r
    BY <1>2, <1>3, <1>9, <1>11, <2>1
  <2>2. CASE q # r
    BY <1>2, <1>3, <1>8, <1>t, <2>2 DEF TakenOnce
  <2>. QED
    BY <2>1, <2>2
<1>. QED
  BY <1>4, <1>5, <1>7, <1>10, <1>12 DEF DeliveryInv

\* The sends under way without those of a worker that rests.
LEMMA SendingWithout ==
  ASSUME PushTypes, NEW w \in PushWorkers, pusher' = [pusher EXCEPT ![w] = Resting], NEW q
  PROVE  /\ Sending(q)' = Sending(q) \ {w}
         /\ Cardinality(Sending(q)') \in Nat
         /\ Cardinality(Sending(q)') = IF w \in Sending(q) THEN Cardinality(Sending(q)) - 1
                                       ELSE Cardinality(Sending(q))
<1>1. Resting.phase = "idle"
  BY PusherOperations
<1>2. \A v \in PushWorkers : pusher'[v] = IF v = w THEN Resting ELSE pusher[v]
  BY DEF PushTypes
<1>3. Sending(q)' = Sending(q) \ {w}
  BY <1>1, <1>2 DEF Sending
<1>4. IsFiniteSet(Sending(q))
  BY SendingFinite
<1>. QED
  BY <1>3, <1>4, FS_RemoveElement, FS_CardinalityType

\* A worker that lost its row, or finds that the message is not wanted any more,
\* or begins to send one that is.
LEMMA SecondLook ==
  ASSUME DeliveryInv, GraceCovers, NEW w \in PushWorkers, LostClaim(w) \/ DeliverOne(w)
  PROVE  DeliveryInv' /\ GraceCovers'
<1>t. PushTypes
  BY DEF DeliveryInv
<1> DEFINE r == pusher[w].row
<1>r. r \in Rows /\ WorkingOn(w, r) /\ push[r] \in PushRow /\ taken[r] \in Nat
  BY <1>t DEF LostClaim, DeliverOne, PushTypes, WorkingOn
<1>o. /\ UNCHANGED <<pref, inbox, endpoint, taken, overran, grace>>
      /\ taken' = [taken EXCEPT ![r] = taken[r]]
      /\ endpoint' \in [Endpoints -> {"absent", "active", "disabled"}]
      /\ grace' \in [Rows -> Int]
  BY <1>t DEF LostClaim, DeliverOne, PushTypes
<1>1. ASSUME pusher' = [pusher EXCEPT ![w] = Resting],
             NEW p \in PushRow, push' = [push EXCEPT ![r] = p], p.lapsed => push[r].lapsed
      PROVE  DeliveryInv' /\ GraceCovers'
  <2>1. DeliveryInv'
    <3> HIDE DEF r
    <3>. QED
      BY <1>1, <1>o, <1>r, WorkerLeaves
  <2>2. \A q \in Rows : Sending(q)' \subseteq Sending(q)
    BY <1>1, <1>t, SendingWithout
  <2>. QED
    BY <1>o, <1>t, <2>1, <2>2, GraceKept
<1>2. CASE LostClaim(w)
  <2>1. pusher' = [pusher EXCEPT ![w] = Resting] /\ push' = [push EXCEPT ![r] = push[r]]
    BY <1>2, <1>t DEF LostClaim, PushTypes
  <2>. QED
    BY <1>1, <1>r, <2>1
<1>3. CASE DeliverOne(w) /\ ~StillWanted(r)
  <2> DEFINE p == Closed(push[r], "cancelled")
  <2>1. pusher' = [pusher EXCEPT ![w] = Resting] /\ push' = [push EXCEPT ![r] = p]
    BY <1>3 DEF DeliverOne
  <2>2. p \in PushRow /\ ~p.lapsed
    <3>1. "cancelled" \in PushStatuses
      BY DEF PushStatuses, PushFinal
    <3> HIDE DEF r
    <3>. QED
      BY <1>r, <3>1, ClosedRow
  <2> HIDE DEF p, r
  <2>. QED
    BY <1>1, <2>1, <2>2
<1>4. CASE DeliverOne(w) /\ StillWanted(r)
  <2> DEFINE h == [row |-> r, phase |-> "sending", attempts |-> push[r].attempts]
  <2>1. h \in Pusher /\ h.row = r /\ h.phase = "sending"
    <3>1. push[r].attempts \in Nat
      BY <1>r DEF PushRow
    <3>. QED
      BY <1>r, <3>1, PusherOperations
  <2>2. pusher' = [pusher EXCEPT ![w] = h] /\ push' = push
    BY <1>4 DEF DeliverOne
  <2> HIDE DEF h
  <2>3. /\ pusher' \in [PushWorkers -> Pusher]
        /\ \A v \in PushWorkers : pusher'[v] = IF v = w THEN h ELSE pusher[v]
    BY <1>t, <2>1, <2>2 DEF PushTypes
  <2>4. \A v \in PushWorkers, q \in Rows : WorkingOn(v, q)' <=> WorkingOn(v, q)
    BY <1>r, <2>1, <2>3 DEF WorkingOn
  <2>5. PushTypes'
    BY <1>o, <1>r, <1>t, <2>1, <2>2, <2>3 DEF PushTypes
  <2>6. LeaseHeld' /\ LapseNoted' /\ NoRowBefore' /\ TakenOnce'
    BY <1>o, <2>2, <2>4 DEF DeliveryInv, LeaseHeld, LapseNoted, NoRowBefore, TakenOnce
  <2>7. \A q \in Rows : ~Deliverable(q) => Sending(q)' \subseteq Sending(q)
    BY <1>4, <2>1, <2>3 DEF Sending, StillWanted
  <2>8. GraceCovers'
    BY <1>o, <1>t, <2>7, GraceKept
  <2>. QED
    BY <2>5, <2>6, <2>8 DEF DeliveryInv
<1>. QED
  BY <1>2, <1>3, <1>4

\* What the worker writes as the outcome of a send.
LEMMA OutcomeStatus ==
  ASSUME NEW w, NEW answer \in PushAnswers
  PROVE  /\ Outcome(w, answer) \in PushStatuses
         /\ answer = "ok" => Outcome(w, answer) = "sent"
<1>1. ScheduleRetry(w) \in {"dead", "retry"}
  BY DEF ScheduleRetry
<1>2. /\ answer = "ok" => Outcome(w, answer) = "sent"
      /\ answer = "gone" => Outcome(w, answer) = "expired_subscription"
      /\ answer = "permanent" => Outcome(w, answer) = "dead"
      /\ answer \in {"transient", "unheard"} => Outcome(w, answer) = ScheduleRetry(w)
  BY DEF Outcome
<1>. QED
  BY <1>1, <1>2 DEF PushAnswers, PushStatuses, PushFinal

\* The outcome of a send: the row is written whoever owns it.
LEMMA RecordStep ==
  ASSUME DeliveryInv, GraceCovers, NEW w \in PushWorkers, NEW answer \in PushAnswers,
         Record(w, answer)
  PROVE  DeliveryInv' /\ GraceCovers'
<1>t. PushTypes
  BY DEF DeliveryInv
<1> DEFINE r == pusher[w].row
           took == answer \in {"ok", "unheard"}
           p == Closed(push[r], Outcome(w, answer))
           n == IF took THEN taken[r] + 1 ELSE taken[r]
<1>1. r \in Rows /\ WorkingOn(w, r) /\ w \in Sending(r) /\ push[r] \in PushRow
  BY <1>t DEF Record, PushTypes, WorkingOn, Sending
<1>2. /\ push' = [push EXCEPT ![r] = p]
      /\ pusher' = [pusher EXCEPT ![w] = Resting]
      /\ UNCHANGED <<pref, inbox>>
      /\ endpoint' = IF answer = "gone" THEN [endpoint EXCEPT ![r[2]] = "disabled"] ELSE endpoint
      /\ overran' = IF answer = "unheard" THEN overran \union {r} ELSE overran
      /\ grace' = [q \in Rows |->
           IF q = r /\ took /\ ~Deliverable(r) THEN grace[q] - 1
           ELSE IF answer = "gone" /\ q[2] = r[2] /\ Deliverable(q)
           THEN Cardinality(Sending(q) \ {w}) ELSE grace[q]]
  BY DEF Record
<1>3. taken' = [taken EXCEPT ![r] = n] /\ n \in Nat
  <2>1. taken \in [Rows -> Nat] /\ taken[r] \in Nat
    BY <1>1, <1>t DEF PushTypes
  <2>2. taken' = IF took THEN [taken EXCEPT ![r] = taken[r] + 1] ELSE taken
    BY DEF Record
  <2>3. n \in Nat
    BY <2>1
  <2>. QED
    BY <1>1, <2>1, <2>2, <2>3
<1>4. p \in PushRow /\ p.status = Outcome(w, answer) /\ ~p.lapsed
  BY <1>1, OutcomeStatus, ClosedRow
<1>5. \A q : /\ Sending(q)' = Sending(q) \ {w}
             /\ Cardinality(Sending(q)') \in Nat /\ Cardinality(Sending(q)) \in Nat
             /\ Cardinality(Sending(q)') = IF w \in Sending(q) THEN Cardinality(Sending(q)) - 1
                                           ELSE Cardinality(Sending(q))
  BY <1>2, <1>t, SendingWithout, SendingFinite
<1>6. endpoint' \in [Endpoints -> {"absent", "active", "disabled"}]
  BY <1>2, <1>t DEF PushTypes
<1>7. \A q \in Rows :
        grace'[q] = IF q = r /\ took /\ ~Deliverable(r) THEN grace[q] - 1
                    ELSE IF answer = "gone" /\ q[2] = r[2] /\ Deliverable(q)
                    THEN Cardinality(Sending(q)') ELSE grace[q]
  BY <1>2, <1>5
<1>8. grace' \in [Rows -> Int]
  <2>1. \A q \in Rows : grace'[q] \in Int
    BY <1>5, <1>7, <1>t DEF PushTypes
  <2>2. grace' = [q \in Rows |-> grace'[q]]
    BY <1>2
  <2>. QED
    BY <2>1, <2>2
<1>9. r \notin overran' => n = taken[r] \/ (n = taken[r] + 1 /\ p.status \in {"sent", "leased"})
  BY <1>1, <1>2, <1>4, OutcomeStatus
<1>10. overran \subseteq overran' /\ overran' \subseteq overran \union {r}
  BY <1>2
<1>11. DeliveryInv'
  <2> HIDE DEF r, p, n
  <2>. QED
    BY <1>1, <1>2, <1>3, <1>4, <1>6, <1>8, <1>9, <1>10, WorkerLeaves
<1>12. ASSUME NEW q \in Rows
       PROVE  IF Deliverable(q)' THEN grace'[q] >= 0 ELSE Cardinality(Sending(q)') <= grace'[q]
  <2>1. q[2] \in Endpoints /\ r[2] \in Endpoints /\ grace[q] \in Int
    BY <1>1, <1>t DEF Rows, PushTypes
  <2>2. /\ Deliverable(q) <=> Wanted(pref) /\ endpoint[q[2]] = "active"
        /\ Deliverable(q)' <=> Wanted(pref) /\ endpoint'[q[2]] = "active"
    BY <1>2 DEF Deliverable, Wanted
  <2> HIDE DEF r, p, n
  <2>3. CASE answer = "gone" /\ q[2] = r[2]
    <3>1. ~Deliverable(q)'
      BY <1>2, <1>t, <2>1, <2>2, <2>3 DEF PushTypes
    <3>2. grace'[q] = IF Deliverable(q) THEN Cardinality(Sending(q)') ELSE grace[q]
      BY <1>7, <2>3
    <3>. QED
      BY <1>5, <2>1, <3>1, <3>2 DEF GraceCovers
  <2>4. CASE ~(answer = "gone" /\ q[2] = r[2])
    <3>1. Deliverable(q)' <=> Deliverable(q)
      BY <1>2, <1>t, <2>1, <2>2, <2>4 DEF PushTypes
    <3>2. grace'[q] = IF q = r /\ took /\ ~Deliverable(q) THEN grace[q] - 1 ELSE grace[q]
      BY <1>7, <2>4
    <3>3. q = r => w \in Sending(q)
      BY <1>1
    <3> HIDE DEF took
    <3>. QED
      BY <1>5, <2>1, <3>1, <3>2, <3>3 DEF GraceCovers
  <2>. QED
    BY <2>3, <2>4
<1>13. GraceCovers'
  BY <1>12 DEF GraceCovers
<1>. QED
  BY <1>11, <1>13

\* A worker dies; what it was sending may still be taken.
LEMMA PushCrashStep ==
  ASSUME DeliveryInv, GraceCovers, NEW w \in PushWorkers, PushCrash(w)
  PROVE  DeliveryInv' /\ GraceCovers'
<1>t. PushTypes
  BY DEF DeliveryInv
<1> DEFINE r == pusher[w].row
<1>1. /\ r \in Rows /\ WorkingOn(w, r) /\ push[r] \in PushRow
      /\ pusher' = [pusher EXCEPT ![w] = Resting]
      /\ UNCHANGED <<pref, inbox, endpoint, push, overran>>
  BY <1>t DEF PushCrash, PushTypes, WorkingOn
<1>2. PICK took \in {FALSE, pusher[w].phase = "sending"} :
        /\ taken' = IF took THEN [taken EXCEPT ![r] = @ + 1] ELSE taken
        /\ grace' = IF took /\ ~Deliverable(r) THEN [grace EXCEPT ![r] = @ - 1] ELSE grace
  BY DEF PushCrash
<1>3. took => w \in Sending(r)
  BY <1>1, <1>2 DEF Sending
<1> DEFINE n == IF took THEN taken[r] + 1 ELSE taken[r]
<1>4. taken' = [taken EXCEPT ![r] = n] /\ n \in Nat
  <2>1. taken \in [Rows -> Nat] /\ taken[r] \in Nat
    BY <1>1, <1>t DEF PushTypes
  <2>2. taken' = IF took THEN [taken EXCEPT ![r] = taken[r] + 1] ELSE taken
    BY <1>2
  <2>3. CASE took
    <3>1. n = taken[r] + 1 /\ taken' = [taken EXCEPT ![r] = taken[r] + 1]
      BY <2>2, <2>3
    <3> HIDE DEF n
    <3>. QED
      BY <2>1, <3>1
  <2>4. CASE ~took
    <3>1. n = taken[r] /\ taken' = taken
      BY <2>2, <2>4
    <3> HIDE DEF n
    <3>. QED
      BY <2>1, <3>1
  <2>. QED
    BY <2>3, <2>4
<1>5. \A q : /\ Sending(q)' = Sending(q) \ {w}
             /\ Cardinality(Sending(q)') \in Nat /\ Cardinality(Sending(q)) \in Nat
             /\ Cardinality(Sending(q)') = IF w \in Sending(q) THEN Cardinality(Sending(q)) - 1
                                           ELSE Cardinality(Sending(q))
  BY <1>1, <1>t, SendingWithout, SendingFinite
<1>6. push' = [push EXCEPT ![r] = push[r]]
  BY <1>1, <1>t DEF PushTypes
<1>7. /\ grace' \in [Rows -> Int]
      /\ \A q \in Rows : grace'[q] = IF q = r /\ took /\ ~Deliverable(r) THEN grace[q] - 1
                                      ELSE grace[q]
  <2>1. grace \in [Rows -> Int] /\ grace[r] \in Int
    BY <1>1, <1>t DEF PushTypes
  <2>2. CASE took /\ ~Deliverable(r)
    <3>1. grace' = [grace EXCEPT ![r] = grace[r] - 1]
      BY <1>2, <2>2
    <3>. QED
      BY <1>1, <2>1, <2>2, <3>1
  <2>3. CASE ~(took /\ ~Deliverable(r))
    <3>1. grace' = grace
      BY <1>2, <2>3
    <3>. QED
      BY <2>1, <2>3, <3>1
  <2>. QED
    BY <2>2, <2>3
<1>8. r \notin overran' => n = taken[r] \/ (n = taken[r] + 1 /\ push[r].status \in {"sent", "leased"})
  BY <1>1 DEF DeliveryInv, LeaseHeld
<1>9. DeliveryInv'
  <2>1. endpoint' \in [Endpoints -> {"absent", "active", "disabled"}]
    BY <1>1, <1>t DEF PushTypes
  <2> HIDE DEF r, n
  <2>. QED
    BY <1>1, <1>4, <1>6, <1>7, <1>8, <2>1, WorkerLeaves
<1>10. ASSUME NEW q \in Rows
       PROVE  IF Deliverable(q)' THEN grace'[q] >= 0 ELSE Cardinality(Sending(q)') <= grace'[q]
  <2>1. grace[q] \in Int /\ (Deliverable(q)' <=> Deliverable(q))
    BY <1>1, <1>t DEF PushTypes, Deliverable
  <2>2. grace'[q] = IF q = r /\ took /\ ~Deliverable(q) THEN grace[q] - 1 ELSE grace[q]
    BY <1>7
  <2>3. q = r /\ took => w \in Sending(q)
    BY <1>3
  <2> HIDE DEF r, n
  <2>. QED
    BY <1>5, <2>1, <2>2, <2>3 DEF GraceCovers
<1>11. GraceCovers'
  BY <1>10 DEF GraceCovers
<1>. QED
  BY <1>9, <1>11

\* Every step of web push preserves the invariant.
LEMMA PushNextInv ==
  DeliveryInv /\ GraceCovers /\ [PushNext]_pushVars => DeliveryInv' /\ GraceCovers'
<1> SUFFICES ASSUME DeliveryInv, GraceCovers, [PushNext]_pushVars
             PROVE  DeliveryInv' /\ GraceCovers'
  OBVIOUS
<1>1. ASSUME NEW e \in Events, CreateNotification(e) PROVE DeliveryInv' /\ GraceCovers'
  BY <1>1, CreateStep
<1>2. CASE \/ \E p \in SUBSET Switches : PreferencesUpdate(p)
           \/ \E s \in Endpoints : WebPushSubscribe(s)
           \/ \E S \in SUBSET Endpoints : WebPushUnsubscribe(S)
  BY <1>2, OptOutStep
<1>3. CASE ClaimNothing \/ \E r \in Rows : LeaseLapses(r)
  BY <1>3, LapseStep
<1>4. ASSUME NEW w \in PushWorkers, WorkerSteps(w) \/ PushCrash(w)
      PROVE  DeliveryInv' /\ GraceCovers'
  <2>1. ASSUME NEW r \in Rows, Claim(w, r) PROVE DeliveryInv' /\ GraceCovers'
    BY <2>1, ClaimStep
  <2>2. CASE LostClaim(w) \/ DeliverOne(w)
    BY <2>2, SecondLook
  <2>3. ASSUME NEW answer \in PushAnswers, Record(w, answer) PROVE DeliveryInv' /\ GraceCovers'
    BY <2>3, RecordStep
  <2>4. CASE PushCrash(w)
    BY <2>4, PushCrashStep
  <2>. QED
    BY <1>4, <2>1, <2>2, <2>3, <2>4 DEF WorkerSteps
<1>5. CASE UNCHANGED pushVars
  BY <1>5, SMTT(30)
  DEF pushVars, DeliveryInv, PushTypes, LeaseHeld, LapseNoted, NoRowBefore, TakenOnce, WorkingOn,
      GraceCovers, Deliverable, Sending
<1>. QED
  BY <1>1, <1>2, <1>3, <1>4, <1>5 DEF PushNext

\* The invariant of web push.
THEOREM PushInvariance == PushSpec => [](DeliveryInv /\ GraceCovers)
  BY DeliveryInit, PushNextInv, PTL DEF PushSpec

\* _claim: the push service gets a message twice only after a lease lapsed or an
\* acceptance was not heard of.
THEOREM PushOnceUnlessOverrun == PushSpec => []PushDuplicateExplained
<1>1. DeliveryInv => PushDuplicateExplained
  BY DEF DeliveryInv, PushTypes, TakenOnce, PushDuplicateExplained
<1>. QED
  BY <1>1, PushInvariance, PTL

\* _deliver_one looks at the preferences again: after an opt-out only the messages
\* that were being sent still go out.
THEOREM OptOutIsKept == PushSpec => []OptOutHolds
<1>1. DeliveryInv /\ GraceCovers => OptOutHolds
  <2> SUFFICES ASSUME DeliveryInv, GraceCovers, NEW r \in Rows PROVE grace[r] >= 0
    BY DEF OptOutHolds
  <2>1. Cardinality(Sending(r)) \in Nat /\ grace[r] \in Int
    BY SendingFinite DEF DeliveryInv, PushTypes
  <2>. QED
    BY <2>1 DEF GraceCovers
<1>. QED
  BY <1>1, PushInvariance, PTL

==============================================================================
