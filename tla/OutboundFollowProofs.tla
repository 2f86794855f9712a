------------------------- MODULE OutboundFollowProofs -------------------------
(***************************************************************************)
(* Proofs about the outbound follow, for any number of activity ids and    *)
(* concurrent sessions.                                                    *)
(***************************************************************************)
EXTENDS OutboundFollow, TLAPS

\* What a session holds: the row it read and, for a handler, a response that
\* the remote sent for the very Follow of that row.  A row is never removed.
SessionOK(s) ==
  \/ session[s] = NoOne
  \/ \E row \in Row \union {NoRow} :
       session[s] = Following(row) /\ row.state \notin {"pending", "accepted"}
  \/ \E row \in Row, r \in received :
       session[s] = Handling(row, r) /\ row.activity = r.follow /\ relation # NoRow

\* The types, with the sessions in detail.
Types ==
  /\ fits \in BOOLEAN
  /\ relation \in Row \union {NoRow}
  /\ outbox \subseteq Activity
  /\ revisions \subseteq Follows \union {NoOne}
  /\ received \subseteq Response
  /\ responses \subseteq received
  /\ raced \in BOOLEAN
  /\ session = [s \in Sessions |-> session[s]]
  /\ \A s \in Sessions : SessionOK(s)

\* The relation records a Follow that was queued, so a fresh id differs.
RelationQueued == relation # NoRow => Sent("Follow", relation.activity) \in outbox

\* A revision in use belongs to a queued Undo.
RevisionsQueued ==
  \A revision \in revisions :
    \E f \in Follows : Sent("Undo", f) \in outbox /\ Revision(f) = revision

IInv ==
  /\ Types
  /\ RelationQueued
  /\ RevisionsQueued
  /\ UndoQueued
  /\ AcceptedIsOurs

\* A session is never the mark of an idle one: its fields can be read.
LEMMA SessionFields ==
  ASSUME Types, NEW s \in Sessions, session[s] # NoOne
  PROVE  /\ session[s].kind \in {"follow", "response"}
         /\ session[s].seen \in Row \union {NoRow}
         /\ session[s].kind = "follow" => session[s].seen.state \notin {"pending", "accepted"}
         /\ session[s].kind = "response" =>
              /\ session[s].seen \in Row
              /\ session[s].response \in received
              /\ session[s].seen.activity = session[s].response.follow
              /\ relation # NoRow
  BY DEF Types, SessionOK, Following, Handling

\* The sessions stay well formed when one of them ends.
LEMMA SessionEnds ==
  ASSUME Types, NEW s \in Sessions, session' = [session EXCEPT ![s] = NoOne],
         UNCHANGED received, relation # NoRow => relation' # NoRow
  PROVE  /\ session' = [t \in Sessions |-> session'[t]]
         /\ \A t \in Sessions : SessionOK(t)'
  BY DEF Types, SessionOK

LEMMA InitIInv == Init => IInv
<1> SUFFICES ASSUME Init PROVE IInv
  OBVIOUS
<1>1. Types
  BY DEF Init, Types, SessionOK
<1>2. RelationQueued /\ RevisionsQueued /\ UndoQueued /\ AcceptedIsOurs
  BY DEF Init, RelationQueued, RevisionsQueued, UndoQueued, Revision, AcceptedIsOurs, NoRow
<1> QED BY <1>1, <1>2 DEF IInv

LEMMA NextIInv == IInv /\ [Next]_vars => IInv'
<1> SUFFICES ASSUME IInv, [Next]_vars PROVE IInv'
  OBVIOUS
<1> USE ConstantsAssumption
<1>1. CASE Unfollow
  <2>1. relation \in Row /\ relation.activity \in Follows
    BY <1>1 DEF IInv, Types, Unfollow, Row, NoRow
  <2>2. Types'
    BY <1>1, <2>1 DEF IInv, Types, Unfollow, Row, NoRow, Activity, Sent, Revision, SessionOK
  <2>3. RelationQueued'
    BY <1>1, <2>1 DEF IInv, RelationQueued, Unfollow, Row, NoRow, Sent
  <2>4. RevisionsQueued'
    BY <1>1, <2>1 DEF IInv, RevisionsQueued, Unfollow, Revision, Sent
  <2>5. UndoQueued'
    BY <1>1, <2>1 DEF IInv, RevisionsQueued, UndoQueued, Unfollow, Revision, Sent, Row
  <2>6. AcceptedIsOurs'
    BY <1>1, <2>1 DEF AcceptedIsOurs, Unfollow, Row
  <2> QED BY <2>2, <2>3, <2>4, <2>5, <2>6 DEF IInv
<1>2. ASSUME NEW s \in Sessions, FollowRead(s) PROVE IInv'
  <2>1. Types'
    BY <1>2 DEF IInv, Types, FollowRead, SessionOK
  <2> QED BY <1>2, <2>1 DEF IInv, RelationQueued, RevisionsQueued, UndoQueued, Revision, AcceptedIsOurs, FollowRead
<1>3. ASSUME NEW s \in Sessions, FollowConflict(s) PROVE IInv'
  <2>1. Types'
    BY <1>3, SessionEnds DEF IInv, Types, FollowConflict
  <2> QED BY <1>3, <2>1 DEF IInv, RelationQueued, RevisionsQueued, UndoQueued, Revision, AcceptedIsOurs, FollowConflict
<1>4. ASSUME NEW s \in Sessions, NEW f \in Follows, FollowCommit(s, f) PROVE IInv'
  <2>1. relation' = [state |-> "pending", activity |-> f] /\ outbox' = outbox \union {Sent("Follow", f)}
    BY <1>4 DEF FollowCommit
  <2>2. Types'
    <3>1. relation' \in Row /\ relation' # NoRow /\ Sent("Follow", f) \in Activity
      BY <2>1 DEF Row, NoRow, Activity, Sent
    <3>2. session' = [t \in Sessions |-> session'[t]] /\ \A t \in Sessions : SessionOK(t)'
      BY <1>4, <3>1, SessionEnds DEF IInv, FollowCommit, Commit
    <3> QED BY <1>4, <2>1, <3>1, <3>2 DEF IInv, Types, FollowCommit, Commit
  <2>3. RelationQueued' /\ UndoQueued' /\ AcceptedIsOurs'
    BY <2>1 DEF RelationQueued, UndoQueued, AcceptedIsOurs, Sent
  <2>4. RevisionsQueued'
    BY <1>4, <2>1 DEF IInv, RevisionsQueued, Revision, FollowCommit
  <2> QED BY <2>2, <2>3, <2>4 DEF IInv
<1>5. ASSUME NEW s \in Sessions, ResponseCommit(s) PROVE IInv'
  <2> DEFINE old == session[s].seen.state
             new == SettledBy(old, Outcome(session[s].response.type))
  <2>1. /\ session[s].seen \in Row
        /\ session[s].response \in received
        /\ session[s].seen.activity = session[s].response.follow
        /\ relation \in Row /\ relation # NoRow
    BY <1>5, SessionFields DEF IInv, Types, ResponseCommit
  <2>2. /\ relation' = IF new = old THEN relation ELSE [relation EXCEPT !.state = new]
        /\ session' = [session EXCEPT ![s] = NoOne]
        /\ raced' = (raced \/ session[s].seen # relation)
        /\ UNCHANGED <<fits, outbox, revisions, responses, received>>
    BY <1>5 DEF ResponseCommit, Commit
  <2>3. old \in {"pending", "accepted", "rejected", "undone"} /\ new \in {old, "accepted", "rejected"}
    BY <2>1 DEF Row, SettledBy, Outcome
  <2>4. relation' \in Row /\ relation' # NoRow /\ relation'.activity = relation.activity
    BY <2>1, <2>2, <2>3 DEF Row, NoRow
  <2>5. Types'
    BY <2>2, <2>4, SessionEnds DEF IInv, Types
  <2>6. RelationQueued'
    BY <2>1, <2>2, <2>4 DEF IInv, RelationQueued
  <2>7. RevisionsQueued'
    BY <2>2 DEF IInv, RevisionsQueued, Revision
  <2>8. UndoQueued'
    BY <2>1, <2>2, <2>3, <2>4 DEF IInv, UndoQueued, Revision, Row
  <2>9. AcceptedIsOurs'
    <3> SUFFICES ASSUME relation'.state = "accepted", ~raced'
                 PROVE  Sent("Accept", relation'.activity) \in received'
      BY DEF AcceptedIsOurs
    <3>1. session[s].seen = relation /\ ~raced
      BY <2>2 DEF IInv, Types
    <3>2. CASE relation.state = "accepted"
      BY <2>2, <2>4, <3>1, <3>2 DEF IInv, AcceptedIsOurs
    <3>3. CASE relation.state # "accepted"
      <4>1. new = "accepted" /\ old = "pending"
        BY <2>1, <2>2, <3>1, <3>3 DEF Row, SettledBy, Outcome
      <4>2. session[s].response.type = "Accept"
        BY <2>1, <4>1 DEF SettledBy, Outcome
      <4>3. session[s].response = Sent("Accept", relation.activity)
        BY <2>1, <3>1, <4>2 DEF IInv, Types, Response, Sent
      <4> QED BY <2>1, <2>2, <2>4, <4>3
    <3> QED BY <3>2, <3>3
  <2> QED BY <2>5, <2>6, <2>7, <2>8, <2>9 DEF IInv
<1>6. ASSUME NEW s \in Sessions, NEW r \in responses, ResponseRead(s, r) PROVE IInv'
  <2>1. Types'
    BY <1>6 DEF IInv, Types, ResponseRead, SessionOK, Found
  <2> QED BY <1>6, <2>1 DEF IInv, RelationQueued, RevisionsQueued, UndoQueued, Revision, AcceptedIsOurs, ResponseRead
<1>7. ASSUME NEW f \in Follows, NEW type \in {"Accept", "Reject"}, Receive(type, f) PROVE IInv'
  <2>1. Types'
    BY <1>7 DEF IInv, Types, Receive, SessionOK, Response, Sent
  <2> QED BY <1>7, <2>1 DEF IInv, RelationQueued, RevisionsQueued, UndoQueued, Revision, AcceptedIsOurs, Receive
<1>8. ASSUME NEW r \in responses, ResponseUnknown(r) PROVE IInv'
  BY <1>8 DEF IInv, Types, SessionOK, RelationQueued, RevisionsQueued, UndoQueued, Revision, AcceptedIsOurs, ResponseUnknown
<1>9. CASE UNCHANGED vars
  BY <1>9 DEF vars, IInv, Types, SessionOK, RelationQueued, RevisionsQueued, UndoQueued, Revision, AcceptedIsOurs
<1> QED BY <1>1, <1>2, <1>3, <1>4, <1>5, <1>6, <1>7, <1>8, <1>9 DEF Next

\* The inductive invariant holds in every reachable state.
THEOREM Invariance == Spec => []IInv
  BY InitIInv, NextIInv, PTL DEF Spec

\* The rows, activities, responses and sessions keep their types in every run.
THEOREM TypeCorrect == Spec => []TypeOK
<1>1. IInv => TypeOK
  BY SessionFields DEF IInv, Types, TypeOK
<1> QED BY <1>1, Invariance, PTL

\* An accepted relation was accepted by the remote for the Follow it records.
THEOREM AcceptedWasAccepted == Spec => []AcceptedIsOurs
<1>1. IInv => AcceptedIsOurs
  BY DEF IInv
<1> QED BY <1>1, Invariance, PTL

\* Unfollowing queues an Undo that its revision tells from no other, whatever
\* the site's origin is.
THEOREM UndoIsQueued == Spec => []UndoQueued
<1>1. IInv => UndoQueued
  BY DEF IInv
<1> QED BY <1>1, Invariance, PTL

\* Where the revision reaches the unique part of an id, that Undo is the one of
\* the very Follow the relation records: UndoSent can only fail through the
\* truncation.
THEOREM OnlyTruncationDropsUndo == Spec => [](fits => UndoSent)
<1>1. IInv => (fits => UndoSent)
  BY DEF IInv, Types, UndoQueued, UndoSent, Revision, Row, NoRow
<1> QED BY <1>1, Invariance, PTL

\* _follow_response never moves a settled relation: it stays as it is until it is
\* undone or replaced by a new Follow.
THEOREM AnswersStay == Spec => AnswerStays
<1>1. ASSUME IInv, [Next]_vars,
             relation.state \in {"accepted", "rejected", "undone"},
             relation'.activity = relation.activity, ~raced'
      PROVE  relation'.state \in {relation.state, "undone"}
  <2>1. CASE Unfollow
    BY <1>1, <2>1 DEF Unfollow, IInv, Types, Row, NoRow
  <2>2. ASSUME NEW s \in Sessions, NEW f \in Follows, FollowCommit(s, f) PROVE FALSE
    BY <1>1, <2>2 DEF FollowCommit, Unused, IInv, RelationQueued, NoRow
  <2>3. ASSUME NEW s \in Sessions, ResponseCommit(s)
        PROVE  relation'.state = relation.state
    BY <1>1, <2>3 DEF ResponseCommit, Commit, SettledBy, IInv, Types, Row, NoRow
  <2>4. CASE UNCHANGED relation
    BY <1>1, <2>4
  <2> QED BY <1>1, <2>1, <2>2, <2>3, <2>4
          DEF Next, vars, FollowRead, FollowConflict, ResponseRead, Receive, ResponseUnknown
<1>2. IInv /\ [Next]_vars =>
        [/\ relation.state \in {"accepted", "rejected", "undone"}
         /\ relation'.activity = relation.activity
         /\ ~raced'
         => relation'.state \in {relation.state, "undone"}]_vars
  BY <1>1
<1> QED BY <1>2, Invariance, PTL DEF Spec, AnswerStays
=============================================================================
