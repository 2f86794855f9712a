---------------------------- MODULE OutboundFollow ----------------------------
(***************************************************************************)
(* Following a remote actor from a local account: follow_remote_actor      *)
(* (federation/services.py), unfollow_remote_actor and the handler of the  *)
(* remote's Accept and Reject, _follow_response (federation/inbox.py), on  *)
(* the one outbound Follower row of the account and the actor.             *)
(*                                                                         *)
(* A session writes the columns that differ from what it read when it      *)
(* commits; unfollow_remote_actor alone locks the row it reads.            *)
(***************************************************************************)
EXTENDS Naturals

CONSTANTS
  Follows,    \* activity ids, each used once
  Sessions,   \* concurrent sessions
  NoOne

ASSUME ConstantsAssumption == NoOne \notin Follows

VARIABLES
  fits,      \* the 64 characters of source_revision reach the unique part of
             \* an activity id: the site's origin is short enough
  relation,  \* the outbound ap_followers row
  outbox,    \* queued Follow and Undo activities
  revisions, \* source revisions of the queued Undo activities
  responses, \* responses stored in the inbox and not processed yet
  session,   \* what each session has read
  \* Observers.
  received,  \* every response the remote sent
  raced      \* a session committed over a row it had not read

vars == <<fits, relation, outbox, revisions, responses, session, received, raced>>

NoRow == [state |-> "none", activity |-> NoOne]
Row == [state: {"pending", "accepted", "rejected", "undone"}, activity: Follows]
Response == [type: {"Accept", "Reject"}, follow: Follows]
Activity == [type: {"Follow", "Undo"}, follow: Follows]

\* A session: a follow request, or the handler of a response.
Following(row) == [kind |-> "follow", seen |-> row, response |-> NoOne]
Handling(row, r) == [kind |-> "response", seen |-> row, response |-> r]

Sent(type, f) == [type |-> type, follow |-> f]

Init ==
  /\ fits \in BOOLEAN
  /\ relation = NoRow
  /\ outbox = {}
  /\ revisions = {}
  /\ responses = {}
  /\ session = [s \in Sessions |-> NoOne]
  /\ received = {}
  /\ raced = FALSE

Commit(s) ==
  /\ session' = [session EXCEPT ![s] = NoOne]
  /\ raced' = (raced \/ session[s].seen # relation)

(***************************************************************************)
(* follow_remote_actor.                                                    *)
(***************************************************************************)
\* A pending or accepted relation is returned as it is.
FollowRead(s) ==
  /\ session[s] = NoOne
  /\ relation.state \notin {"pending", "accepted"}
  /\ session' = [session EXCEPT ![s] = Following(relation)]
  /\ UNCHANGED <<fits, relation, outbox, revisions, responses, received, raced>>

Unused(f) == Sent("Follow", f) \notin outbox

FollowCommit(s, f) ==
  /\ session[s] # NoOne /\ session[s].kind = "follow"
  /\ Unused(f)
  /\ session[s].seen = NoRow => relation = NoRow
  /\ relation' = [state |-> "pending", activity |-> f]
  /\ outbox' = outbox \union {Sent("Follow", f)}
  /\ Commit(s)
  /\ UNCHANGED <<fits, revisions, responses, received>>

\* The INSERT meets the row of a concurrent follow: the request fails.
FollowConflict(s) ==
  /\ session[s] # NoOne /\ session[s].kind = "follow"
  /\ session[s].seen = NoRow /\ relation # NoRow
  /\ session' = [session EXCEPT ![s] = NoOne]
  /\ UNCHANGED <<fits, relation, outbox, revisions, responses, received, raced>>

(***************************************************************************)
(* unfollow_remote_actor.                                                  *)
(***************************************************************************)
\* source_revision of the Undo: the first 64 characters of the Follow's id.
Revision(f) == IF fits THEN f ELSE NoOne

\* Mutant: the relation is undone and no Undo is queued.
UnfollowQuietly ==
  /\ relation.state \notin {"none", "undone"}
  /\ relation' = [relation EXCEPT !.state = "undone"]
  /\ UNCHANGED <<fits, outbox, revisions, responses, session, received, raced>>

\* enqueue_activity returns the activity it has for the revision.
Unfollow ==
  /\ relation.state \notin {"none", "undone"}
  /\ relation' = [relation EXCEPT !.state = "undone"]
  /\ revisions' = revisions \union {Revision(relation.activity)}
  /\ outbox' = IF Revision(relation.activity) \in revisions THEN outbox
               ELSE outbox \union {Sent("Undo", relation.activity)}
  /\ UNCHANGED <<fits, responses, session, received, raced>>

(***************************************************************************)
(* The remote actor and _follow_response.                                  *)
(***************************************************************************)
\* The remote answers a Follow it got, in any order and also more than once.
Receive(type, f) ==
  /\ Sent("Follow", f) \in outbox
  /\ Sent(type, f) \notin received
  /\ responses' = responses \union {Sent(type, f)}
  /\ received' = received \union {Sent(type, f)}
  /\ UNCHANGED <<fits, relation, outbox, revisions, session, raced>>

\* Mutant: the response is matched with the relation of the actor only.
FoundAny(row, f) == row # NoRow
\* The query by remote actor, activity id and direction.
Found(row, f) == row # NoRow /\ row.activity = f

ResponseRead(s, r) ==
  /\ session[s] = NoOne
  /\ r \in responses
  /\ Found(relation, r.follow)
  /\ session' = [session EXCEPT ![s] = Handling(relation, r)]
  /\ responses' = responses \ {r}
  /\ UNCHANGED <<fits, relation, outbox, revisions, received, raced>>

\* InboxProcessingError: follow_relation_not_found.
ResponseUnknown(r) ==
  /\ r \in responses
  /\ ~Found(relation, r.follow)
  /\ responses' = responses \ {r}
  /\ UNCHANGED <<fits, relation, outbox, revisions, session, received, raced>>

Outcome(type) == IF type = "Accept" THEN "accepted" ELSE "rejected"

\* Mutant: the outcome is taken whatever the relation's state.
SettledAlways(state, outcome) == outcome
\* Only a pending relation takes the outcome: the same response again changes
\* nothing, the opposite one is refused as conflicting.
SettledBy(state, outcome) == IF state = "pending" THEN outcome ELSE state

ResponseCommit(s) ==
  /\ session[s] # NoOne /\ session[s].kind = "response"
  /\ LET old == session[s].seen.state
         new == SettledBy(old, Outcome(session[s].response.type))
     IN  relation' = IF new = old THEN relation ELSE [relation EXCEPT !.state = new]
  /\ Commit(s)
  /\ UNCHANGED <<fits, outbox, revisions, responses, received>>

-----------------------------------------------------------------------------
Next ==
  \/ Unfollow
  \/ \E s \in Sessions :
       \/ FollowRead(s) \/ FollowConflict(s) \/ ResponseCommit(s)
       \/ \E f \in Follows : FollowCommit(s, f)
       \/ \E r \in responses : ResponseRead(s, r)
  \/ \E f \in Follows, type \in {"Accept", "Reject"} : Receive(type, f)
  \/ \E r \in responses : ResponseUnknown(r)

Spec == Init /\ [][Next]_vars

-----------------------------------------------------------------------------
(***************************************************************************)
(* Properties.                                                             *)
(***************************************************************************)
\* Every variable of the outbound follow keeps its type.
TypeOK ==
  /\ fits \in BOOLEAN
  /\ relation \in Row \union {NoRow}
  /\ outbox \subseteq Activity
  /\ revisions \subseteq Follows \union {NoOne}
  /\ responses \subseteq Response
  /\ received \subseteq Response
  /\ raced \in BOOLEAN
  /\ \A s \in Sessions : session[s] # NoOne =>
       /\ session[s].kind \in {"follow", "response"}
       /\ session[s].seen \in Row \union {NoRow}

\* The account follows only what was accepted: an accepted relation had an
\* Accept for the very Follow it records, not for an older one.
AcceptedIsOurs ==
  relation.state = "accepted" /\ ~raced => Sent("Accept", relation.activity) \in received

\* A relation that is undone told the remote so: the Undo of the Follow it
\* records is queued ("Queue an idempotent Undo for a local-to-remote Follow").
\* With a long origin the code does not: enqueue_activity takes the Undo of an
\* older Follow for this one's.
UndoSent ==
  relation.state = "undone" => Sent("Undo", relation.activity) \in outbox

\* What holds for every origin, through any follows, answers and unfollows: a
\* relation that is undone has a queued Undo that the 64 characters of its
\* revision take for its own.  When they tell the ids apart this is UndoSent.
UndoQueued ==
  relation.state = "undone" =>
    \E f \in Follows : /\ Sent("Undo", f) \in outbox
                      /\ Revision(f) = Revision(relation.activity)

\* A settled follow stays settled: a repeated, late or contradicting response
\* does not turn accepted into rejected or back, nor undone into either, unless
\* _follow_response wrote over a row it had not read.
AnswerStays ==
  [][/\ relation.state \in {"accepted", "rejected", "undone"}
     /\ relation'.activity = relation.activity
     /\ ~raced'
     => relation'.state \in {relation.state, "undone"}]_vars
=============================================================================
