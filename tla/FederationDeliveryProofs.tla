----------------------- MODULE FederationDeliveryProofs -----------------------
(***************************************************************************)
(* Machine-checked proofs about the federation delivery queue, for any     *)
(* number of deliveries, workers and operators and any bounds.             *)
(***************************************************************************)
EXTENDS FederationDelivery, TLAPS

-----------------------------------------------------------------------------
(***************************************************************************)
(* The parts of the inductive invariant.                                   *)
(***************************************************************************)
\* What deliver_one is about to record as delivered was taken by the inbox.
AcceptedIsRecorded ==
  \A w \in Workers :
    pc[w] = "commit" /\ change[w].status = "delivered" => accepted[job[w]] > 0

\* Unless a lease was overtaken or a stale request hit the row, one worker at
\* most is past the claim, and the row is SENDING while it is, or cancelled.
ClaimHeld ==
  \A d \in Deliveries : Orderly(d) =>
    \A w \in Workers : InFlight(w, d) =>
      /\ row[d].status \in {"sending", "cancelled"}
      /\ \A v \in Workers : InFlight(v, d) => v = w

\* An undisputed acceptance happened once, and the row or its worker knows it.
AcceptedOnce ==
  \A d \in Deliveries :
    ~ambiguous[d] /\ Orderly(d) /\ accepted[d] > 0
      => /\ accepted[d] = 1
         /\ \/ row[d].status = "delivered"
            \/ \E w \in Workers :
                 pc[w] = "commit" /\ job[w] = d /\ change[w].status = "delivered"

IInv == TypeOK /\ AcceptedIsRecorded /\ DeliveredIsTruthful /\ ClaimHeld /\ AcceptedOnce

-----------------------------------------------------------------------------
(***************************************************************************)
(* Type correctness.                                                       *)
(***************************************************************************)
\* The initial state of the queue is well typed.
LEMMA TypeOKInit == Init => TypeOK
  BY ConstantsAssumption
  DEF Init, TypeOK, Row, Statuses, Times, Leases, Steps, InFlightSteps, Change, NoChange,
      Request

\* What deliver_one may write: the results of _retry_delivery and of its ends.
LEMMA ChangeTypes ==
  /\ NoChange \in Change /\ RetryNow \in Change
  /\ RetryNow.status # "delivered"
  /\ \A n \in Nat : Retried(n) \in Change /\ Retried(n).status # "delivered"
  /\ \A s \in Statuses, l \in {"same", "none"} :
       Ended(s, l) \in Change /\ Ended(s, l).status = s
  BY ConstantsAssumption
  DEF Change, NoChange, RetryNow, Retried, Ended, Statuses, Times

\* Every write to federation_deliveries writes a row of federation_deliveries.
LEMMA RowOperations ==
  ASSUME NEW r \in Row
  PROVE  /\ \A s \in Statuses : [r EXCEPT !.status = s] \in Row
         /\ [r EXCEPT !.lease = "expired"] \in Row
         /\ [r EXCEPT !.next = "past"] \in Row
         /\ Claimed(r) \in Row
         /\ \A c \in Change : Applied(r, c) \in Row
         /\ \A q \in Request : Requested(r, q) \in Row
<1> USE DEF Row, Statuses, Times, Leases
<1>1. /\ \A s \in Statuses : [r EXCEPT !.status = s] \in Row
      /\ [r EXCEPT !.lease = "expired"] \in Row
      /\ [r EXCEPT !.next = "past"] \in Row
  OBVIOUS
<1>2. Claimed(r) \in Row
  <2>1. r.attempts + 1 \in Nat
    OBVIOUS
  <2>2. \A n \in Nat :
          [r EXCEPT !.status = "sending", !.lease = "held", !.attempts = n] \in Row
    OBVIOUS
  <2>. QED
    BY <2>1, <2>2 DEF Claimed
<1>3. ASSUME NEW c \in Change PROVE Applied(r, c) \in Row
  BY DEF Applied, Change
<1>4. ASSUME NEW q \in Request PROVE Requested(r, q) \in Row
  BY DEF Requested, Request
<1>. QED
  BY <1>1, <1>2, <1>3, <1>4

\* Every step of a worker, the clock, a producer or an operator keeps the types.
LEMMA TypeOKNext == TypeOK /\ [Next]_vars => TypeOK'
<1> SUFFICES ASSUME TypeOK, [Next]_vars PROVE TypeOK'
  OBVIOUS
<1> USE ConstantsAssumption DEF TypeOK, workerVars, observers, bounds, Steps, InFlightSteps
<1>r. \A d \in Deliveries : row[d] \in Row
  OBVIOUS
<1>c. NoChange \in Change
  BY ChangeTypes
<1>1. ASSUME NEW w \in Workers, NEW d \in Deliveries, ClaimSelect(w, d) PROVE TypeOK'
  BY <1>1 DEF ClaimSelect
<1>2. ASSUME NEW w \in Workers, ClaimUpdate(w) PROVE TypeOK'
  <2>1. job[w] \in Deliveries
    BY <1>2 DEF ClaimUpdate
  <2>2. Claimed(row[job[w]]) \in Row
    BY <1>r, <2>1, RowOperations
  <2>3. row' \in [Deliveries -> Row]
    BY <1>2, <2>1, <2>2 DEF ClaimUpdate
  <2>. QED
    BY <1>2, <2>1, <2>3 DEF ClaimUpdate
<1>3. ASSUME NEW w \in Workers, ClaimLost(w) \/ LoadUnavailable(w) PROVE TypeOK'
  BY <1>3, <1>c DEF ClaimLost, LoadUnavailable, Leave
<1>4. ASSUME NEW w \in Workers, Load(w) PROVE TypeOK'
  BY <1>4 DEF Load, Row
<1>5. ASSUME NEW w \in Workers, NEW c \in Change, Decide(w, c),
             moves' \in Nat, accepted' \in [Deliveries -> 0..2],
             ambiguous' \in [Deliveries -> BOOLEAN]
      PROVE  TypeOK'
  BY <1>5 DEF Decide
<1>6. ASSUME NEW w \in Workers, Refused(w) \/ InboxMoved(w) \/ Rejected(w) PROVE TypeOK'
  <2>1. \E c \in Change : Decide(w, c)
    BY <1>6, ChangeTypes DEF Refused, InboxMoved, Rejected, Statuses
  <2>2. /\ moves' \in Nat /\ accepted' \in [Deliveries -> 0..2]
        /\ ambiguous' \in [Deliveries -> BOOLEAN]
    BY <1>6 DEF Refused, InboxMoved, Rejected
  <2>. QED
    BY <1>5, <2>1, <2>2
<1>7. ASSUME NEW w \in Workers, Delivered(w) \/ AnswerLost(w) PROVE TypeOK'
  <2>1. \E c \in Change : Decide(w, c)
    BY <1>7, ChangeTypes DEF Delivered, AnswerLost, Statuses
  <2>2. accepted' \in [Deliveries -> 0..2]
    BY <1>7 DEF Delivered, AnswerLost, Accept
  <2>3. moves' \in Nat /\ ambiguous' \in [Deliveries -> BOOLEAN]
    BY <1>7 DEF Delivered, AnswerLost
  <2>. QED
    BY <1>5, <2>1, <2>2, <2>3
<1>8. ASSUME NEW w \in Workers, Commit(w) PROVE TypeOK'
  <2>1. Applied(row[job[w]], change[w]) \in Row
    BY <1>8, <1>r, RowOperations DEF Commit
  <2>2. row' \in [Deliveries -> Row]
    BY <1>8, <2>1 DEF Commit
  <2>. QED
    BY <1>8, <2>2, <1>c DEF Commit, Leave
<1>9. ASSUME NEW w \in Workers, Crash(w) PROVE TypeOK'
  BY <1>9, <1>c DEF Crash, Leave
<1>10. ASSUME NEW d \in Deliveries, Enqueue(d) \/ LeaseExpires(d) \/ BackoffElapses(d)
       PROVE  TypeOK'
  <2>0. /\ [row[d] EXCEPT !.status = "pending"] \in Row
        /\ [row[d] EXCEPT !.lease = "expired"] \in Row
        /\ [row[d] EXCEPT !.next = "past"] \in Row
    BY <1>r, RowOperations DEF Statuses
  <2>1. row' \in [Deliveries -> Row]
    BY <1>10, <2>0 DEF Enqueue, LeaseExpires, BackoffElapses
  <2>. QED
    BY <1>10, <2>1 DEF Enqueue, LeaseExpires, BackoffElapses
<1>11. ASSUME NEW o \in Operators, NEW kind \in {"retry", "cancel"}, NEW d \in Deliveries,
              RequestRead(o, kind, d)
       PROVE  TypeOK'
  BY <1>11 DEF RequestRead, Request
<1>12. ASSUME NEW o \in Operators, RequestCommit(o) PROVE TypeOK'
  <2>1. request[o] \in Request /\ request[o].delivery \in Deliveries
    BY <1>12 DEF RequestCommit, Request
  <2>2. Requested(row[request[o].delivery], request[o]) \in Row
    BY <2>1, <1>r, RowOperations
  <2>3. row' \in [Deliveries -> Row]
    BY <1>12, <2>1, <2>2 DEF RequestCommit
  <2>. QED
    BY <1>12, <2>1, <2>3 DEF RequestCommit
<1>13. CASE UNCHANGED vars
  BY <1>13 DEF vars
<1>. QED
  BY <1>1, <1>2, <1>3, <1>4, <1>6, <1>7, <1>8, <1>9, <1>10, <1>11, <1>12, <1>13
  DEF Next, WorkerStep

\* Every reachable state of the queue is well typed: in particular a worker past
\* the claim always works on a delivery.
THEOREM TypeCorrect == Spec => []TypeOK
  BY TypeOKInit, TypeOKNext, PTL DEF Spec

-----------------------------------------------------------------------------
(***************************************************************************)
(* What the remote inbox took.                                             *)
(***************************************************************************)
\* A row becomes DELIVERED only by the commit of a worker that saw a 2xx.
LEMMA TruthStep ==
  TypeOK /\ AcceptedIsRecorded /\ DeliveredIsTruthful /\ [Next]_vars
    => AcceptedIsRecorded' /\ DeliveredIsTruthful'
<1> DEFINE Both == AcceptedIsRecorded /\ DeliveredIsTruthful
<1> SUFFICES ASSUME TypeOK, Both, [Next]_vars PROVE Both'
  OBVIOUS
<1> USE ConstantsAssumption
    DEF TypeOK, AcceptedIsRecorded, DeliveredIsTruthful, workerVars, observers, bounds
<1>1. ASSUME NEW w \in Workers, NEW d \in Deliveries, ClaimSelect(w, d) PROVE Both'
  BY <1>1 DEF ClaimSelect
<1>2. ASSUME NEW w \in Workers, ClaimUpdate(w) PROVE Both'
  BY <1>2 DEF ClaimUpdate, Claimed, Row
<1>3. ASSUME NEW w \in Workers, ClaimLost(w) \/ LoadUnavailable(w) PROVE Both'
  BY <1>3 DEF ClaimLost, LoadUnavailable, Leave
<1>4. ASSUME NEW w \in Workers, Load(w) PROVE Both'
  BY <1>4 DEF Load
<1>5. ASSUME NEW w \in Workers, Refused(w) \/ InboxMoved(w) \/ Rejected(w) PROVE Both'
  <2>1. PICK c \in Change : Decide(w, c) /\ c.status # "delivered"
    <3>0. loaded[w] \in Nat /\ {"dead", "cancelled"} \subseteq Statuses
      BY DEF Statuses
    <3>1. \A c \in {Ended("dead", "same"), Ended("cancelled", "none"),
                    Ended("dead", "none"), Ended("cancelled", "same"),
                    Retried(loaded[w]), RetryNow} :
            c \in Change /\ c.status # "delivered"
      BY <3>0, ChangeTypes
    <3>2. CASE Refused(w)
      BY <3>1, <3>2 DEF Refused
    <3>3. CASE InboxMoved(w)
      BY <3>1, <3>3 DEF InboxMoved
    <3>4. CASE Rejected(w)
      BY <3>1, <3>4 DEF Rejected
    <3>. QED
      BY <1>5, <3>2, <3>3, <3>4
  <2>2. UNCHANGED accepted
    BY <1>5 DEF Refused, InboxMoved, Rejected
  <2>. QED
    BY <2>1, <2>2 DEF Decide
<1>6. ASSUME NEW w \in Workers, Delivered(w) \/ AnswerLost(w) PROVE Both'
  <2>1. PICK c : Decide(w, c)
    BY <1>6 DEF Delivered, AnswerLost
  <2>2. /\ accepted'[job[w]] > 0
        /\ \A d \in Deliveries : accepted[d] > 0 => accepted'[d] > 0
    BY <1>6, <2>1 DEF Delivered, AnswerLost, Accept, Decide
  <2>. QED
    BY <2>1, <2>2 DEF Decide
<1>7. ASSUME NEW w \in Workers, Commit(w) PROVE Both'
  BY <1>7 DEF Commit, Leave, Applied, Row
<1>8. ASSUME NEW w \in Workers, Crash(w) PROVE Both'
  BY <1>8 DEF Crash, Leave
<1>9. ASSUME NEW d \in Deliveries, Enqueue(d) \/ LeaseExpires(d) \/ BackoffElapses(d)
      PROVE  Both'
  <2>1. row'[d].status # "delivered" \/ row'[d].status = row[d].status
    <3>1. CASE Enqueue(d)
      BY <3>1 DEF Enqueue, Row
    <3>2. CASE LeaseExpires(d)
      BY <3>2 DEF LeaseExpires, Row
    <3>3. CASE BackoffElapses(d)
      BY <3>3 DEF BackoffElapses, Row
    <3>. QED
      BY <1>9, <3>1, <3>2, <3>3
  <2>2. /\ \A m \in Deliveries \ {d} : row'[m] = row[m]
        /\ UNCHANGED <<pc, job, change, accepted>>
    BY <1>9 DEF Enqueue, LeaseExpires, BackoffElapses
  <2>. QED
    BY <2>1, <2>2
<1>10. ASSUME NEW o \in Operators, RequestCommit(o) PROVE Both'
  BY <1>10 DEF RequestCommit, Requested, Request
<1>11. CASE \/ UNCHANGED vars
            \/ \E o \in Operators, d \in Deliveries, kind \in {"retry", "cancel"} :
                 RequestRead(o, kind, d)
  BY <1>11 DEF vars, RequestRead
<1>. QED
  BY <1>1, <1>2, <1>3, <1>4, <1>5, <1>6, <1>7, <1>8, <1>9, <1>10, <1>11
  DEF Next, WorkerStep

-----------------------------------------------------------------------------
(***************************************************************************)
(* Why an activity may be taken twice.                                     *)
(***************************************************************************)
\* A row stays with the one worker that claimed it, or the step that takes it
\* away leaves its trace: the conditional UPDATE of claim_delivery is the lock.
LEMMA ClaimStep ==
  TypeOK /\ ClaimHeld /\ [Next]_vars => ClaimHeld'
<1> DEFINE Held(d, w) ==
      /\ row[d].status \in {"sending", "cancelled"}
      /\ \A v \in Workers : InFlight(v, d) => v = w
<1> SUFFICES ASSUME TypeOK, ClaimHeld, [Next]_vars,
                    NEW n \in Deliveries, NEW u \in Workers, Orderly(n)', InFlight(u, n)'
             PROVE  Held(n, u)'
  BY DEF ClaimHeld
<1> USE ConstantsAssumption
    DEF TypeOK, Orderly, InFlight, InFlightSteps, workerVars, observers, bounds
<1>h. ASSUME Orderly(n), InFlight(u, n) PROVE Held(n, u)
  BY <1>h DEF ClaimHeld
<1>1. ASSUME NEW w \in Workers, NEW d \in Deliveries, ClaimSelect(w, d) PROVE Held(n, u)'
  BY <1>1, <1>h DEF ClaimSelect
<1>2. ASSUME NEW w \in Workers, ClaimUpdate(w) PROVE Held(n, u)'
  <2>1. CASE n = job[w]
    <3>1. \A v \in Workers : ~InFlight(v, n)
      BY <1>2, <2>1, ZenonT(60) DEF ClaimUpdate, ClaimHeld, Due
    <3>2. \A v \in Workers : InFlight(v, n)' => v = w
      BY <1>2, <3>1 DEF ClaimUpdate
    <3>3. row'[n].status = "sending"
      BY <1>2, <2>1 DEF ClaimUpdate, Claimed, Row
    <3>. QED
      BY <3>2, <3>3
  <2>2. CASE n # job[w]
    BY <1>2, <1>h, <2>2 DEF ClaimUpdate
  <2>. QED
    BY <2>1, <2>2
<1>3. ASSUME NEW w \in Workers, ClaimLost(w) \/ LoadUnavailable(w) \/ Crash(w)
      PROVE  Held(n, u)'
  BY <1>3, <1>h DEF ClaimLost, LoadUnavailable, Crash, Leave
<1>4. ASSUME NEW w \in Workers, Load(w) PROVE Held(n, u)'
  BY <1>4, <1>h DEF Load
<1>5. ASSUME NEW w \in Workers, NEW c, Decide(w, c) PROVE Held(n, u)'
  BY <1>5, <1>h DEF Decide
<1>6. ASSUME NEW w \in Workers, Commit(w) PROVE Held(n, u)'
  <2>1. Orderly(n) /\ InFlight(u, n) /\ u # w
    BY <1>6 DEF Commit, Leave
  <2>2. n # job[w]
    BY <1>6, <2>1, <1>h DEF Commit
  <2>. QED
    BY <1>6, <1>h, <2>1, <2>2 DEF Commit, Leave
<1>7. ASSUME NEW d \in Deliveries, Enqueue(d) \/ LeaseExpires(d) \/ BackoffElapses(d)
      PROVE  Held(n, u)'
  <2>1. Orderly(n) /\ InFlight(u, n)
    BY <1>7 DEF Enqueue, LeaseExpires, BackoffElapses
  <2>2. row'[n].status = row[n].status
    <3>1. CASE Enqueue(d)
      BY <3>1, <2>1, <1>h DEF Enqueue
    <3>2. CASE LeaseExpires(d)
      BY <3>2 DEF LeaseExpires, Row
    <3>3. CASE BackoffElapses(d)
      BY <3>3 DEF BackoffElapses, Row
    <3>. QED
      BY <1>7, <3>1, <3>2, <3>3
  <2>. QED
    BY <1>7, <1>h, <2>1, <2>2 DEF Enqueue, LeaseExpires, BackoffElapses
<1>8. ASSUME NEW o \in Operators, RequestCommit(o) PROVE Held(n, u)'
  <2>1. request[o] \in Request /\ request[o].delivery \in Deliveries
    BY <1>8 DEF RequestCommit, Request
  <2>2. Orderly(n) /\ InFlight(u, n)
    BY <1>8, <2>1 DEF RequestCommit
  <2>3. CASE n = request[o].delivery
    <3>1. Eligible(request[o].kind, row[n])
      BY <1>8, <2>3 DEF RequestCommit
    <3>2. request[o].kind = "cancel"
      BY <2>1, <2>2, <3>1, <1>h DEF Eligible, Request
    <3>3. row'[n].status = "cancelled"
      BY <1>8, <2>3, <3>2 DEF RequestCommit, Requested
    <3>. QED
      BY <1>8, <1>h, <2>2, <3>3 DEF RequestCommit
  <2>4. CASE n # request[o].delivery
    BY <1>8, <1>h, <2>1, <2>2, <2>4 DEF RequestCommit
  <2>. QED
    BY <2>3, <2>4
<1>9. CASE \/ UNCHANGED vars
           \/ \E o \in Operators, d \in Deliveries, kind \in {"retry", "cancel"} :
                RequestRead(o, kind, d)
  BY <1>9, <1>h DEF vars, RequestRead
<1>10. ASSUME NEW w \in Workers,
              Refused(w) \/ InboxMoved(w) \/ Rejected(w) \/ Delivered(w) \/ AnswerLost(w)
       PROVE  \E c : Decide(w, c)
  BY <1>10 DEF Refused, InboxMoved, Rejected, Delivered, AnswerLost
<1>. QED
  BY <1>1, <1>2, <1>3, <1>4, <1>5, <1>6, <1>7, <1>8, <1>9, <1>10 DEF Next, WorkerStep

\* The first acceptance of an orderly delivery is the last: its worker is the only
\* one, and the commit that follows ends the row.
LEMMA AcceptedOnceStep ==
  TypeOK /\ ClaimHeld /\ AcceptedOnce /\ [Next]_vars => AcceptedOnce'
<1> DEFINE Reported(d) ==
      \E w \in Workers : pc[w] = "commit" /\ job[w] = d /\ change[w].status = "delivered"
    Known(d) == accepted[d] = 1 /\ (row[d].status = "delivered" \/ Reported(d))
<1> SUFFICES ASSUME TypeOK, ClaimHeld, AcceptedOnce, [Next]_vars,
                    NEW n \in Deliveries,
                    ~ambiguous'[n], Orderly(n)', accepted'[n] > 0
             PROVE  Known(n)'
  BY DEF AcceptedOnce
<1> USE ConstantsAssumption
    DEF TypeOK, Orderly, InFlight, InFlightSteps, workerVars, observers, bounds
<1>h. ASSUME ~ambiguous[n], Orderly(n), accepted[n] > 0 PROVE Known(n)
  BY <1>h DEF AcceptedOnce
<1>c. ASSUME NEW w \in Workers, InFlight(w, n), Orderly(n)
      PROVE  /\ row[n].status \in {"sending", "cancelled"}
             /\ \A v \in Workers : InFlight(v, n) => v = w
  BY <1>c DEF ClaimHeld
<1>1. ASSUME NEW w \in Workers, NEW d \in Deliveries, ClaimSelect(w, d) PROVE Known(n)'
  BY <1>1, <1>h DEF ClaimSelect
<1>2. ASSUME NEW w \in Workers, ClaimUpdate(w) PROVE Known(n)'
  <2>1. Known(n)
    BY <1>2, <1>h DEF ClaimUpdate
  <2>2. row[n].status = "delivered" => row'[n].status = "delivered"
    BY <1>2 DEF ClaimUpdate, Due
  <2>3. Reported(n) => Reported(n)'
    BY <1>2 DEF ClaimUpdate
  <2>4. UNCHANGED accepted
    BY <1>2 DEF ClaimUpdate
  <2>. QED
    BY <2>1, <2>2, <2>3, <2>4
<1>3. ASSUME NEW w \in Workers, ClaimLost(w) \/ LoadUnavailable(w) \/ Load(w)
      PROVE  Known(n)'
  <2>1. Known(n)
    BY <1>3, <1>h DEF ClaimLost, LoadUnavailable, Load
  <2>2. Reported(n) => Reported(n)'
    BY <1>3 DEF ClaimLost, LoadUnavailable, Load, Leave
  <2>. QED
    BY <1>3, <2>1, <2>2 DEF ClaimLost, LoadUnavailable, Load
<1>4. ASSUME NEW w \in Workers, NEW c, Decide(w, c), UNCHANGED <<accepted, ambiguous>>
      PROVE  Known(n)'
  <2>1. Known(n)
    BY <1>4, <1>h DEF Decide
  <2>2. Reported(n) => Reported(n)'
    BY <1>4 DEF Decide
  <2>. QED
    BY <1>4, <2>1, <2>2 DEF Decide
<1>5. ASSUME NEW w \in Workers, Delivered(w) \/ AnswerLost(w) PROVE Known(n)'
  <2>1. PICK c : Decide(w, c)
    BY <1>5 DEF Delivered, AnswerLost
  <2>2. pc[w] = "post" /\ Orderly(n) /\ ~ambiguous[n]
    BY <1>5, <2>1 DEF Decide, Delivered, AnswerLost
  <2>3. CASE n = job[w]
    <3>1. accepted[n] = 0
      BY <1>h, <1>c, <2>2, <2>3
    <3>2. Delivered(w)
      BY <1>5, <2>2, <2>3 DEF AnswerLost
    <3>3. accepted'[n] = 1
      BY <3>1, <3>2, <2>3 DEF Delivered, Accept
    <3>4. pc'[w] = "commit" /\ job'[w] = n /\ change'[w].status = "delivered"
      BY <3>2, <2>3 DEF Delivered, Decide, Ended
    <3>. QED
      BY <3>3, <3>4
  <2>4. CASE n # job[w]
    <3>1. accepted'[n] = accepted[n]
      BY <1>5, <2>1, <2>4 DEF Delivered, AnswerLost, Accept
    <3>2. Reported(n) => Reported(n)'
      BY <2>1, <2>2 DEF Decide
    <3>. QED
      BY <1>h, <2>1, <2>2, <3>1, <3>2 DEF Decide
  <2>. QED
    BY <2>3, <2>4
<1>6. ASSUME NEW w \in Workers, Commit(w) PROVE Known(n)'
  <2>1. Known(n)
    BY <1>6, <1>h DEF Commit
  <2>2. CASE n = job[w]
    <3>1. InFlight(w, n) /\ row[n].status # "delivered"
      BY <1>6, <1>c, <2>2 DEF Commit
    <3>2. change[w].status = "delivered"
      BY <1>6, <1>c, <2>1, <3>1 DEF Commit
    <3>. QED
      BY <1>6, <2>1, <2>2, <3>2 DEF Commit, Applied
  <2>3. CASE n # job[w]
    <3>1. Reported(n) => Reported(n)'
      BY <1>6, <2>3 DEF Commit, Leave
    <3>. QED
      BY <1>6, <2>1, <2>3, <3>1 DEF Commit
  <2>. QED
    BY <2>2, <2>3
<1>7. ASSUME NEW w \in Workers, Crash(w) PROVE Known(n)'
  <2>1. Known(n) /\ UNCHANGED <<row, accepted>>
    BY <1>7, <1>h DEF Crash
  <2>2. Reported(n) => Reported(n)'
    BY <1>7 DEF Crash, Leave
  <2>. QED
    BY <2>1, <2>2
<1>8. ASSUME NEW d \in Deliveries, Enqueue(d) \/ LeaseExpires(d) \/ BackoffElapses(d)
      PROVE  Known(n)'
  <2>1. Known(n) /\ UNCHANGED <<pc, job, change, accepted>>
    BY <1>8, <1>h DEF Enqueue, LeaseExpires, BackoffElapses
  <2>2. row[n].status = "delivered" => row'[n].status = "delivered"
    <3>1. CASE Enqueue(d)
      BY <3>1 DEF Enqueue
    <3>2. CASE LeaseExpires(d)
      BY <3>2 DEF LeaseExpires, Row
    <3>3. CASE BackoffElapses(d)
      BY <3>3 DEF BackoffElapses, Row
    <3>. QED
      BY <1>8, <3>1, <3>2, <3>3
  <2>. QED
    BY <2>1, <2>2
<1>9. ASSUME NEW o \in Operators, RequestCommit(o) PROVE Known(n)'
  <2>1. request[o] \in Request /\ request[o].delivery \in Deliveries
    BY <1>9 DEF RequestCommit, Request
  <2>2. Known(n) /\ UNCHANGED <<pc, job, change, accepted>>
    BY <1>9, <1>h, <2>1 DEF RequestCommit
  <2>3. row[n].status = "delivered" => row'[n].status = "delivered"
    <3>1. CASE n = request[o].delivery
      BY <1>9, <2>1, <3>1 DEF RequestCommit, Eligible, Request
    <3>2. CASE n # request[o].delivery
      BY <1>9, <2>1, <3>2 DEF RequestCommit
    <3>. QED
      BY <3>1, <3>2
  <2>. QED
    BY <2>2, <2>3
<1>10. CASE \/ UNCHANGED vars
            \/ \E o \in Operators, d \in Deliveries, kind \in {"retry", "cancel"} :
                 RequestRead(o, kind, d)
  BY <1>10, <1>h DEF vars, RequestRead
<1>11. ASSUME NEW w \in Workers, Refused(w) \/ InboxMoved(w) \/ Rejected(w)
       PROVE  UNCHANGED <<accepted, ambiguous>> /\ \E c : Decide(w, c)
  BY <1>11 DEF Refused, InboxMoved, Rejected
<1>. QED
  BY <1>1, <1>2, <1>3, <1>4, <1>5, <1>6, <1>7, <1>8, <1>9, <1>10, <1>11 DEF Next, WorkerStep

-----------------------------------------------------------------------------
(***************************************************************************)
(* The theorems.                                                           *)
(***************************************************************************)
\* The inductive invariant holds in every reachable state.
THEOREM Invariance == Spec => []IInv
<1>1. Init => IInv
  BY TypeOKInit
  DEF Init, IInv, AcceptedIsRecorded, DeliveredIsTruthful, ClaimHeld, AcceptedOnce,
      InFlight, InFlightSteps
<1>2. IInv /\ [Next]_vars => IInv'
  BY TypeOKNext, TruthStep, ClaimStep, AcceptedOnceStep DEF IInv
<1>. QED
  BY <1>1, <1>2, PTL DEF Spec

\* A delivery is marked delivered only if the remote inbox took the activity,
\* for any number of workers, deaths, expired leases and operator requests.
THEOREM DeliveredWasAccepted == Spec => []DeliveredIsTruthful
<1>1. IInv => DeliveredIsTruthful
  BY DEF IInv
<1>. QED
  BY <1>1, Invariance, PTL

\* The remote takes an activity twice only after an acceptance that was not
\* recorded, the takeover of a live lease or a stale operator request.
THEOREM DuplicatesAreExplained == Spec => []DuplicateExplained
<1>1. IInv => DuplicateExplained
  BY DEF IInv, TypeOK, AcceptedOnce, DuplicateExplained
<1>. QED
  BY <1>1, Invariance, PTL

=============================================================================
