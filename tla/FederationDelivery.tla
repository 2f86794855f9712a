-------------------------- MODULE FederationDelivery --------------------------
(***************************************************************************)
(* Delivery of outbox activities to remote inboxes: the table              *)
(* federation_deliveries, the workers (run_delivery_batch, claim_delivery, *)
(* deliver_one of federation/services.py) and the operator requests        *)
(* retry_delivery and cancel_delivery (federation/operations.py).          *)
(*                                                                         *)
(* Every process that serves the web application runs a worker; there is   *)
(* no lock between them and the column lease_owner is written but never    *)
(* read, so it is left out.  deliver_one and the operator requests load a  *)
(* row, work on it in memory and write the columns they changed when the   *)
(* session commits, by primary key: a commit is a step of its own.         *)
(***************************************************************************)
EXTENDS Naturals

CONSTANTS
  Deliveries, Workers, Operators,
  NoOne,
  MaxAttempts,  \* FederationDelivery.max_attempts
  MaxCrashes,   \* bound: worker deaths
  MaxMoves,     \* bound: attempts that find a changed inbox
  MaxRequests   \* bound: operator requests

ASSUME ConstantsAssumption ==
  /\ MaxAttempts \in Nat \ {0}
  /\ MaxCrashes \in Nat
  /\ MaxMoves \in Nat
  /\ MaxRequests \in Nat
  /\ NoOne \notin Deliveries

VARIABLES
  row,       \* federation_deliveries
  pc, job,   \* the step of each worker and the delivery it works on
  loaded,    \* the attempts column as deliver_one loaded it
  change,    \* what deliver_one will write
  request,   \* operator requests between their read and their commit
  crashes, moves, requests,
  \* Observers.
  accepted,  \* how often the remote inbox answered 2xx or took the activity
  ambiguous, \* an acceptance deliver_one did not see or did not commit
  overlap,   \* an expired lease was taken from a worker still in flight
  stale      \* an operator request committed over a row that had moved on

observers == <<accepted, ambiguous, overlap, stale>>
workerVars == <<pc, job, loaded, change>>
bounds == <<crashes, moves, requests>>
vars == <<row, workerVars, request, bounds, observers>>

Statuses ==
  {"absent", "pending", "retry", "sending", "delivered", "dead", "cancelled"}
Times == {"past", "future"}   \* next_attempt_at against the clock
Leases == {"none", "held", "expired"}
Row == [status: Statuses, attempts: Nat, next: Times, lease: Leases]

\* The columns a session changed: "same" is an untouched one.
Change == [status: Statuses, next: Times \union {"same"}, lease: {"same", "none"}]
NoChange == [status |-> "sending", next |-> "same", lease |-> "same"]

\* A request remembers which of the columns it resets differ from what it read:
\* only those are written.
Request ==
  [kind: {"retry", "cancel"}, delivery: Deliveries, tried: BOOLEAN, leased: BOOLEAN]

InFlightSteps == {"load", "post", "commit"}
Steps == {"claim", "update"} \union InFlightSteps
InFlight(w, d) == pc[w] \in InFlightSteps /\ job[w] = d

-----------------------------------------------------------------------------
Init ==
  /\ row = [d \in Deliveries |->
       [status |-> "absent", attempts |-> 0, next |-> "past", lease |-> "none"]]
  /\ pc = [w \in Workers |-> "claim"]
  /\ job = [w \in Workers |-> NoOne]
  /\ loaded = [w \in Workers |-> 0]
  /\ change = [w \in Workers |-> NoChange]
  /\ request = [o \in Operators |-> NoOne]
  /\ crashes = 0 /\ moves = 0 /\ requests = 0
  /\ accepted = [d \in Deliveries |-> 0]
  /\ ambiguous = [d \in Deliveries |-> FALSE]
  /\ overlap = [d \in Deliveries |-> FALSE]
  /\ stale = [d \in Deliveries |-> FALSE]

\* enqueue_activity, seen from one of its recipients.
Enqueue(d) ==
  /\ row[d].status = "absent"
  /\ row' = [row EXCEPT ![d].status = "pending"]
  /\ UNCHANGED <<workerVars, request, bounds, observers>>

LeaseExpires(d) ==
  /\ row[d].lease = "held"
  /\ row' = [row EXCEPT ![d].lease = "expired"]
  /\ UNCHANGED <<workerVars, request, bounds, observers>>

BackoffElapses(d) ==
  /\ row[d].next = "future"
  /\ row' = [row EXCEPT ![d].next = "past"]
  /\ UNCHANGED <<workerVars, request, bounds, observers>>

(***************************************************************************)
(* claim_delivery.                                                         *)
(***************************************************************************)
\* Mutant: expired leases are not due.
DueOnce(r) == r.status \in {"pending", "retry"} /\ r.next = "past"
Due(r) ==
  \/ r.status \in {"pending", "retry"} /\ r.next = "past"
  \/ r.status = "sending" /\ r.lease = "expired"

\* run_worker: a worker between two batches, or without anything due, is one
\* that has not taken the next step yet.
ClaimSelect(w, d) ==
  /\ pc[w] = "claim"
  /\ Due(row[d])
  /\ job' = [job EXCEPT ![w] = d]
  /\ pc' = [pc EXCEPT ![w] = "update"]
  /\ UNCHANGED <<row, loaded, change, request, bounds, observers>>

Claimed(r) == [r EXCEPT !.status = "sending", !.lease = "held", !.attempts = @ + 1]

ClaimUpdate(w) ==
  /\ pc[w] = "update"
  /\ Due(row[job[w]])
  /\ row' = [row EXCEPT ![job[w]] = Claimed(@)]
  /\ overlap' = [overlap EXCEPT ![job[w]] =
       @ \/ (row[job[w]].lease = "expired" /\ \E v \in Workers : InFlight(v, job[w]))]
  /\ pc' = [pc EXCEPT ![w] = "load"]
  /\ UNCHANGED <<job, loaded, change, request, bounds, accepted, ambiguous, stale>>

\* The worker leaves the iteration.
Leave(w) ==
  /\ pc' = [pc EXCEPT ![w] = "claim"]
  /\ job' = [job EXCEPT ![w] = NoOne]
  /\ loaded' = [loaded EXCEPT ![w] = 0]
  /\ change' = [change EXCEPT ![w] = NoChange]

ClaimLost(w) ==
  /\ pc[w] = "update"
  /\ ~Due(row[job[w]])
  /\ Leave(w)
  /\ UNCHANGED <<row, request, bounds, observers>>

(***************************************************************************)
(* deliver_one.                                                            *)
(***************************************************************************)
Load(w) ==
  /\ pc[w] = "load"
  /\ row[job[w]].status = "sending"
  /\ loaded' = [loaded EXCEPT ![w] = row[job[w]].attempts]
  /\ pc' = [pc EXCEPT ![w] = "post"]
  /\ UNCHANGED <<row, job, change, request, bounds, observers>>

\* "unavailable": the row was cancelled or finished by someone else.
LoadUnavailable(w) ==
  /\ pc[w] = "load"
  /\ row[job[w]].status # "sending"
  /\ Leave(w)
  /\ UNCHANGED <<row, request, bounds, observers>>

\* _retry_delivery with the attempts it loaded.
Retried(n) ==
  IF n < MaxAttempts
  THEN [status |-> "retry", next |-> "future", lease |-> "none"]
  ELSE [status |-> "dead", next |-> "same", lease |-> "none"]

Ended(status, lease) == [status |-> status, next |-> "same", lease |-> lease]
RetryNow == [status |-> "retry", next |-> "past", lease |-> "none"]

\* deliver_one decides what it will write; the session commits later.
Decide(w, c) ==
  /\ pc[w] = "post"
  /\ change' = [change EXCEPT ![w] = c]
  /\ pc' = [pc EXCEPT ![w] = "commit"]
  /\ UNCHANGED <<row, job, loaded, request, crashes, requests, overlap, stale>>

\* Before the POST: the activity is gone, the domain is blocked, the remote
\* actor is unknown or cannot be fetched, the signing actor is disabled.
Refused(w) ==
  /\ \E c \in {Ended("dead", "same"), Ended("cancelled", "none"), Ended("dead", "none"),
               Ended("cancelled", "same"), Retried(loaded[w])} : Decide(w, c)
  /\ UNCHANGED <<moves, accepted, ambiguous>>

\* _ensure_delivery_inbox or, after a 404 on the first attempt,
\* _refresh_delivery_inbox finds a new inbox: retry at once.
InboxMoved(w) ==
  /\ moves < MaxMoves
  /\ moves' = moves + 1
  /\ Decide(w, RetryNow)
  /\ UNCHANGED <<accepted, ambiguous>>

\* Mutant: any final answer counts as a delivery.
RejectedAsDelivered(w) ==
  /\ \E c \in {Ended("delivered", "none"), Retried(loaded[w])} : Decide(w, c)
  /\ UNCHANGED <<moves, accepted, ambiguous>>

\* The answer is an error: retryable, or final (other codes, redirects).
Rejected(w) ==
  /\ \E c \in {Retried(loaded[w]), Ended("dead", "none")} : Decide(w, c)
  /\ UNCHANGED <<moves, accepted, ambiguous>>

\* Counted up to two: once, or more than once.
Accept(w) == accepted' = [accepted EXCEPT ![job[w]] = IF @ < 2 THEN @ + 1 ELSE @]

Delivered(w) ==
  /\ Decide(w, Ended("delivered", "none"))
  /\ Accept(w)
  /\ UNCHANGED <<moves, ambiguous>>

\* The remote took the activity but its answer was lost.
AnswerLost(w) ==
  /\ Decide(w, Retried(loaded[w]))
  /\ Accept(w)
  /\ ambiguous' = [ambiguous EXCEPT ![job[w]] = TRUE]
  /\ UNCHANGED moves

Applied(r, c) ==
  [status |-> c.status,
   attempts |-> r.attempts,
   next |-> IF c.next = "same" THEN r.next ELSE c.next,
   lease |-> IF c.lease = "same" THEN r.lease ELSE c.lease]

\* Mutant: the session is closed without a commit.
CommitForgotten(w) ==
  /\ pc[w] = "commit"
  /\ Leave(w)
  /\ UNCHANGED <<row, request, bounds, observers>>

Commit(w) ==
  /\ pc[w] = "commit"
  /\ row' = [row EXCEPT ![job[w]] = Applied(@, change[w])]
  /\ Leave(w)
  /\ UNCHANGED <<request, bounds, observers>>

\* The process dies, or the commit raises out of run_delivery_batch.
Crash(w) ==
  /\ pc[w] # "claim"
  /\ crashes < MaxCrashes
  /\ crashes' = crashes + 1
  /\ ambiguous' = IF pc[w] = "commit" /\ change[w].status = "delivered"
                  THEN [ambiguous EXCEPT ![job[w]] = TRUE] ELSE ambiguous
  /\ Leave(w)
  /\ UNCHANGED <<row, request, moves, requests, accepted, overlap, stale>>

(***************************************************************************)
(* retry_delivery and cancel_delivery.                                     *)
(***************************************************************************)
Eligible(kind, r) ==
  CASE kind = "retry"  -> r.status \in {"dead", "retry"}
    [] kind = "cancel" -> r.status \notin {"absent", "delivered", "cancelled"}

RequestRead(o, kind, d) ==
  /\ request[o] = NoOne
  /\ requests < MaxRequests
  /\ Eligible(kind, row[d])
  /\ request' = [request EXCEPT ![o] = 
       [kind |-> kind, delivery |-> d,
        tried |-> row[d].attempts # 0, leased |-> row[d].lease # "none"]]
  /\ UNCHANGED <<row, workerVars, bounds, observers>>

Requested(r, q) ==
  [status |-> IF q.kind = "retry" THEN "pending" ELSE "cancelled",
   attempts |-> IF q.kind = "retry" /\ q.tried THEN 0 ELSE r.attempts,
   next |-> IF q.kind = "retry" THEN "past" ELSE r.next,
   lease |-> IF q.leased THEN "none" ELSE r.lease]

RequestCommit(o) ==
  /\ request[o] # NoOne
  /\ requests < MaxRequests
  /\ requests' = requests + 1
  /\ LET d == request[o].delivery
     IN  /\ row' = [row EXCEPT ![d] = Requested(@, request[o])]
         /\ stale' = [stale EXCEPT ![d] = @ \/ ~Eligible(request[o].kind, row[d])]
  /\ request' = [request EXCEPT ![o] = NoOne]
  /\ UNCHANGED <<workerVars, crashes, moves, accepted, ambiguous, overlap>>

-----------------------------------------------------------------------------
WorkerStep(w) ==
  \/ ClaimUpdate(w) \/ ClaimLost(w)
  \/ \E d \in Deliveries : ClaimSelect(w, d)
  \/ Load(w) \/ LoadUnavailable(w)
  \/ Refused(w) \/ InboxMoved(w) \/ Rejected(w) \/ Delivered(w) \/ AnswerLost(w)
  \/ Commit(w)

Next ==
  \/ \E w \in Workers : WorkerStep(w) \/ Crash(w)
  \/ \E d \in Deliveries : Enqueue(d) \/ LeaseExpires(d) \/ BackoffElapses(d)
  \/ \E o \in Operators :
       \/ \E d \in Deliveries, kind \in {"retry", "cancel"} : RequestRead(o, kind, d)
       \/ RequestCommit(o)

Spec == Init /\ [][Next]_vars

\* run_worker polls for ever and every request of an attempt has a timeout.
FairSpec ==
  /\ Spec
  /\ \A w \in Workers : WF_vars(WorkerStep(w))
  /\ \A d \in Deliveries : WF_vars(LeaseExpires(d)) /\ WF_vars(BackoffElapses(d))

-----------------------------------------------------------------------------
(***************************************************************************)
(* Properties.                                                             *)
(***************************************************************************)
\* Every variable of the delivery model keeps its type.
TypeOK ==
  /\ row \in [Deliveries -> Row]
  /\ pc \in [Workers -> Steps]
  /\ job \in [Workers -> Deliveries \union {NoOne}]
  /\ \A w \in Workers : pc[w] # "claim" => job[w] \in Deliveries
  /\ loaded \in [Workers -> Nat]
  /\ change \in [Workers -> Change]
  /\ request \in [Operators -> Request \union {NoOne}]
  /\ crashes \in Nat /\ moves \in Nat /\ requests \in Nat
  /\ accepted \in [Deliveries -> 0..2]
  /\ ambiguous \in [Deliveries -> BOOLEAN]
  /\ overlap \in [Deliveries -> BOOLEAN]
  /\ stale \in [Deliveries -> BOOLEAN]

Orderly(d) == ~overlap[d] /\ ~stale[d]

\* A delivery is marked delivered only if the remote inbox took the activity,
\* whatever two workers and an operator do to its row.
DeliveredIsTruthful ==
  \A d \in Deliveries : row[d].status = "delivered" => accepted[d] > 0

\* The remote takes an activity twice only after an acceptance that was not
\* recorded, the takeover of a live worker's lease or a stale operator request.
DuplicateExplained ==
  \A d \in Deliveries : accepted[d] > 1 => ambiguous[d] \/ ~Orderly(d)

\* Every delivery ends, although workers die, inboxes move and operators
\* interfere (within the bounds): the due condition reaches every live row.
EventuallySettled ==
  \A d \in Deliveries :
    row[d].status # "absent" ~> row[d].status \in {"delivered", "dead", "cancelled"}

=============================================================================
