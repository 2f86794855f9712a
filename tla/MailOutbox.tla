------------------------------ MODULE MailOutbox ------------------------------
(***************************************************************************)
(* The durable mail outbox: the table mail_queue, the workers that claim,  *)
(* send and finalize its rows (mail/queue.py, process_queue and what it    *)
(* calls), and the operator requests that requeue or cancel a row.         *)
(*                                                                         *)
(* One action is one database transaction or one SMTP exchange: between    *)
(* two of them any other process may run.  Clock readings are abstracted   *)
(* to the comparisons the code makes with them: a backoff is "future"      *)
(* until it elapses, a lease is "held" until it expires.                   *)
(*                                                                         *)
(* A worker stands for one call of process_queue, that is for one value of *)
(* worker_id.  The code draws worker_id as a fresh uuid, so a worker       *)
(* starts only when no row mentions its id.                                *)
(***************************************************************************)
EXTENDS Naturals

CONSTANTS
  Mails,        \* rows that may be enqueued
  Workers,      \* worker ids
  Operators,    \* concurrent retry_mail requests
  NoOne,        \* NULL
  MaxAttempts,  \* DEFAULT_MAX_ATTEMPTS
  Flock,        \* TRUE where fcntl.flock exists and all workers share a host
  MaxRetries,   \* bound: retry_mail commits
  MaxCrashes    \* bound: worker deaths

ASSUME ConstantsAssumption ==
  /\ MaxAttempts \in Nat \ {0}
  /\ Flock \in BOOLEAN
  /\ MaxRetries \in Nat
  /\ MaxCrashes \in Nat
  /\ NoOne \notin Workers
  /\ NoOne \notin Mails
  /\ NoOne \notin Operators

VARIABLES
  row,        \* mail_queue
  pc,         \* where each worker is in process_queue
  job,        \* the row a worker has selected or claimed
  seen,       \* payload["attempts"], read after the claim
  fault,      \* class of the exception being handled
  request,    \* retry_mail requests between their read and their commit
  retries, crashes,
  \* Observers: they record what happened and guard nothing.
  accepted,   \* how often the SMTP server accepted the mail
  ambiguous,  \* an acceptance was not followed by its SENT commit
  stale,      \* a retry_mail committed over a row that had moved on
  overlap     \* an expired lease was taken from a worker still in flight

observers == <<accepted, ambiguous, stale, overlap>>
workerVars == <<pc, job, seen, fault>>
vars == <<row, workerVars, request, retries, crashes, observers>>

Statuses ==
  {"absent", "pending", "leased", "retry", "sent", "dead", "cancelled"}
Faults == {"transient", "permanent"}   \* the two answers of _is_transient

Row ==
  [status: Statuses, attempts: Nat, next: {"none", "future", "past"},
   owner: Workers \union {NoOne}, lease: {"none", "held", "expired"}]

Absent ==
  [status |-> "absent", attempts |-> 0, next |-> "none",
   owner |-> NoOne, lease |-> "none"]

Request == [mail: Mails, snap: Row]

\* Steps of a worker that holds the lock, and those on a claimed row.
InFlightSteps == {"prepare", "send", "accepted", "failed"}
Steps == {"off", "claim", "update"} \union InFlightSteps

InFlight(w, m) == pc[w] \in InFlightSteps /\ job[w] = m

-----------------------------------------------------------------------------
Init ==
  /\ row = [m \in Mails |-> Absent]
  /\ pc = [w \in Workers |-> "off"]
  /\ job = [w \in Workers |-> NoOne]
  /\ seen = [w \in Workers |-> 0]
  /\ fault = [w \in Workers |-> "transient"]
  /\ request = [o \in Operators |-> NoOne]
  /\ retries = 0
  /\ crashes = 0
  /\ accepted = [m \in Mails |-> 0]
  /\ ambiguous = [m \in Mails |-> FALSE]
  /\ stale = [m \in Mails |-> FALSE]
  /\ overlap = [m \in Mails |-> FALSE]

\* enqueue_mail, seen from the queue: the committed PENDING row.
Enqueue(m) ==
  /\ row[m].status = "absent"
  /\ row' = [row EXCEPT ![m].status = "pending"]
  /\ UNCHANGED <<workerVars, request, retries, crashes, observers>>

(***************************************************************************)
(* Time.                                                                   *)
(***************************************************************************)
LeaseExpires(m) ==
  /\ row[m].lease = "held"
  /\ row' = [row EXCEPT ![m].lease = "expired"]
  /\ UNCHANGED <<workerVars, request, retries, crashes, observers>>

BackoffElapses(m) ==
  /\ row[m].next = "future"
  /\ row' = [row EXCEPT ![m].next = "past"]
  /\ UNCHANGED <<workerVars, request, retries, crashes, observers>>

(***************************************************************************)
(* _claim_one.                                                             *)
(***************************************************************************)
Ready(r) == r.status \in {"pending", "retry"} /\ r.next # "future"

\* Mutant: a lease is taken without waiting for lease_until.
ExpiredIgnoringTime(r) == r.status = "leased"
Expired(r) == r.status = "leased" /\ r.lease = "expired"

Claimable(r) == r.attempts < MaxAttempts /\ (Ready(r) \/ Expired(r))

\* Mutant: a lease that ran out on the last attempt is not terminalized.
NeverExhausted(r) == FALSE
Exhausted(r) == r.attempts >= MaxAttempts /\ Expired(r)

\* The first UPDATE: a lease that ran out on the last attempt is terminal.
Terminalized(r) ==
  IF Exhausted(r)
  THEN [r EXCEPT !.status = "dead", !.owner = NoOne, !.lease = "none"]
  ELSE r

Claimed(r, w) ==
  [r EXCEPT !.status = "leased", !.owner = w, !.lease = "held", !.attempts = @ + 1]

\* Observer: m's lease is taken while a worker is still working on m.
Overtakes(m) ==
  /\ row[m].status = "leased"
  /\ row[m].lease = "expired"
  /\ \E w \in Workers : InFlight(w, m)

LockFree == Flock => \A v \in Workers : pc[v] = "off"

\* process_queue takes the lock and enters the batch loop.
Start(w) ==
  /\ pc[w] = "off"
  /\ \A m \in Mails : row[m].owner # w
  /\ LockFree
  /\ pc' = [pc EXCEPT ![w] = "claim"]
  /\ UNCHANGED <<row, job, seen, fault, request, retries, crashes, observers>>

\* No candidate: the terminalization commits and the batch breaks.
ClaimNone(w) ==
  /\ pc[w] = "claim"
  /\ \A m \in Mails : ~Claimable(row[m])
  /\ row' = [m \in Mails |-> Terminalized(row[m])]
  /\ overlap' = [m \in Mails |-> overlap[m] \/ (Exhausted(row[m]) /\ Overtakes(m))]
  /\ pc' = [pc EXCEPT ![w] = "off"]
  /\ UNCHANGED <<job, seen, fault, request, retries, crashes, accepted, ambiguous, stale>>

\* The SELECT of a candidate.  Rows created in the same second are ordered by
\* a random uuid, so any claimable row may come first.
ClaimSelect(w, m) ==
  /\ pc[w] = "claim"
  /\ Claimable(row[m])
  /\ job' = [job EXCEPT ![w] = m]
  /\ pc' = [pc EXCEPT ![w] = "update"]
  /\ UNCHANGED <<row, seen, fault, request, retries, crashes, observers>>

\* The conditional UPDATE and the commit, which also commits the
\* terminalization of the other rows.
ClaimUpdate(w) ==
  /\ pc[w] = "update"
  /\ Claimable(row[job[w]])
  /\ row' = [m \in Mails |-> IF m = job[w] THEN Claimed(row[m], w)
                                           ELSE Terminalized(row[m])]
  /\ overlap' = [m \in Mails |->
       overlap[m] \/ (Overtakes(m) /\ (m = job[w] \/ Exhausted(row[m])))]
  /\ pc' = [pc EXCEPT ![w] = "prepare"]
  /\ UNCHANGED <<job, seen, fault, request, retries, crashes, accepted, ambiguous, stale>>

\* The locals of one iteration go out of scope.
Forget(w) ==
  /\ job' = [job EXCEPT ![w] = NoOne]
  /\ seen' = [seen EXCEPT ![w] = 0]
  /\ fault' = [fault EXCEPT ![w] = "transient"]

\* rowcount # 1: everything rolls back and the batch breaks.
ClaimLost(w) ==
  /\ pc[w] = "update"
  /\ ~Claimable(row[job[w]])
  /\ pc' = [pc EXCEPT ![w] = "off"]
  /\ Forget(w)
  /\ UNCHANGED <<row, request, retries, crashes, observers>>

(***************************************************************************)
(* The attempt: _process_queue_locked after a successful claim.            *)
(***************************************************************************)
\* The row is read back, then its SMTP profile: loading it may fail, and an
\* absent, disabled or undecryptable profile is a permanent fault.
Prepare(w) ==
  /\ pc[w] = "prepare"
  /\ seen' = [seen EXCEPT ![w] = row[job[w]].attempts]
  /\ \/ /\ pc' = [pc EXCEPT ![w] = "send"]
        /\ UNCHANGED fault
     \/ \E k \in Faults :
          /\ pc' = [pc EXCEPT ![w] = "failed"]
          /\ fault' = [fault EXCEPT ![w] = k]
  /\ UNCHANGED <<row, job, request, retries, crashes, observers>>

SendAccepted(w) ==
  /\ pc[w] = "send"
  /\ accepted' = [accepted EXCEPT ![job[w]] = @ + 1]
  /\ pc' = [pc EXCEPT ![w] = "accepted"]
  /\ UNCHANGED <<row, job, seen, fault, request, retries, crashes, ambiguous, stale, overlap>>

\* Mutant: the exception of the SMTP backend is swallowed.
SendRefusedSilently(w, k) ==
  /\ pc[w] = "send"
  /\ k \in Faults
  /\ pc' = [pc EXCEPT ![w] = "accepted"]
  /\ UNCHANGED <<row, job, seen, fault, request, retries, crashes, observers>>

SendRefused(w, k) ==
  /\ pc[w] = "send"
  /\ fault' = [fault EXCEPT ![w] = k]
  /\ pc' = [pc EXCEPT ![w] = "failed"]
  /\ UNCHANGED <<row, job, seen, request, retries, crashes, observers>>

\* The server took the message but the reply never arrived: a timeout or a
\* lost connection, transient to _is_transient.
SendUnknown(w) ==
  /\ pc[w] = "send"
  /\ accepted' = [accepted EXCEPT ![job[w]] = @ + 1]
  /\ ambiguous' = [ambiguous EXCEPT ![job[w]] = TRUE]
  /\ fault' = [fault EXCEPT ![w] = "transient"]
  /\ pc' = [pc EXCEPT ![w] = "failed"]
  /\ UNCHANGED <<row, job, seen, request, retries, crashes, stale, overlap>>

\* Next iteration of the batch, or its end.
Continue(w) ==
  /\ \E next \in {"claim", "off"} : pc' = [pc EXCEPT ![w] = next]
  /\ Forget(w)

\* UPDATE ... WHERE id = ... AND lease_owner = worker_id, as SENT.
FinalizeSent(w) ==
  /\ pc[w] = "accepted"
  /\ row' = IF row[job[w]].owner = w
            THEN [row EXCEPT ![job[w]] = [@ EXCEPT !.status = "sent", !.owner = NoOne,
                                                   !.lease = "none"]]
            ELSE row
  /\ Continue(w)
  /\ UNCHANGED <<request, retries, crashes, observers>>

\* The SENT transaction raises and control enters the except branch.
FinalizeRaises(w, k) ==
  /\ pc[w] = "accepted"
  /\ ambiguous' = [ambiguous EXCEPT ![job[w]] = TRUE]
  /\ fault' = [fault EXCEPT ![w] = k]
  /\ pc' = [pc EXCEPT ![w] = "failed"]
  /\ UNCHANGED <<row, job, seen, request, retries, crashes, accepted, stale, overlap>>

\* The except branch: RETRY with a backoff, or DEAD.
FinalizeFailed(w) ==
  /\ pc[w] = "failed"
  /\ LET again == fault[w] = "transient" /\ seen[w] < MaxAttempts
     IN  row' = IF row[job[w]].owner = w
                THEN [row EXCEPT ![job[w]] =
                       [@ EXCEPT !.status = IF again THEN "retry" ELSE "dead",
                                 !.next = IF again THEN "future" ELSE "none",
                                 !.owner = NoOne, !.lease = "none"]]
                ELSE row
  /\ Continue(w)
  /\ UNCHANGED <<request, retries, crashes, observers>>

\* The process dies, is cancelled, or an exception leaves process_queue; the
\* kernel or the finally clause releases the lock, the row keeps its lease.
Crash(w) ==
  /\ pc[w] # "off"
  /\ crashes < MaxCrashes
  /\ crashes' = crashes + 1
  /\ ambiguous' = IF pc[w] = "accepted"
                  THEN [ambiguous EXCEPT ![job[w]] = TRUE] ELSE ambiguous
  /\ pc' = [pc EXCEPT ![w] = "off"]
  /\ Forget(w)
  /\ UNCHANGED <<row, request, retries, accepted, stale, overlap>>

(***************************************************************************)
(* Operators.                                                              *)
(***************************************************************************)
Retryable(r) == r.status \in {"dead", "retry"}

\* retry_mail, first half: session.get and the early return.
RetryRead(o, m) ==
  /\ request[o] = NoOne
  /\ retries < MaxRetries
  /\ Retryable(row[m])
  /\ request' = [request EXCEPT ![o] = [mail |-> m, snap |-> row[m]]]
  /\ UNCHANGED <<row, workerVars, retries, crashes, observers>>

\* The unit of work writes the columns whose value differs from the one it
\* loaded, to the row with that primary key, whatever the row holds by then.
Requeued(r, snap) ==
  [status |-> "pending",
   attempts |-> IF snap.attempts # 0 THEN 0 ELSE r.attempts,
   next |-> IF snap.next # "none" THEN "none" ELSE r.next,
   owner |-> IF snap.owner # NoOne THEN NoOne ELSE r.owner,
   lease |-> IF snap.lease # "none" THEN "none" ELSE r.lease]

\* retry_mail, second half: the commit.
RetryCommit(o) ==
  /\ request[o] # NoOne
  /\ retries < MaxRetries
  /\ retries' = retries + 1
  /\ LET m == request[o].mail
     IN  /\ row' = [row EXCEPT ![m] = Requeued(@, request[o].snap)]
         /\ stale' = [stale EXCEPT ![m] = @ \/ ~Retryable(row[m])]
  /\ request' = [request EXCEPT ![o] = NoOne]
  /\ UNCHANGED <<workerVars, crashes, accepted, ambiguous, overlap>>

\* cancel_mail: one conditional UPDATE; the lease columns are left alone.
CancelMail(m) ==
  /\ row[m].status \in {"pending", "retry", "dead"}
  /\ row' = [row EXCEPT ![m].status = "cancelled"]
  /\ UNCHANGED <<workerVars, request, retries, crashes, observers>>

-----------------------------------------------------------------------------
\* One step of run_queue_worker's loop body.
WorkerStep(w) ==
  \/ Start(w)
  \/ ClaimNone(w)
  \/ \E m \in Mails : ClaimSelect(w, m)
  \/ ClaimUpdate(w)
  \/ ClaimLost(w)
  \/ Prepare(w)
  \/ SendAccepted(w)
  \/ \E k \in Faults : SendRefused(w, k)
  \/ SendUnknown(w)
  \/ FinalizeSent(w)
  \/ \E k \in Faults : FinalizeRaises(w, k)
  \/ FinalizeFailed(w)

Next ==
  \/ \E w \in Workers : WorkerStep(w) \/ Crash(w)
  \/ \E m \in Mails : \/ Enqueue(m)
                      \/ LeaseExpires(m)
                      \/ BackoffElapses(m)
                      \/ CancelMail(m)
  \/ \E o \in Operators : \/ \E m \in Mails : RetryRead(o, m)
                          \/ RetryCommit(o)

Spec == Init /\ [][Next]_vars

\* run_queue_worker polls for ever, every SMTP exchange ends (it has a
\* timeout), and the clock advances.  Operators and crashes are not fair.
Fairness ==
  /\ WF_vars(\E w \in Workers : Start(w))
  /\ \A w \in Workers : WF_vars(WorkerStep(w) /\ pc[w] # "off")
  /\ \A m \in Mails : WF_vars(LeaseExpires(m)) /\ WF_vars(BackoffElapses(m))

FairSpec == Spec /\ Fairness

-----------------------------------------------------------------------------
(***************************************************************************)
(* Properties.                                                             *)
(***************************************************************************)
\* Every variable of the outbox model keeps its type.
TypeOK ==
  /\ row \in [Mails -> Row]
  /\ pc \in [Workers -> Steps]
  /\ job \in [Workers -> Mails \union {NoOne}]
  /\ \A w \in Workers : pc[w] \notin {"off", "claim"} => job[w] \in Mails
  /\ seen \in [Workers -> Nat]
  /\ fault \in [Workers -> Faults]
  /\ request \in [Operators -> Request \union {NoOne}]
  /\ retries \in Nat
  /\ crashes \in Nat
  /\ accepted \in [Mails -> Nat]
  /\ ambiguous \in [Mails -> BOOLEAN]
  /\ stale \in [Mails -> BOOLEAN]
  /\ overlap \in [Mails -> BOOLEAN]

\* No history of the mail that the lease protocol does not cover.
Orderly(m) == ~stale[m] /\ ~overlap[m]

\* While a worker works on a mail, from the claim to the finalizing UPDATE, the
\* row stays leased to it, unless a stale retry_mail commit hit the row or the
\* lease ran out and was taken over.  (process_queue finalizes WHERE
\* lease_owner = worker_id without looking at the status.)
ClaimHeld ==
  \A w \in Workers, m \in Mails :
    InFlight(w, m) /\ Orderly(m) => row[m].status = "leased" /\ row[m].owner = w

\* Where flock works, no lease is ever taken from a worker that is still in
\* flight, and two workers are never past the claim of one mail together.
SingleSender ==
  Flock => \A m \in Mails :
    /\ ~overlap[m]
    /\ \A v, w \in Workers : InFlight(v, m) /\ InFlight(w, m) => v = w

\* A row is marked SENT only after the SMTP server accepted the mail: neither
\* a takeover of the lease nor a failed attempt of another worker forges it.
SentIsTruthful ==
  \A m \in Mails : row[m].status = "sent" => accepted[m] > 0

\* The server accepts a mail twice only after an acceptance whose SENT commit
\* did not happen (docs/mail-outbox.md: the ambiguous crash), a stale retry_mail
\* commit, or the takeover of a live worker's lease.
DuplicateExplained ==
  \A m \in Mails : accepted[m] > 1 => ambiguous[m] \/ ~Orderly(m)

\* SENT and CANCELLED are final: only a stale retry_mail commit, or an attempt
\* it left in flight, moves a row out of them.
FinalStates ==
  [][\A m \in Mails :
       row[m].status \in {"sent", "cancelled"} /\ ~stale'[m]
         => row'[m].status = row[m].status]_vars

\* A row that two stale retry_mail commits left PENDING with its attempts used
\* up: _claim_one neither takes nor terminalizes it.
Abandoned(m) ==
  stale[m] /\ row[m].status = "pending" /\ row[m].attempts >= MaxAttempts

Settled(m) == row[m].status \in {"sent", "dead", "cancelled"}

\* Every enqueued mail is eventually sent, dead or cancelled, however often a
\* worker dies holding its lease, except the abandoned ones; and a mail is
\* abandoned only by retry_mail commits that overtook a worker.
EventuallySettled ==
  \A m \in Mails : row[m].status # "absent" ~> Settled(m) \/ Abandoned(m)
=============================================================================
