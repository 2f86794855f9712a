--------------------------- MODULE MailOutboxProofs ---------------------------
(***************************************************************************)
(* Machine-checked proofs about the mail outbox, for any number of mails,  *)
(* workers and operators and any bounds.                                   *)
(***************************************************************************)
EXTENDS MailOutbox, TLAPS

-----------------------------------------------------------------------------
(***************************************************************************)
(* Type correctness.                                                       *)
(***************************************************************************)
\* The initial state of the outbox is well typed.
LEMMA TypeOKInit == Init => TypeOK
  BY ConstantsAssumption
  DEF Init, TypeOK, Row, Absent, Statuses, Steps, Faults, Request, InFlightSteps

\* A requeued row of mail_queue is a row of mail_queue.
LEMMA RequeuedRow ==
  ASSUME NEW r \in Row, NEW snap \in Row
  PROVE  Requeued(r, snap) \in Row
  BY ConstantsAssumption DEF Row, Statuses, Requeued

\* The finalizing UPDATEs of process_queue write rows of mail_queue.
LEMMA FinalizedRow ==
  ASSUME NEW r \in Row
  PROVE  /\ [r EXCEPT !.status = "sent", !.owner = NoOne, !.lease = "none"] \in Row
         /\ \A s \in {"retry", "dead"}, n \in {"future", "none"} :
              [r EXCEPT !.status = s, !.next = n, !.owner = NoOne, !.lease = "none"] \in Row
  BY ConstantsAssumption DEF Row, Statuses

\* A row of mail_queue with one column changed by a producer, the clock or
\* cancel_mail is a row of mail_queue.
LEMMA ChangedRow ==
  ASSUME NEW r \in Row
  PROVE  /\ \A s \in Statuses : [r EXCEPT !.status = s] \in Row
         /\ [r EXCEPT !.lease = "expired"] \in Row
         /\ [r EXCEPT !.next = "past"] \in Row
  BY DEF Row

\* Terminalizing or claiming a row of mail_queue gives a row of mail_queue.
LEMMA RowOperations ==
  ASSUME NEW r \in Row, NEW w \in Workers
  PROVE  /\ Terminalized(r) \in Row
         /\ Claimed(r, w) \in Row
<1> USE ConstantsAssumption DEF Row, Statuses
<1>1. Terminalized(r) \in Row
  BY DEF Terminalized
<1>2. Claimed(r, w) \in Row
  <2>1. r.attempts + 1 \in Nat
    OBVIOUS
  <2>2. ASSUME NEW n \in Nat
        PROVE  [r EXCEPT !.status = "leased", !.owner = w, !.lease = "held",
                         !.attempts = n] \in Row
    OBVIOUS
  <2>. QED
    BY <2>1, <2>2 DEF Claimed
<1>. QED
  BY <1>1, <1>2

\* Every step of a worker, the clock, an operator or a producer keeps the types.
LEMMA TypeOKNext == TypeOK /\ [Next]_vars => TypeOK'
<1> SUFFICES ASSUME TypeOK, [Next]_vars PROVE TypeOK'
  OBVIOUS
<1> USE ConstantsAssumption DEF TypeOK, workerVars, observers
<1>r. \A r \in Row, w \in Workers : Terminalized(r) \in Row /\ Claimed(r, w) \in Row
  BY RowOperations
<1>1. ASSUME NEW w \in Workers, Start(w) PROVE TypeOK'
  BY <1>1 DEF Start, Steps
<1>2. ASSUME NEW w \in Workers, ClaimNone(w) PROVE TypeOK'
  BY <1>2, <1>r DEF ClaimNone, Steps
<1>3. ASSUME NEW w \in Workers, NEW m \in Mails, ClaimSelect(w, m) PROVE TypeOK'
  BY <1>3 DEF ClaimSelect, Steps
<1>4. ASSUME NEW w \in Workers, ClaimUpdate(w) PROVE TypeOK'
  BY <1>4, <1>r DEF ClaimUpdate, Steps, InFlightSteps
<1>5. ASSUME NEW w \in Workers, ClaimLost(w) PROVE TypeOK'
  BY <1>5 DEF ClaimLost, Forget, Steps, Faults
<1>6. ASSUME NEW w \in Workers, Prepare(w) PROVE TypeOK'
  BY <1>6 DEF Prepare, Steps, InFlightSteps, Row
<1>7. ASSUME NEW w \in Workers, SendAccepted(w) PROVE TypeOK'
  BY <1>7 DEF SendAccepted, Steps, InFlightSteps
<1>8. ASSUME NEW w \in Workers, NEW k \in Faults, SendRefused(w, k) PROVE TypeOK'
  BY <1>8 DEF SendRefused, Steps, InFlightSteps
<1>9. ASSUME NEW w \in Workers, SendUnknown(w) PROVE TypeOK'
  BY <1>9 DEF SendUnknown, Steps, InFlightSteps, Faults
<1>10. ASSUME NEW w \in Workers, FinalizeSent(w) PROVE TypeOK'
  <2>1. job[w] \in Mails /\ row[job[w]] \in Row
    BY <1>10 DEF FinalizeSent
  <2>2. [row[job[w]] EXCEPT !.status = "sent", !.owner = NoOne, !.lease = "none"] \in Row
    BY <2>1, FinalizedRow
  <2>3. row' \in [Mails -> Row]
    BY <1>10, <2>1, <2>2 DEF FinalizeSent
  <2>. QED
    BY <1>10, <2>3 DEF FinalizeSent, Continue, Forget, Steps, Faults
<1>11. ASSUME NEW w \in Workers, NEW k \in Faults, FinalizeRaises(w, k) PROVE TypeOK'
  BY <1>11 DEF FinalizeRaises, Steps, InFlightSteps
<1>12. ASSUME NEW w \in Workers, FinalizeFailed(w) PROVE TypeOK'
  <2>1. job[w] \in Mails /\ row[job[w]] \in Row
    BY <1>12 DEF FinalizeFailed
  <2>2. \A s \in {"retry", "dead"}, n \in {"future", "none"} :
          [row[job[w]] EXCEPT !.status = s, !.next = n,
                              !.owner = NoOne, !.lease = "none"] \in Row
    BY <2>1, FinalizedRow
  <2>3. row' \in [Mails -> Row]
    BY <1>12, <2>1, <2>2 DEF FinalizeFailed
  <2>. QED
    BY <1>12, <2>3 DEF FinalizeFailed, Continue, Forget, Steps, Faults
<1>13. ASSUME NEW w \in Workers, Crash(w) PROVE TypeOK'
  BY <1>13 DEF Crash, Forget, Steps, Faults
<1>14. ASSUME NEW m \in Mails, Enqueue(m) PROVE TypeOK'
  <2>1. [row[m] EXCEPT !.status = "pending"] \in Row
    BY ChangedRow DEF Statuses
  <2>2. row' \in [Mails -> Row]
    BY <1>14, <2>1 DEF Enqueue
  <2>. QED
    BY <1>14, <2>2 DEF Enqueue
<1>15. ASSUME NEW m \in Mails, LeaseExpires(m) \/ BackoffElapses(m) PROVE TypeOK'
  <2>1. [row[m] EXCEPT !.lease = "expired"] \in Row /\ [row[m] EXCEPT !.next = "past"] \in Row
    BY ChangedRow
  <2>2. row' \in [Mails -> Row]
    BY <1>15, <2>1 DEF LeaseExpires, BackoffElapses
  <2>. QED
    BY <1>15, <2>2 DEF LeaseExpires, BackoffElapses
<1>16. ASSUME NEW m \in Mails, CancelMail(m) PROVE TypeOK'
  <2>1. [row[m] EXCEPT !.status = "cancelled"] \in Row
    BY ChangedRow DEF Statuses
  <2>2. row' \in [Mails -> Row]
    BY <1>16, <2>1 DEF CancelMail
  <2>. QED
    BY <1>16, <2>2 DEF CancelMail
<1>17. ASSUME NEW o \in Operators, NEW m \in Mails, RetryRead(o, m) PROVE TypeOK'
  BY <1>17 DEF RetryRead, Request
<1>18. ASSUME NEW o \in Operators, RetryCommit(o) PROVE TypeOK'
  <2>1. request[o].mail \in Mails /\ request[o].snap \in Row
    BY <1>18 DEF RetryCommit, Request
  <2>2. Requeued(row[request[o].mail], request[o].snap) \in Row
    BY <2>1, RequeuedRow
  <2>3. row' \in [Mails -> Row]
    BY <1>18, <2>1, <2>2 DEF RetryCommit
  <2>. QED
    BY <1>18, <2>1, <2>3 DEF RetryCommit
<1>19. CASE UNCHANGED vars
  BY <1>19 DEF vars
<1>20. QED
  BY <1>1, <1>2, <1>3, <1>4, <1>5, <1>6, <1>7, <1>8, <1>9, <1>10, <1>11, <1>12,
     <1>13, <1>14, <1>15, <1>16, <1>17, <1>18, <1>19
  DEF Next, WorkerStep

\* Every reachable state of the outbox is well typed: in particular a worker
\* past the claim always holds a row, although ClaimLost returns without one.
THEOREM TypeCorrect == Spec => []TypeOK
  BY TypeOKInit, TypeOKNext, PTL DEF Spec

-----------------------------------------------------------------------------
(***************************************************************************)
(* The parts of the inductive invariant that are not properties            *)
(* themselves.                                                             *)
(***************************************************************************)
\* _worker_lock: with flock at most one worker is inside process_queue.
LockExclusive ==
  Flock => /\ \A v, w \in Workers : pc[v] # "off" /\ pc[w] # "off" => v = w
           /\ \A m \in Mails : ~overlap[m]

\* Only a leased row has an owner, unless a stale retry_mail commit hit it.
OwnerMeansLeased ==
  \A m \in Mails : ~stale[m] /\ row[m].owner # NoOne => row[m].status = "leased"

\* A worker that is about to write SENT has seen the mail accepted.
AcceptedIsRecorded ==
  \A w \in Workers : pc[w] = "accepted" => accepted[job[w]] > 0

\* An undisputed acceptance happens once, and its worker or the row knows it.
AcceptedOnce ==
  \A m \in Mails :
    ~ambiguous[m] /\ Orderly(m) /\ accepted[m] > 0
      => /\ accepted[m] = 1
         /\ \/ row[m].status = "sent"
            \/ \E w \in Workers : pc[w] = "accepted" /\ job[w] = m

-----------------------------------------------------------------------------
(***************************************************************************)
(* The lock.                                                               *)
(***************************************************************************)
\* No step lets a second worker past _worker_lock, so no lease is overtaken.
LEMMA LockStep ==
  TypeOK /\ LockExclusive /\ [Next]_vars => LockExclusive'
<1> SUFFICES ASSUME TypeOK, LockExclusive, [Next]_vars PROVE LockExclusive'
  OBVIOUS
<1> USE DEF TypeOK, LockExclusive, workerVars, observers
<1>1. ASSUME NEW w \in Workers, Start(w) PROVE LockExclusive'
  BY <1>1 DEF Start, LockFree
<1>2. ASSUME NEW w \in Workers, ClaimNone(w) PROVE LockExclusive'
  BY <1>2 DEF ClaimNone, Overtakes, InFlight, InFlightSteps
<1>3. ASSUME NEW w \in Workers, NEW m \in Mails, ClaimSelect(w, m) PROVE LockExclusive'
  BY <1>3 DEF ClaimSelect
<1>4. ASSUME NEW w \in Workers, ClaimUpdate(w) PROVE LockExclusive'
  BY <1>4 DEF ClaimUpdate, Overtakes, InFlight, InFlightSteps
<1>5. ASSUME NEW w \in Workers, NEW k \in Faults,
             \/ ClaimLost(w) \/ Prepare(w) \/ SendAccepted(w) \/ SendRefused(w, k)
             \/ SendUnknown(w) \/ FinalizeSent(w) \/ FinalizeRaises(w, k)
             \/ FinalizeFailed(w) \/ Crash(w)
      PROVE  LockExclusive'
  BY <1>5 DEF ClaimLost, Prepare, SendAccepted, SendRefused, SendUnknown, FinalizeSent,
              FinalizeRaises, FinalizeFailed, Crash, Continue
<1>6. CASE \/ UNCHANGED vars
           \/ \E m \in Mails : \/ Enqueue(m) \/ LeaseExpires(m)
                               \/ BackoffElapses(m) \/ CancelMail(m)
           \/ \E o \in Operators : \/ \E m \in Mails : RetryRead(o, m)
                                   \/ RetryCommit(o)
  BY <1>6 DEF vars, Enqueue, LeaseExpires, BackoffElapses, CancelMail, RetryRead,
              RetryCommit
<1>. QED
  BY <1>1, <1>2, <1>3, <1>4, <1>5, <1>6 DEF Next, WorkerStep, Faults

\* Where flock works, one mail is never in the hands of two workers, and no
\* live worker loses its lease, for any number of workers, crashes and retries.
THEOREM OneSenderPerMail == Spec => []SingleSender
<1>1. Init => LockExclusive
  BY DEF Init, LockExclusive
<1>2. LockExclusive => SingleSender
  BY DEF LockExclusive, SingleSender, InFlight, InFlightSteps
<1>. QED
  BY TypeOKInit, TypeOKNext, LockStep, <1>1, <1>2, PTL DEF Spec

-----------------------------------------------------------------------------
(***************************************************************************)
(* The lease.                                                              *)
(***************************************************************************)
\* Every step keeps a claim held, or records why it no longer is.
LEMMA ClaimStep ==
  TypeOK /\ ClaimHeld /\ [Next]_vars => ClaimHeld'
<1> SUFFICES ASSUME TypeOK, ClaimHeld, [Next]_vars,
                    NEW u \in Workers, NEW n \in Mails,
                    InFlight(u, n)', Orderly(n)'
             PROVE  row'[n].status = "leased" /\ row'[n].owner = u
  BY DEF ClaimHeld
<1> USE ConstantsAssumption DEF TypeOK, Orderly, InFlight, InFlightSteps, workerVars, observers
<1>h. ASSUME InFlight(u, n), Orderly(n) PROVE row[n].status = "leased" /\ row[n].owner = u
  BY <1>h DEF ClaimHeld
<1>1. ASSUME NEW w \in Workers, Start(w) PROVE row'[n].status = "leased" /\ row'[n].owner = u
  BY <1>1, <1>h DEF Start
<1>2. ASSUME NEW w \in Workers, ClaimNone(w)
      PROVE  row'[n].status = "leased" /\ row'[n].owner = u
  BY <1>2, <1>h DEF ClaimNone, Terminalized, Exhausted, Expired, Overtakes
<1>3. ASSUME NEW w \in Workers, NEW m \in Mails, ClaimSelect(w, m)
      PROVE  row'[n].status = "leased" /\ row'[n].owner = u
  BY <1>3, <1>h DEF ClaimSelect
<1>4. ASSUME NEW w \in Workers, ClaimUpdate(w)
      PROVE  row'[n].status = "leased" /\ row'[n].owner = u
  <2>1. CASE u = w
    <3>1. n = job[w] /\ row'[n] = Claimed(row[n], w)
      BY <1>4, <2>1 DEF ClaimUpdate
    <3>. QED
      BY <3>1, <2>1 DEF Claimed, Row
  <2>2. CASE u # w
    <3>1. InFlight(u, n) /\ Orderly(n)
      BY <1>4, <2>2 DEF ClaimUpdate
    <3>2. n # job[w]
      BY <3>1, <1>h, <1>4 DEF ClaimUpdate, Overtakes, Claimable, Ready, Expired
    <3>3. row'[n] = row[n]
      BY <3>1, <3>2, <1>4, <1>h DEF ClaimUpdate, Overtakes, Terminalized, Exhausted, Expired
    <3>. QED
      BY <3>1, <3>3, <1>h
  <2>. QED
    BY <2>1, <2>2
<1>5. ASSUME NEW w \in Workers, NEW k \in Faults,
             \/ ClaimLost(w) \/ Prepare(w) \/ SendAccepted(w) \/ SendRefused(w, k)
             \/ SendUnknown(w) \/ FinalizeRaises(w, k) \/ Crash(w)
      PROVE  row'[n].status = "leased" /\ row'[n].owner = u
  BY <1>5, <1>h DEF ClaimLost, Prepare, SendAccepted, SendRefused, SendUnknown,
                    FinalizeRaises, Crash, Forget
<1>6. ASSUME NEW w \in Workers, FinalizeSent(w) \/ FinalizeFailed(w)
      PROVE  row'[n].status = "leased" /\ row'[n].owner = u
  <2>1. InFlight(u, n) /\ Orderly(n) /\ u # w
    BY <1>6 DEF FinalizeSent, FinalizeFailed, Continue, Forget
  <2>2. row'[n] = row[n]
    BY <1>6, <2>1, <1>h DEF FinalizeSent, FinalizeFailed
  <2>. QED
    BY <2>1, <2>2, <1>h
<1>7. ASSUME NEW m \in Mails,
             Enqueue(m) \/ LeaseExpires(m) \/ BackoffElapses(m) \/ CancelMail(m)
      PROVE  row'[n].status = "leased" /\ row'[n].owner = u
  <2>1. InFlight(u, n) /\ Orderly(n)
    BY <1>7 DEF Enqueue, LeaseExpires, BackoffElapses, CancelMail
  <2>2. row'[n].status = row[n].status /\ row'[n].owner = row[n].owner
    <3>1. CASE Enqueue(m) \/ CancelMail(m)
      BY <3>1, <2>1, <1>h DEF Enqueue, CancelMail
    <3>2. CASE LeaseExpires(m)
      BY <3>2 DEF LeaseExpires, Row
    <3>3. CASE BackoffElapses(m)
      BY <3>3 DEF BackoffElapses, Row
    <3>. QED
      BY <1>7, <3>1, <3>2, <3>3
  <2>. QED
    BY <2>1, <2>2, <1>h
<1>8. ASSUME NEW o \in Operators, RetryCommit(o)
      PROVE  row'[n].status = "leased" /\ row'[n].owner = u
  <2>1. InFlight(u, n) /\ Orderly(n)
    BY <1>8 DEF RetryCommit, Request
  <2>2. n # request[o].mail
    BY <1>8, <2>1, <1>h DEF RetryCommit, Retryable, Request
  <2>. QED
    BY <1>8, <2>1, <2>2, <1>h DEF RetryCommit, Request
<1>9. CASE UNCHANGED vars \/ \E o \in Operators, m \in Mails : RetryRead(o, m)
  BY <1>9, <1>h DEF vars, RetryRead
<1>. QED
  BY <1>1, <1>2, <1>3, <1>4, <1>5, <1>6, <1>7, <1>8, <1>9 DEF Next, WorkerStep, Faults

\* While a worker works on a mail its row stays leased to it, unless a stale
\* retry_mail commit or the takeover of an expired lease intervened.
THEOREM ClaimStaysHeld == Spec => []ClaimHeld
<1>1. Init => ClaimHeld
  BY DEF Init, ClaimHeld, InFlight, InFlightSteps
<1>. QED
  BY TypeOKInit, TypeOKNext, ClaimStep, <1>1, PTL DEF Spec

-----------------------------------------------------------------------------
(***************************************************************************)
(* Acceptance by the SMTP server.                                          *)
(***************************************************************************)
\* A row that becomes SENT was written by a worker whose mail was accepted.
LEMMA SentStep ==
  TypeOK /\ AcceptedIsRecorded /\ SentIsTruthful /\ [Next]_vars
    => AcceptedIsRecorded' /\ SentIsTruthful'
<1> DEFINE Both == AcceptedIsRecorded /\ SentIsTruthful
<1> SUFFICES ASSUME TypeOK, Both, [Next]_vars PROVE Both'
  OBVIOUS
<1> USE DEF TypeOK, AcceptedIsRecorded, SentIsTruthful, workerVars, observers
<1>1. ASSUME NEW w \in Workers, NEW k \in Faults,
             \/ Start(w) \/ \E m \in Mails : ClaimSelect(w, m)
             \/ ClaimLost(w) \/ Prepare(w) \/ SendRefused(w, k)
             \/ FinalizeRaises(w, k) \/ Crash(w)
      PROVE  Both'
  BY <1>1 DEF Start, ClaimSelect, ClaimLost, Prepare, SendRefused, FinalizeRaises, Crash,
              Forget
<1>2. ASSUME NEW w \in Workers, SendAccepted(w) \/ SendUnknown(w) PROVE Both'
  <2>1. job[w] \in Mails /\ accepted' = [accepted EXCEPT ![job[w]] = accepted[job[w]] + 1]
    BY <1>2 DEF SendAccepted, SendUnknown
  <2>2. /\ accepted'[job[w]] > 0
        /\ \A m \in Mails : accepted[m] > 0 => accepted'[m] > 0
    BY <2>1
  <2>. QED
    BY <1>2, <2>1, <2>2 DEF SendAccepted, SendUnknown
<1>3. ASSUME NEW w \in Workers, ClaimNone(w) \/ ClaimUpdate(w) PROVE Both'
  <2>1. \A m \in Mails : row'[m].status = "sent" => row[m].status = "sent"
    <3>1. CASE ClaimNone(w)
      BY <3>1, ZenonT(60) DEF ClaimNone, Terminalized, Row
    <3>2. CASE ClaimUpdate(w)
      BY <3>2, ZenonT(60) DEF ClaimUpdate, Terminalized, Claimed, Row
    <3>. QED
      BY <1>3, <3>1, <3>2
  <2>. QED
    BY <1>3, <2>1 DEF ClaimNone, ClaimUpdate
<1>4. ASSUME NEW w \in Workers, FinalizeSent(w) PROVE Both'
  <2>1. job[w] \in Mails /\ accepted[job[w]] > 0
    BY <1>4 DEF FinalizeSent
  <2>2. \A m \in Mails : m # job[w] => row'[m] = row[m]
    BY <1>4, <2>1 DEF FinalizeSent
  <2>. QED
    BY <1>4, <2>1, <2>2 DEF FinalizeSent, Continue, Forget
<1>5. ASSUME NEW w \in Workers, FinalizeFailed(w) PROVE Both'
  <2>1. \A m \in Mails : row'[m].status = "sent" => row[m].status = "sent"
    BY <1>5 DEF FinalizeFailed, Row
  <2>. QED
    BY <1>5, <2>1 DEF FinalizeFailed, Continue, Forget
<1>6. ASSUME NEW m \in Mails,
             Enqueue(m) \/ LeaseExpires(m) \/ BackoffElapses(m) \/ CancelMail(m)
      PROVE  Both'
  <2>1. \A n \in Mails : row'[n].status = "sent" => row[n].status = "sent"
    <3>1. CASE Enqueue(m) \/ CancelMail(m)
      BY <3>1 DEF Enqueue, CancelMail, Row
    <3>2. CASE LeaseExpires(m)
      BY <3>2 DEF LeaseExpires, Row
    <3>3. CASE BackoffElapses(m)
      BY <3>3 DEF BackoffElapses, Row
    <3>. QED
      BY <1>6, <3>1, <3>2, <3>3
  <2>. QED
    BY <1>6, <2>1 DEF Enqueue, LeaseExpires, BackoffElapses, CancelMail
<1>7. ASSUME NEW o \in Operators, RetryCommit(o) PROVE Both'
  <2>1. \A n \in Mails : row'[n].status = "sent" => row[n].status = "sent"
    BY <1>7 DEF RetryCommit, Requeued, Request
  <2>. QED
    BY <1>7, <2>1 DEF RetryCommit
<1>8. CASE UNCHANGED vars \/ \E o \in Operators, m \in Mails : RetryRead(o, m)
  BY <1>8 DEF vars, RetryRead
<1>. QED
  BY <1>1, <1>2, <1>3, <1>4, <1>5, <1>6, <1>7, <1>8 DEF Next, WorkerStep, Faults

\* A SENT row was accepted by the SMTP server: neither a takeover nor the failed
\* attempt of another worker forges the SENT status.
THEOREM SentWasAccepted == Spec => []SentIsTruthful
<1>1. Init => AcceptedIsRecorded /\ SentIsTruthful
  BY DEF Init, AcceptedIsRecorded, SentIsTruthful, Absent
<1>. QED
  BY TypeOKInit, TypeOKNext, SentStep, <1>1, PTL DEF Spec

\* An acceptance that nothing disputes stays the only one.
LEMMA OnceStep ==
  TypeOK /\ ClaimHeld /\ AcceptedOnce /\ [Next]_vars => AcceptedOnce'
<1> SUFFICES ASSUME TypeOK, ClaimHeld, AcceptedOnce, [Next]_vars,
                    NEW n \in Mails, ~ambiguous'[n], Orderly(n)', accepted'[n] > 0
             PROVE  /\ accepted'[n] = 1
                    /\ \/ row'[n].status = "sent"
                       \/ \E w \in Workers : pc'[w] = "accepted" /\ job'[w] = n
  BY DEF AcceptedOnce
<1> DEFINE Goal == /\ accepted'[n] = 1
                   /\ \/ row'[n].status = "sent"
                      \/ \E w \in Workers : pc'[w] = "accepted" /\ job'[w] = n
<1> USE ConstantsAssumption
    DEF TypeOK, Orderly, InFlight, InFlightSteps, workerVars, observers
<1>h. ASSUME ~ambiguous[n], Orderly(n), accepted[n] > 0
      PROVE  /\ accepted[n] = 1
             /\ \/ row[n].status = "sent"
                \/ \E w \in Workers : pc[w] = "accepted" /\ job[w] = n
  BY <1>h DEF AcceptedOnce
<1>c. ASSUME NEW w \in Workers, pc[w] \in InFlightSteps, job[w] = n, Orderly(n)
      PROVE  row[n].status = "leased" /\ row[n].owner = w
  BY <1>c DEF ClaimHeld
<1>1. ASSUME NEW w \in Workers, NEW k \in Faults,
             \/ Start(w) \/ \E m \in Mails : ClaimSelect(w, m)
             \/ ClaimLost(w) \/ Prepare(w) \/ SendRefused(w, k)
             \/ FinalizeRaises(w, k) \/ Crash(w)
      PROVE  Goal
  <2>1. /\ accepted' = accepted /\ row' = row /\ ~ambiguous[n] /\ Orderly(n)
        /\ \A v \in Workers : pc[v] = "accepted" /\ job[v] = n
                              => pc'[v] = "accepted" /\ job'[v] = n
    BY <1>1 DEF Start, ClaimSelect, ClaimLost, Prepare, SendRefused, FinalizeRaises, Crash,
                Forget
  <2>. QED
    BY <2>1, <1>h
<1>2. ASSUME NEW w \in Workers, SendAccepted(w) PROVE Goal
  <2>1. ~ambiguous[n] /\ Orderly(n) /\ row' = row /\ job' = job /\ job[w] \in Mails
    BY <1>2 DEF SendAccepted
  <2>2. CASE job[w] # n
    BY <1>2, <2>1, <2>2, <1>h DEF SendAccepted
  <2>3. CASE job[w] = n
    <3>1. row[n].status = "leased" /\ row[n].owner = w
      BY <1>2, <2>1, <2>3, <1>c DEF SendAccepted
    <3>2. ~(accepted[n] > 0)
      BY <1>2, <2>1, <3>1, <1>h, <1>c DEF SendAccepted
    <3>3. accepted[n] = 0 /\ accepted'[n] = accepted[n] + 1
      BY <1>2, <2>3, <3>2 DEF SendAccepted
    <3>. QED
      BY <1>2, <2>1, <2>3, <3>3 DEF SendAccepted
  <2>. QED
    BY <2>2, <2>3
<1>3. ASSUME NEW w \in Workers, SendUnknown(w) PROVE Goal
  <2>1. /\ ~ambiguous[n] /\ Orderly(n) /\ row' = row /\ job' = job
        /\ job[w] # n /\ accepted'[n] = accepted[n]
    BY <1>3 DEF SendUnknown
  <2>. QED
    BY <1>3, <2>1, <1>h DEF SendUnknown
<1>4. ASSUME NEW w \in Workers, ClaimNone(w) \/ ClaimUpdate(w) PROVE Goal
  <2>1. ~ambiguous[n] /\ Orderly(n) /\ accepted' = accepted /\ job' = job
    BY <1>4 DEF ClaimNone, ClaimUpdate
  <2>2. \A v \in Workers : pc[v] = "accepted" => pc'[v] = "accepted"
    BY <1>4 DEF ClaimNone, ClaimUpdate
  <2>3. row[n].status = "sent" => row'[n].status = "sent"
    <3>1. CASE ClaimNone(w)
      BY <3>1 DEF ClaimNone, Terminalized, Exhausted, Expired
    <3>2. CASE ClaimUpdate(w)
      BY <3>2 DEF ClaimUpdate, Terminalized, Exhausted, Expired, Claimable, Ready
    <3>. QED
      BY <1>4, <3>1, <3>2
  <2>. QED
    BY <2>1, <2>2, <2>3, <1>h
<1>5. ASSUME NEW w \in Workers, FinalizeSent(w) PROVE Goal
  <2>1. ~ambiguous[n] /\ Orderly(n) /\ accepted' = accepted /\ job[w] \in Mails
    BY <1>5 DEF FinalizeSent
  <2>2. \A v \in Workers : v # w => pc'[v] = pc[v] /\ job'[v] = job[v]
    BY <1>5 DEF FinalizeSent, Continue, Forget
  <2>3. CASE job[w] = n
    <3>1. row[n].owner = w
      BY <1>5, <2>1, <2>3, <1>c DEF FinalizeSent
    <3>2. row'[n].status = "sent"
      BY <1>5, <2>3, <3>1 DEF FinalizeSent, Row
    <3>. QED
      BY <2>1, <3>2, <1>h
  <2>4. CASE job[w] # n
    <3>1. row'[n] = row[n]
      BY <1>5, <2>1, <2>4 DEF FinalizeSent
    <3>. QED
      BY <2>1, <2>2, <2>4, <3>1, <1>h
  <2>. QED
    BY <2>3, <2>4
<1>6. ASSUME NEW w \in Workers, FinalizeFailed(w) PROVE Goal
  <2>1. ~ambiguous[n] /\ Orderly(n) /\ accepted' = accepted /\ job[w] \in Mails
    BY <1>6 DEF FinalizeFailed
  <2>2. \A v \in Workers : pc[v] = "accepted" => pc'[v] = pc[v] /\ job'[v] = job[v]
    BY <1>6 DEF FinalizeFailed, Continue, Forget
  <2>3. row[n].status = "sent" => row'[n] = row[n]
    BY <1>6, <2>1, <1>c DEF FinalizeFailed
  <2>. QED
    BY <2>1, <2>2, <2>3, <1>h
<1>7. ASSUME NEW m \in Mails,
             Enqueue(m) \/ LeaseExpires(m) \/ BackoffElapses(m) \/ CancelMail(m)
      PROVE  Goal
  <2>1. /\ ~ambiguous[n] /\ Orderly(n) /\ accepted' = accepted
        /\ pc' = pc /\ job' = job
    BY <1>7 DEF Enqueue, LeaseExpires, BackoffElapses, CancelMail
  <2>2. row[n].status = "sent" => row'[n].status = "sent"
    <3>1. CASE Enqueue(m) \/ CancelMail(m)
      BY <3>1 DEF Enqueue, CancelMail
    <3>2. CASE LeaseExpires(m)
      BY <3>2 DEF LeaseExpires, Row
    <3>3. CASE BackoffElapses(m)
      BY <3>3 DEF BackoffElapses, Row
    <3>. QED
      BY <1>7, <3>1, <3>2, <3>3
  <2>. QED
    BY <2>1, <2>2, <1>h
<1>8. ASSUME NEW o \in Operators, RetryCommit(o) PROVE Goal
  <2>1. /\ ~ambiguous[n] /\ Orderly(n) /\ accepted' = accepted
        /\ pc' = pc /\ job' = job
    BY <1>8 DEF RetryCommit, Request
  <2>2. row[n].status = "sent" => row'[n] = row[n]
    BY <1>8 DEF RetryCommit, Retryable, Request
  <2>. QED
    BY <2>1, <2>2, <1>h
<1>9. CASE UNCHANGED vars \/ \E o \in Operators, m \in Mails : RetryRead(o, m)
  BY <1>9, <1>h DEF vars, RetryRead
<1>. QED
  BY <1>1, <1>2, <1>3, <1>4, <1>5, <1>6, <1>7, <1>8, <1>9 DEF Next, WorkerStep, Faults

\* A mail is accepted twice only after an acceptance without its SENT commit, a
\* stale retry_mail commit or the takeover of a live worker's lease.
THEOREM DuplicatesAreExplained == Spec => []DuplicateExplained
<1>1. Init => ClaimHeld /\ AcceptedOnce
  BY DEF Init, ClaimHeld, AcceptedOnce, InFlight, InFlightSteps
<1>2. TypeOK /\ AcceptedOnce => DuplicateExplained
  BY DEF TypeOK, AcceptedOnce, DuplicateExplained
<1>. QED
  BY TypeOKInit, TypeOKNext, ClaimStep, OnceStep, <1>1, <1>2, PTL DEF Spec

-----------------------------------------------------------------------------
(***************************************************************************)
(* Final states.                                                           *)
(***************************************************************************)
\* What one step does to one row, as long as no stale retry_mail commit hit it.
RowStep(r, s) ==
  \/ s.status = r.status /\ s.owner = r.owner
  \/ /\ r.status \notin {"sent", "cancelled"}
     /\ s.status = "leased" \/ s.owner = NoOne

\* Terminalizing and claiming are such steps.
LEMMA ClaimRowSteps ==
  ASSUME NEW r \in Row, NEW w \in Workers
  PROVE  RowStep(r, Terminalized(r)) /\ (Claimable(r) => RowStep(r, Claimed(r, w)))
<1>1. RowStep(r, Terminalized(r))
  BY DEF RowStep, Terminalized, Exhausted, Expired, Row
<1>2. Claimed(r, w).status = "leased"
  BY DEF Claimed, Row
<1>. QED
  BY <1>1, <1>2 DEF RowStep, Claimable, Ready, Expired

\* Every step is such a step on every row.
LEMMA EveryRowSteps ==
  ASSUME TypeOK, OwnerMeansLeased, [Next]_vars, NEW n \in Mails, ~stale'[n]
  PROVE  RowStep(row[n], row'[n]) /\ ~stale[n]
<1> USE ConstantsAssumption DEF TypeOK, workerVars, observers
<1> DEFINE Goal == RowStep(row[n], row'[n]) /\ ~stale[n]
<1>1. ASSUME NEW w \in Workers, NEW k \in Faults,
             \/ Start(w) \/ \E m \in Mails : ClaimSelect(w, m)
             \/ ClaimLost(w) \/ Prepare(w) \/ SendRefused(w, k) \/ SendAccepted(w)
             \/ SendUnknown(w) \/ FinalizeRaises(w, k) \/ Crash(w)
      PROVE  Goal
  BY <1>1 DEF RowStep, Start, ClaimSelect, ClaimLost, Prepare, SendRefused, SendAccepted,
              SendUnknown, FinalizeRaises, Crash
<1>2. ASSUME NEW w \in Workers, ClaimNone(w) PROVE Goal
  <2>1. row[n] \in Row /\ row'[n] = Terminalized(row[n]) /\ ~stale[n]
    BY <1>2 DEF ClaimNone
  <2>. QED
    BY <2>1, ClaimRowSteps, <1>2
<1>3. ASSUME NEW w \in Workers, ClaimUpdate(w) PROVE Goal
  <2>1. /\ row[n] \in Row /\ ~stale[n]
        /\ \/ row'[n] = Terminalized(row[n])
           \/ Claimable(row[n]) /\ row'[n] = Claimed(row[n], w)
    BY <1>3 DEF ClaimUpdate
  <2>. QED
    BY <2>1, ClaimRowSteps, <1>3
<1>4. ASSUME NEW w \in Workers, FinalizeSent(w) PROVE Goal
  BY <1>4 DEF RowStep, FinalizeSent, Row, OwnerMeansLeased
<1>5. ASSUME NEW w \in Workers, FinalizeFailed(w) PROVE Goal
  BY <1>5 DEF RowStep, FinalizeFailed, Row, OwnerMeansLeased
<1>6. ASSUME NEW m \in Mails, Enqueue(m) \/ CancelMail(m) PROVE Goal
  <2>1. CASE n # m
    BY <1>6, <2>1 DEF RowStep, Enqueue, CancelMail
  <2>2. CASE n = m
    <3>1. row[n].owner = NoOne /\ row[n].status \notin {"sent", "cancelled"} /\ ~stale[n]
      BY <1>6, <2>2 DEF Enqueue, CancelMail, OwnerMeansLeased, Row
    <3>2. row'[n].owner = row[n].owner
      BY <1>6, <2>2 DEF Enqueue, CancelMail, Row
    <3>. QED
      BY <3>1, <3>2 DEF RowStep
  <2>. QED
    BY <2>1, <2>2
<1>7. ASSUME NEW m \in Mails, LeaseExpires(m) PROVE Goal
  BY <1>7 DEF RowStep, LeaseExpires, Row
<1>8. ASSUME NEW m \in Mails, BackoffElapses(m) PROVE Goal
  BY <1>8 DEF RowStep, BackoffElapses, Row
<1>9. ASSUME NEW o \in Operators, RetryCommit(o) PROVE Goal
  <2>1. request[o].mail \in Mails /\ request[o].snap \in Row
    BY <1>9 DEF RetryCommit, Request
  <2>2. CASE n = request[o].mail
    BY <1>9, <2>1, <2>2 DEF RowStep, RetryCommit, Requeued, Retryable, OwnerMeansLeased
  <2>3. CASE n # request[o].mail
    BY <1>9, <2>1, <2>3 DEF RowStep, RetryCommit
  <2>. QED
    BY <2>2, <2>3
<1>10. CASE UNCHANGED vars \/ \E o \in Operators, m \in Mails : RetryRead(o, m)
  BY <1>10 DEF RowStep, vars, RetryRead
<1>. QED
  BY <1>1, <1>2, <1>3, <1>4, <1>5, <1>6, <1>7, <1>8, <1>9, <1>10
  DEF Next, WorkerStep, Faults

\* SENT and CANCELLED are final, whatever workers, clocks and operators do, as
\* long as no stale retry_mail commit hits the row.
THEOREM FinalStatesHold == Spec => FinalStates
<1>1. Init => OwnerMeansLeased
  BY DEF Init, OwnerMeansLeased, Absent
<1>2. TypeOK /\ OwnerMeansLeased /\ [Next]_vars => OwnerMeansLeased'
  BY EveryRowSteps DEF OwnerMeansLeased, RowStep
<1>3. TypeOK /\ OwnerMeansLeased /\ [Next]_vars =>
        [\A m \in Mails : row[m].status \in {"sent", "cancelled"} /\ ~stale'[m]
                          => row'[m].status = row[m].status]_vars
  BY EveryRowSteps DEF RowStep
<1>. QED
  BY TypeOKInit, TypeOKNext, <1>1, <1>2, <1>3, PTL DEF Spec, FinalStates
=============================================================================
