---------------------------- MODULE PluginProofs ----------------------------
(***************************************************************************)
(* Machine-checked proofs about plugins: their jobs, their packages and    *)
(* their processes, for any number of jobs, servers, versions, kills,      *)
(* administrators and processes.                                           *)
(***************************************************************************)
EXTENDS PluginJobs, PluginPackage, PluginRuntime, TLAPS, FiniteSetTheorems

-----------------------------------------------------------------------------
(***************************************************************************)
(* Jobs: the parts of the inductive invariant.                             *)
(***************************************************************************)
JobRow ==
  [status: OpenJobs \union {"none", "dead", "cancelled", "succeeded"},
   attempts: 0..JobAttempts, lapsed: BOOLEAN]
Runner ==
  [phase: {"polling", "claimed", "asked", "ok", "error", "ended"}, job: Jobs \union {"none"}]

JobTypes ==
  /\ job \in [Jobs -> JobRow]
  /\ runner \in [JobWorkers -> Runner]
  /\ \A w \in JobWorkers : runner[w].phase # "polling" => runner[w].job \in Jobs
  /\ done \in [Jobs -> Nat]
  /\ excused \in SUBSET Jobs

Busy(w, j) == runner[w].job = j /\ runner[w].phase \in {"claimed", "asked", "ok", "error"}

LapseExcused == \A j \in Jobs : job[j].lapsed => j \in excused

\* A job that has no excuse runs as long as a worker has it, and one has it.
JobHeld ==
  \A j \in Jobs : j \notin excused =>
    \A w \in JobWorkers : Busy(w, j) =>
      /\ job[j].status = "running"
      /\ \A v \in JobWorkers : Busy(v, j) => v = w

\* It was done when it succeeded, or when its worker has heard so.
DoneOnce ==
  \A j \in Jobs : j \notin excused /\ done[j] > 0 =>
    /\ done[j] = 1
    /\ \/ job[j].status = "succeeded"
       \/ \E w \in JobWorkers : Busy(w, j) /\ runner[w].phase = "ok"

\* A success was done.
SuccessDone ==
  /\ \A j \in Jobs : job[j].status = "succeeded" => done[j] >= 1
  /\ \A w \in JobWorkers : runner[w].phase = "ok" => done[runner[w].job] >= 1

EndedExcused == \A w \in JobWorkers : runner[w].phase = "ended" => runner[w].job \in excused

JobsInv == JobTypes /\ LapseExcused /\ JobHeld /\ DoneOnce /\ SuccessDone /\ EndedExcused

-----------------------------------------------------------------------------
\* Every write to plugin_jobs writes a job.
LEMMA JobOperations ==
  ASSUME NEW r \in JobRow
  PROVE  /\ NoJob \in JobRow /\ NoJob.status = "none" /\ ~NoJob.lapsed
         /\ [NoJob EXCEPT !.status = "pending"] \in JobRow
         /\ [NoJob EXCEPT !.status = "pending"].status = "pending"
         /\ ~[NoJob EXCEPT !.status = "pending"].lapsed
         /\ [r EXCEPT !.lapsed = TRUE] \in JobRow /\ [r EXCEPT !.lapsed = TRUE].status = r.status
         /\ Deferred(r) \in JobRow /\ Deferred(r).status = "pending" /\ ~Deferred(r).lapsed
         /\ \A s \in {"dead", "cancelled"} :
              JobEnded(r, s) \in JobRow /\ JobEnded(r, s).status = s /\ ~JobEnded(r, s).lapsed
<1>1. 0 \in 0..JobAttempts
  BY JobsAssumption
<1>2. (IF r.attempts = 0 THEN 0 ELSE r.attempts - 1) \in 0..JobAttempts
  BY JobsAssumption DEF JobRow
<1>. QED
  BY <1>1, <1>2 DEF JobRow, NoJob, Deferred, JobEnded, OpenJobs

\* finish_job: a success, a retry, or the end of the attempts.
LEMMA FinishedJob ==
  ASSUME NEW r \in JobRow, NEW ok \in BOOLEAN
  PROVE  /\ Finished(r, ok) \in JobRow /\ ~Finished(r, ok).lapsed
         /\ ok => Finished(r, ok).status = "succeeded"
         /\ ~ok => Finished(r, ok).status \in {"dead", "retry"}
  BY DEF JobRow, Finished, OpenJobs

\* claim_due_job counts an attempt while there is one left.
LEMMA ClaimedJob ==
  ASSUME NEW r \in JobRow, r.attempts < JobAttempts
  PROVE  LET c == [status |-> "running", lapsed |-> FALSE, attempts |-> r.attempts + 1]
         IN  c \in JobRow /\ c.status = "running" /\ ~c.lapsed
  BY JobsAssumption DEF JobRow, OpenJobs

\* What a worker's loop holds.
LEMMA RunnerOperations ==
  /\ Polling \in Runner /\ Polling.phase = "polling"
  /\ \A j \in Jobs, p \in {"claimed", "asked", "ok", "error", "ended"} :
       /\ [phase |-> p, job |-> j] \in Runner
       /\ [phase |-> p, job |-> j].phase = p /\ [phase |-> p, job |-> j].job = j
  BY DEF Runner, Polling

\* Nothing is scheduled.
LEMMA JobsInitInv == JobsInit => JobsInv
<1> SUFFICES ASSUME JobsInit PROVE JobsInv
  OBVIOUS
<1>1. NoJob \in JobRow /\ NoJob.status = "none" /\ ~NoJob.lapsed
  <2>1. 0 \in 0..JobAttempts
    BY JobsAssumption
  <2>. QED
    BY <2>1 DEF JobRow, NoJob
<1>2. Polling \in Runner /\ Polling.phase = "polling"
  BY RunnerOperations
<1>3. /\ \A j \in Jobs : job[j] = NoJob /\ done[j] = 0
      /\ \A w \in JobWorkers : runner[w] = Polling
  BY DEF JobsInit
<1>4. JobTypes
  BY <1>1, <1>2, <1>3 DEF JobsInit, JobTypes
<1>. QED
  BY <1>1, <1>2, <1>3, <1>4
  DEF JobsInv, LapseExcused, JobHeld, DoneOnce, SuccessDone, EndedExcused, Busy

-----------------------------------------------------------------------------
(***************************************************************************)
(* Jobs: each action.                                                      *)
(***************************************************************************)

\* An action that leaves jobs, loops and the record of what was done alone.
LEMMA JobsUntouched ==
  ASSUME JobsInv, UNCHANGED <<job, runner, done, excused>>
  PROVE  JobsInv'
  BY DEF JobsInv, JobTypes, LapseExcused, JobHeld, DoneOnce, SuccessDone, EndedExcused, Busy

\* A job nobody holds and that has no excuse was not done, unless it succeeded.
LEMMA FreeJob ==
  ASSUME JobsInv, NEW j \in Jobs, j \notin excused, job[j].status \notin {"running", "succeeded"}
  PROVE  done[j] = 0 /\ \A w \in JobWorkers : ~Busy(w, j)
<1>1. \A w \in JobWorkers : ~Busy(w, j)
  BY DEF JobsInv, JobHeld
<1>2. done[j] \in Nat
  BY DEF JobsInv, JobTypes
<1>. QED
  BY <1>1, <1>2 DEF JobsInv, DoneOnce

\* schedule_job writes a row that was not there.
LEMMA ScheduleJobStep ==
  ASSUME JobsInv, NEW j \in Jobs, ScheduleJob(j)
  PROVE  JobsInv'
<1>. DEFINE new == [NoJob EXCEPT !.status = "pending"]
<1>1. job[j] \in JobRow /\ job[j].status = "none"
  BY DEF JobsInv, JobTypes, ScheduleJob
<1>2. new \in JobRow /\ new.status = "pending" /\ ~new.lapsed
  BY <1>1, JobOperations
<1>3. /\ job' = [job EXCEPT ![j] = new]
      /\ UNCHANGED <<runner, done, excused>>
  BY DEF ScheduleJob
<1>. HIDE DEF new
<1>4. JobTypes'
  BY <1>2, <1>3 DEF JobsInv, JobTypes
<1>5. job'[j] = new /\ \A i \in Jobs : i # j => job'[i] = job[i]
  BY <1>3 DEF JobsInv, JobTypes
<1>6. LapseExcused'
  BY <1>2, <1>3, <1>5 DEF JobsInv, LapseExcused
<1>7. j \notin excused => done[j] = 0 /\ \A w \in JobWorkers : ~Busy(w, j)
  BY <1>1, FreeJob
<1>8. \A w \in JobWorkers, i \in Jobs : Busy(w, i)' <=> Busy(w, i)
  BY <1>3 DEF Busy
<1>9. JobHeld'
  BY <1>3, <1>5, <1>7, <1>8 DEF JobsInv, JobHeld
<1>10. DoneOnce'
  BY <1>3, <1>5, <1>7, <1>8 DEF JobsInv, DoneOnce
<1>11. SuccessDone' /\ EndedExcused'
  BY <1>2, <1>3, <1>5 DEF JobsInv, SuccessDone, EndedExcused
<1>. QED
  BY <1>4, <1>6, <1>9, <1>10, <1>11 DEF JobsInv

\* A lease that runs out excuses what follows.
LEMMA JobLeaseLapsesStep ==
  ASSUME JobsInv, NEW j \in Jobs, JobLeaseLapses(j)
  PROVE  JobsInv'
<1>. DEFINE new == [job[j] EXCEPT !.lapsed = TRUE]
<1>1. job[j] \in JobRow
  BY DEF JobsInv, JobTypes
<1>2. new \in JobRow /\ new.status = job[j].status
  BY <1>1, JobOperations
<1>3. /\ job' = [job EXCEPT ![j] = new]
      /\ excused' = excused \cup {j}
      /\ UNCHANGED <<runner, done>>
  BY DEF JobLeaseLapses
<1>. HIDE DEF new
<1>4. JobTypes'
  BY <1>2, <1>3 DEF JobsInv, JobTypes
<1>5. job'[j] = new /\ \A i \in Jobs : i # j => job'[i] = job[i]
  BY <1>3 DEF JobsInv, JobTypes
<1>6. \A w \in JobWorkers, i \in Jobs : Busy(w, i)' <=> Busy(w, i)
  BY <1>3 DEF Busy
<1>7. LapseExcused' /\ JobHeld' /\ DoneOnce'
  BY <1>3, <1>5, <1>6 DEF JobsInv, LapseExcused, JobHeld, DoneOnce
<1>8. SuccessDone' /\ EndedExcused'
  BY <1>2, <1>3, <1>5 DEF JobsInv, SuccessDone, EndedExcused
<1>. QED
  BY <1>4, <1>7, <1>8 DEF JobsInv

\* claim_due_job takes a job nobody holds, unless its lease had run out.
LEMMA ClaimDueJobStep ==
  ASSUME JobsInv, NEW w \in JobWorkers, NEW j \in Jobs, ClaimDueJob(w, j)
  PROVE  JobsInv'
<1>1. job[j] \in JobRow /\ runner[w].phase = "polling"
  BY DEF JobsInv, JobTypes, ClaimDueJob
<1>2. j \notin excused => job[j].status \in {"pending", "retry"}
  BY DEF JobsInv, LapseExcused, ClaimDueJob, Due
<1>3. j \notin excused => done[j] = 0 /\ \A v \in JobWorkers : ~Busy(v, j)
  BY <1>2, FreeJob
<1>4. UNCHANGED <<done, excused>>
  BY DEF ClaimDueJob
<1>5. CASE job[j].attempts >= JobAttempts
  <2>. DEFINE new == JobEnded(job[j], "dead")
  <2>1. new \in JobRow /\ new.status = "dead" /\ ~new.lapsed
    BY <1>1, JobOperations
  <2>2. job' = [job EXCEPT ![j] = new] /\ UNCHANGED runner
    BY <1>5 DEF ClaimDueJob
  <2>. HIDE DEF new
  <2>3. JobTypes'
    BY <1>4, <2>1, <2>2 DEF JobsInv, JobTypes
  <2>4. job'[j] = new /\ \A i \in Jobs : i # j => job'[i] = job[i]
    BY <2>2 DEF JobsInv, JobTypes
  <2>5. \A v \in JobWorkers, i \in Jobs : Busy(v, i)' <=> Busy(v, i)
    BY <2>2 DEF Busy
  <2>6. LapseExcused' /\ SuccessDone' /\ EndedExcused'
    BY <1>4, <2>1, <2>2, <2>4 DEF JobsInv, LapseExcused, SuccessDone, EndedExcused
  <2>7. JobHeld'
    BY <1>3, <1>4, <2>4, <2>5 DEF JobsInv, JobHeld
  <2>8. DoneOnce'
    BY <1>3, <1>4, <2>2, <2>4, <2>5 DEF JobsInv, DoneOnce
  <2>. QED
    BY <2>3, <2>6, <2>7, <2>8 DEF JobsInv
<1>6. CASE ~(job[j].attempts >= JobAttempts)
  <2>. DEFINE new == [status |-> "running", lapsed |-> FALSE, attempts |-> job[j].attempts + 1]
              mine == [phase |-> "claimed", job |-> j]
  <2>0. job[j].attempts < JobAttempts
    BY <1>1, <1>6, JobsAssumption DEF JobRow
  <2>1. new \in JobRow /\ new.status = "running" /\ ~new.lapsed
    BY <1>1, <2>0, ClaimedJob
  <2>2. mine \in Runner /\ mine.phase = "claimed" /\ mine.job = j
    BY RunnerOperations
  <2>3. job' = [job EXCEPT ![j] = new] /\ runner' = [runner EXCEPT ![w] = mine]
    BY <1>6 DEF ClaimDueJob
  <2>. HIDE DEF new, mine
  <2>4. JobTypes'
    BY <1>4, <2>1, <2>2, <2>3 DEF JobsInv, JobTypes
  <2>5. job'[j] = new /\ \A i \in Jobs : i # j => job'[i] = job[i]
    BY <2>3 DEF JobsInv, JobTypes
  <2>6. runner'[w] = mine /\ \A v \in JobWorkers : v # w => runner'[v] = runner[v]
    BY <2>3 DEF JobsInv, JobTypes
  <2>7. LapseExcused' /\ SuccessDone' /\ EndedExcused'
    BY <1>4, <2>1, <2>2, <2>5, <2>6 DEF JobsInv, LapseExcused, SuccessDone, EndedExcused
  <2>8. /\ \A i \in Jobs : Busy(w, i)' <=> i = j
        /\ \A v \in JobWorkers, i \in Jobs : v # w => (Busy(v, i)' <=> Busy(v, i))
        /\ \A i \in Jobs : ~Busy(w, i)
    BY <1>1, <2>2, <2>6 DEF Busy
  <2>9. JobHeld'
    BY <1>3, <1>4, <2>1, <2>5, <2>8 DEF JobsInv, JobHeld
  <2>10. DoneOnce'
    <3> SUFFICES ASSUME NEW i \in Jobs, i \notin excused', done'[i] > 0
                 PROVE  /\ done'[i] = 1
                        /\ \/ job'[i].status = "succeeded"
                           \/ \E v \in JobWorkers : Busy(v, i)' /\ runner'[v].phase = "ok"
      BY DEF DoneOnce
    <3>1. i # j
      BY <1>3, <1>4
    <3>2. /\ done[i] = 1
          /\ \/ job[i].status = "succeeded"
             \/ \E v \in JobWorkers : Busy(v, i) /\ runner[v].phase = "ok"
      BY <1>4 DEF JobsInv, DoneOnce
    <3>. QED
      BY <1>4, <2>5, <2>6, <2>8, <3>1, <3>2
  <2>. QED
    BY <2>4, <2>7, <2>9, <2>10 DEF JobsInv
<1>. QED
  BY <1>5, <1>6

\* A worker that has only claimed a job lets go of it: the job stays as it is,
\* or is pending again, or cancelled.
LEMMA JobReleased ==
  ASSUME JobsInv, NEW w \in JobWorkers, runner[w].phase = "claimed",
         NEW new \in JobRow, new.status \in {"pending", "cancelled"}, ~new.lapsed,
         job' = IF job[runner[w].job].status = "running"
                THEN [job EXCEPT ![runner[w].job] = new] ELSE job,
         runner' = [runner EXCEPT ![w] = Polling],
         UNCHANGED <<done, excused>>
  PROVE  JobsInv'
<1>. DEFINE j == runner[w].job
<1>1. j \in Jobs
  BY DEF JobsInv, JobTypes
<1>2. Polling \in Runner /\ Polling.phase = "polling"
  BY RunnerOperations
<1>3. JobTypes'
  BY <1>1, <1>2 DEF JobsInv, JobTypes
<1>4. runner'[w] = Polling /\ \A v \in JobWorkers : v # w => runner'[v] = runner[v]
  BY DEF JobsInv, JobTypes
<1>5. /\ \A i \in Jobs : i # j => job'[i] = job[i]
      /\ \/ job'[j] = new /\ job[j].status = "running"
         \/ job'[j] = job[j]
  BY DEF JobsInv, JobTypes
<1>6. Busy(w, j)
  BY DEF Busy
<1>7. /\ \A i \in Jobs : ~Busy(w, i)'
      /\ \A v \in JobWorkers, i \in Jobs : v # w => (Busy(v, i)' <=> Busy(v, i))
  BY <1>2, <1>4 DEF Busy
<1>. HIDE DEF j
<1>8. LapseExcused' /\ EndedExcused'
  BY <1>1, <1>2, <1>4, <1>5 DEF JobsInv, LapseExcused, EndedExcused
<1>9. SuccessDone'
  BY <1>1, <1>2, <1>4, <1>5 DEF JobsInv, SuccessDone
<1>10. JobHeld'
  <2> SUFFICES ASSUME NEW i \in Jobs, i \notin excused', NEW v \in JobWorkers, Busy(v, i)'
               PROVE  /\ job'[i].status = "running"
                      /\ \A u \in JobWorkers : Busy(u, i)' => u = v
    BY DEF JobHeld
  <2>1. v # w /\ Busy(v, i)
    BY <1>7
  <2>2. i # j
    BY <1>6, <2>1 DEF JobsInv, JobHeld
  <2>. QED
    BY <1>5, <1>7, <2>1, <2>2 DEF JobsInv, JobHeld
<1>11. DoneOnce'
  <2> SUFFICES ASSUME NEW i \in Jobs, i \notin excused', done'[i] > 0
               PROVE  /\ done'[i] = 1
                      /\ \/ job'[i].status = "succeeded"
                         \/ \E v \in JobWorkers : Busy(v, i)' /\ runner'[v].phase = "ok"
    BY DEF DoneOnce
  <2>1. /\ done[i] = 1
        /\ \/ job[i].status = "succeeded"
           \/ \E v \in JobWorkers : Busy(v, i) /\ runner[v].phase = "ok"
    BY DEF JobsInv, DoneOnce
  <2>2. job[i].status = "succeeded" => job'[i].status = "succeeded"
    BY <1>5
  <2>3. \A v \in JobWorkers : Busy(v, i) /\ runner[v].phase = "ok" =>
          Busy(v, i)' /\ runner'[v].phase = "ok"
    BY <1>4, <1>7
  <2>. QED
    BY <2>1, <2>2, <2>3
<1>. QED
  BY <1>3, <1>8, <1>9, <1>10, <1>11 DEF JobsInv

\* defer_job puts a job back.
LEMMA DeferJobStep ==
  ASSUME JobsInv, NEW w \in JobWorkers, DeferJob(w)
  PROVE  JobsInv'
<1>. DEFINE new == Deferred(job[runner[w].job])
<1>1. runner[w].phase = "claimed"
  BY DEF DeferJob
<1>2. job[runner[w].job] \in JobRow
  BY <1>1 DEF JobsInv, JobTypes
<1>3. new \in JobRow /\ new.status = "pending" /\ ~new.lapsed
  BY <1>2, JobOperations
<1>4. job' = IF job[runner[w].job].status = "running"
             THEN [job EXCEPT ![runner[w].job] = new] ELSE job
  BY DEF DeferJob
<1>5. runner' = [runner EXCEPT ![w] = Polling] /\ UNCHANGED <<done, excused>>
  BY DEF DeferJob
<1>. QED
  BY <1>1, <1>3, <1>4, <1>5, JobReleased

\* A worker's loop goes on with the job it has.
LEMMA RunnerMoves ==
  ASSUME JobsInv, NEW w \in JobWorkers, runner[w].phase = "claimed",
         runner' = [runner EXCEPT ![w] = [phase |-> "asked", job |-> runner[w].job]],
         UNCHANGED <<job, done, excused>>
  PROVE  JobsInv'
<1>. DEFINE next == [phase |-> "asked", job |-> runner[w].job]
<1>1. runner[w].job \in Jobs
  BY DEF JobsInv, JobTypes
<1>2. next \in Runner /\ next.phase = "asked" /\ next.job = runner[w].job
  BY <1>1, RunnerOperations
<1>. HIDE DEF next
<1>3. runner' = [runner EXCEPT ![w] = next]
  BY DEF next
<1>4. JobTypes'
  BY <1>1, <1>2, <1>3 DEF JobsInv, JobTypes
<1>5. runner'[w] = next /\ \A v \in JobWorkers : v # w => runner'[v] = runner[v]
  BY <1>3 DEF JobsInv, JobTypes
<1>6. \A v \in JobWorkers, i \in Jobs : Busy(v, i)' <=> Busy(v, i)
  BY <1>2, <1>5 DEF Busy
<1>7. \A v \in JobWorkers : runner'[v].phase = "ok" <=> runner[v].phase = "ok"
  BY <1>2, <1>5
<1>8. JobHeld' /\ LapseExcused'
  BY <1>6 DEF JobsInv, JobHeld, LapseExcused
<1>9. DoneOnce'
  BY <1>6, <1>7 DEF JobsInv, DoneOnce
<1>10. SuccessDone' /\ EndedExcused'
  BY <1>2, <1>5 DEF JobsInv, SuccessDone, EndedExcused
<1>. QED
  BY <1>4, <1>8, <1>9, <1>10 DEF JobsInv

\* execute_task asks the plugin, or cancels the job.
LEMMA ExecuteTaskStep ==
  ASSUME JobsInv, NEW w \in JobWorkers, ExecuteTask(w)
  PROVE  JobsInv'
<1>1. runner[w].phase = "claimed" /\ UNCHANGED <<done, excused>>
  BY DEF ExecuteTask
<1>2. CASE allowed
  BY <1>1, <1>2, RunnerMoves DEF ExecuteTask
<1>3. CASE ~allowed
  <2>. DEFINE new == JobEnded(job[runner[w].job], "cancelled")
  <2>1. job[runner[w].job] \in JobRow
    BY <1>1 DEF JobsInv, JobTypes
  <2>2. new \in JobRow /\ new.status = "cancelled" /\ ~new.lapsed
    BY <2>1, JobOperations
  <2>3. job' = IF job[runner[w].job].status = "running"
               THEN [job EXCEPT ![runner[w].job] = new] ELSE job
    BY <1>3 DEF ExecuteTask
  <2>4. runner' = [runner EXCEPT ![w] = Polling]
    BY <1>3 DEF ExecuteTask
  <2>. QED
    BY <1>1, <2>2, <2>3, <2>4, JobReleased
<1>. QED
  BY <1>2, <1>3

\* The plugin answers: what has no excuse was not done before.
LEMMA AnsweredStep ==
  ASSUME JobsInv, NEW w \in JobWorkers, NEW answer \in {"ok", "late", "error", "lost"},
         Answered(w, answer)
  PROVE  JobsInv'
<1>. DEFINE j == runner[w].job
            next == [phase |-> IF answer = "ok" THEN "ok" ELSE "error", job |-> j]
<1>1. runner[w].phase = "asked" /\ j \in Jobs
  BY DEF Answered, JobsInv, JobTypes
<1>2. /\ next \in Runner /\ next.job = j
      /\ next.phase = IF answer = "ok" THEN "ok" ELSE "error"
  BY <1>1, RunnerOperations
<1>3. /\ runner' = [runner EXCEPT ![w] = next]
      /\ done' = IF answer \in {"ok", "late"} THEN [done EXCEPT ![j] = @ + 1] ELSE done
      /\ excused' = IF answer = "late" THEN excused \cup {j} ELSE excused
      /\ UNCHANGED job
  BY DEF Answered
<1>4. Busy(w, j)
  BY <1>1 DEF Busy
<1>. HIDE DEF next, j
<1>5. runner'[w] = next /\ \A v \in JobWorkers : v # w => runner'[v] = runner[v]
  BY <1>3 DEF JobsInv, JobTypes
<1>6. /\ \A i \in Jobs : i # j => done'[i] = done[i]
      /\ answer \in {"ok", "late"} => done'[j] = done[j] + 1
      /\ answer \notin {"ok", "late"} => done'[j] = done[j]
      /\ \A i \in Jobs : done[i] \in Nat /\ done'[i] \in Nat /\ done'[i] >= done[i]
  BY <1>1, <1>3 DEF JobsInv, JobTypes
<1>7. JobTypes'
  <2>1. done' \in [Jobs -> Nat]
    BY <1>1, <1>3 DEF JobsInv, JobTypes
  <2>2. excused' \in SUBSET Jobs
    BY <1>1, <1>3 DEF JobsInv, JobTypes
  <2>. QED
    BY <1>1, <1>2, <1>3, <1>5, <2>1, <2>2 DEF JobsInv, JobTypes
<1>8. \A v \in JobWorkers, i \in Jobs : Busy(v, i)' <=> Busy(v, i)
  <2>1. \A i \in Jobs : Busy(w, i)' <=> Busy(w, i)
    BY <1>1, <1>2, <1>5 DEF Busy, j
  <2>. QED
    BY <1>5, <2>1 DEF Busy
<1>9. \A i \in Jobs : i \notin excused' => i \notin excused
  BY <1>3
<1>10. LapseExcused' /\ JobHeld'
  BY <1>3, <1>8, <1>9 DEF JobsInv, LapseExcused, JobHeld
<1>11. EndedExcused'
  BY <1>2, <1>3, <1>5 DEF JobsInv, EndedExcused
<1>12. SuccessDone'
  <2>1. \A i \in Jobs : job'[i].status = "succeeded" => done'[i] >= 1
    BY <1>3, <1>6 DEF JobsInv, SuccessDone
  <2>2. \A v \in JobWorkers : v # w /\ runner'[v].phase = "ok" => done'[runner'[v].job] >= 1
    <3> SUFFICES ASSUME NEW v \in JobWorkers, v # w, runner'[v].phase = "ok"
                 PROVE  done'[runner'[v].job] >= 1
      OBVIOUS
    <3>1. runner[v].phase = "ok" /\ runner'[v].job = runner[v].job
      BY <1>5
    <3>2. runner[v].job \in Jobs /\ done[runner[v].job] >= 1
      BY <3>1 DEF JobsInv, JobTypes, SuccessDone
    <3>. QED
      BY <1>6, <3>1, <3>2
  <2>3. runner'[w].phase = "ok" => done'[runner'[w].job] >= 1
    BY <1>1, <1>2, <1>5, <1>6
  <2>. QED
    BY <2>1, <2>2, <2>3 DEF SuccessDone
<1>13. DoneOnce'
  <2> SUFFICES ASSUME NEW i \in Jobs, i \notin excused', done'[i] > 0
               PROVE  /\ done'[i] = 1
                      /\ \/ job'[i].status = "succeeded"
                         \/ \E v \in JobWorkers : Busy(v, i)' /\ runner'[v].phase = "ok"
    BY DEF DoneOnce
  <2>1. CASE i # j
    <3>1. /\ done[i] = 1
          /\ \/ job[i].status = "succeeded"
             \/ \E v \in JobWorkers : Busy(v, i) /\ runner[v].phase = "ok"
      BY <1>6, <1>9, <2>1 DEF JobsInv, DoneOnce
    <3>2. \A v \in JobWorkers : Busy(v, i) => v # w
      BY <2>1 DEF Busy, j
    <3>. QED
      BY <1>3, <1>5, <1>6, <1>8, <2>1, <3>1, <3>2
  <2>2. CASE i = j
    <3>1. job[j].status = "running" /\ \A v \in JobWorkers : Busy(v, j) => v = w
      BY <1>1, <1>4, <1>9, <2>2 DEF JobsInv, JobHeld
    <3>2. done[j] = 0
      BY <1>1, <1>6, <1>9, <2>2, <3>1 DEF JobsInv, DoneOnce
    <3>3. answer = "ok"
      BY <1>1, <1>3, <1>6, <2>2, <3>2
    <3>. QED
      BY <1>1, <1>2, <1>4, <1>5, <1>6, <1>8, <2>2, <3>2, <3>3
  <2>. QED
    BY <2>1, <2>2
<1>. QED
  BY <1>7, <1>10, <1>11, <1>12, <1>13 DEF JobsInv

\* finish_job writes the result of a job that runs, or raises.
LEMMA FinishJobStep ==
  ASSUME JobsInv, NEW w \in JobWorkers, FinishJob(w)
  PROVE  JobsInv'
<1>. DEFINE j == runner[w].job
            ok == runner[w].phase = "ok"
            new == Finished(job[j], ok)
            ended == [phase |-> "ended", job |-> j]
<1>1. runner[w].phase \in {"ok", "error"} /\ j \in Jobs /\ UNCHANGED <<done, excused>>
  BY DEF FinishJob, JobsInv, JobTypes
<1>2. job[j] \in JobRow /\ ok \in BOOLEAN
  BY <1>1 DEF JobsInv, JobTypes
<1>3. /\ new \in JobRow /\ ~new.lapsed
      /\ ok => new.status = "succeeded"
      /\ ~ok => new.status \in {"dead", "retry"}
  BY <1>2, FinishedJob
<1>4. Busy(w, j)
  BY <1>1 DEF Busy
<1>5. ok => done[j] >= 1
  BY DEF JobsInv, SuccessDone
<1>6. CASE job[j].status = "running"
  <2>1. job' = [job EXCEPT ![j] = new] /\ runner' = [runner EXCEPT ![w] = Polling]
    BY <1>6 DEF FinishJob
  <2>2. Polling \in Runner /\ Polling.phase = "polling"
    BY RunnerOperations
  <2>3. ok <=> runner[w].phase = "ok"
    OBVIOUS
  <2>. HIDE DEF j, new, ok
  <2>4. JobTypes'
    BY <1>1, <1>3, <2>1, <2>2 DEF JobsInv, JobTypes
  <2>5. runner'[w] = Polling /\ \A v \in JobWorkers : v # w => runner'[v] = runner[v]
    BY <2>1 DEF JobsInv, JobTypes
  <2>6. job'[j] = new /\ \A i \in Jobs : i # j => job'[i] = job[i]
    BY <1>1, <2>1 DEF JobsInv, JobTypes
  <2>7. /\ \A i \in Jobs : ~Busy(w, i)'
        /\ \A v \in JobWorkers, i \in Jobs : v # w => (Busy(v, i)' <=> Busy(v, i))
    BY <2>2, <2>5 DEF Busy
  <2>8. LapseExcused' /\ EndedExcused'
    BY <1>1, <1>3, <2>2, <2>5, <2>6 DEF JobsInv, LapseExcused, EndedExcused
  <2>9. SuccessDone'
    BY <1>1, <1>3, <1>5, <2>2, <2>5, <2>6 DEF JobsInv, SuccessDone
  <2>10. JobHeld'
    <3> SUFFICES ASSUME NEW i \in Jobs, i \notin excused', NEW v \in JobWorkers, Busy(v, i)'
                 PROVE  /\ job'[i].status = "running"
                        /\ \A u \in JobWorkers : Busy(u, i)' => u = v
      BY DEF JobHeld
    <3>1. v # w /\ Busy(v, i)
      BY <2>7
    <3>2. i # j
      BY <1>1, <1>4, <3>1 DEF JobsInv, JobHeld
    <3>. QED
      BY <1>1, <2>6, <2>7, <3>1, <3>2 DEF JobsInv, JobHeld
  <2>11. DoneOnce'
    <3> SUFFICES ASSUME NEW i \in Jobs, i \notin excused', done'[i] > 0
                 PROVE  /\ done'[i] = 1
                        /\ \/ job'[i].status = "succeeded"
                           \/ \E v \in JobWorkers : Busy(v, i)' /\ runner'[v].phase = "ok"
      BY DEF DoneOnce
    <3>1. /\ done[i] = 1
          /\ \/ job[i].status = "succeeded"
             \/ \E v \in JobWorkers : Busy(v, i) /\ runner[v].phase = "ok"
      BY <1>1 DEF JobsInv, DoneOnce
    <3>2. CASE i = j
      <4>1. job[j].status = "running" /\ \A v \in JobWorkers : Busy(v, j) => v = w
        BY <1>1, <1>4, <3>2 DEF JobsInv, JobHeld
      <4>2. ok
        BY <2>3, <3>1, <3>2, <4>1
      <4>. QED
        BY <1>1, <1>3, <2>6, <3>1, <3>2, <4>2
    <3>3. CASE i # j
      <4>1. \A v \in JobWorkers : Busy(v, i) => v # w
        BY <3>3 DEF Busy, j
      <4>. QED
        BY <1>1, <2>5, <2>6, <2>7, <3>1, <3>3, <4>1
    <3>. QED
      BY <3>2, <3>3
  <2>. QED
    BY <2>4, <2>8, <2>9, <2>10, <2>11 DEF JobsInv
<1>7. CASE job[j].status # "running"
  <2>1. runner' = [runner EXCEPT ![w] = ended] /\ UNCHANGED job
    BY <1>7 DEF FinishJob
  <2>2. ended \in Runner /\ ended.phase = "ended" /\ ended.job = j
    BY <1>1, RunnerOperations
  <2>3. j \in excused
    BY <1>1, <1>4, <1>7 DEF JobsInv, JobHeld
  <2>. HIDE DEF j, ended, ok, new
  <2>4. JobTypes'
    BY <1>1, <2>1, <2>2 DEF JobsInv, JobTypes
  <2>5. runner'[w] = ended /\ \A v \in JobWorkers : v # w => runner'[v] = runner[v]
    BY <2>1 DEF JobsInv, JobTypes
  <2>6. /\ \A i \in Jobs : ~Busy(w, i)'
        /\ \A v \in JobWorkers, i \in Jobs : v # w => (Busy(v, i)' <=> Busy(v, i))
    BY <2>2, <2>5 DEF Busy
  <2>7. LapseExcused' /\ EndedExcused' /\ SuccessDone'
    BY <1>1, <2>1, <2>2, <2>3, <2>5 DEF JobsInv, LapseExcused, EndedExcused, SuccessDone
  <2>8. JobHeld'
    BY <1>1, <2>1, <2>6 DEF JobsInv, JobHeld
  <2>9. DoneOnce'
    <3> SUFFICES ASSUME NEW i \in Jobs, i \notin excused', done'[i] > 0
                 PROVE  /\ done'[i] = 1
                        /\ \/ job'[i].status = "succeeded"
                           \/ \E v \in JobWorkers : Busy(v, i)' /\ runner'[v].phase = "ok"
      BY DEF DoneOnce
    <3>1. /\ done[i] = 1
          /\ \/ job[i].status = "succeeded"
             \/ \E v \in JobWorkers : Busy(v, i) /\ runner[v].phase = "ok"
      BY <1>1 DEF JobsInv, DoneOnce
    <3>2. \A v \in JobWorkers : Busy(v, i) => v # w
      BY <1>1, <2>3 DEF Busy, j
    <3>. QED
      BY <1>1, <2>1, <2>5, <2>6, <3>1, <3>2
  <2>. QED
    BY <2>4, <2>7, <2>8, <2>9 DEF JobsInv
<1>. QED
  BY <1>6, <1>7

\* A server process ends: what it had asked, or heard, is excused.
LEMMA ServerEndsStep ==
  ASSUME JobsInv, NEW w \in JobWorkers, ServerEnds(w)
  PROVE  JobsInv'
<1>. DEFINE j == runner[w].job
<1>1. Polling \in Runner /\ Polling.phase = "polling"
  BY RunnerOperations
<1>2. /\ runner' = [runner EXCEPT ![w] = Polling]
      /\ done' = IF runner[w].phase = "asked" /\ host = w
                 THEN [done EXCEPT ![j] = @ + 1] ELSE done
      /\ excused' = IF runner[w].phase \in {"asked", "ok", "error"}
                    THEN excused \cup {j} ELSE excused
      /\ UNCHANGED job
  BY DEF ServerEnds
<1>3. runner[w].phase # "polling" => j \in Jobs
  BY DEF JobsInv, JobTypes
<1>4. runner'[w] = Polling /\ \A v \in JobWorkers : v # w => runner'[v] = runner[v]
  BY <1>2 DEF JobsInv, JobTypes
<1>5. /\ \A i \in Jobs : ~Busy(w, i)'
      /\ \A v \in JobWorkers, i \in Jobs : v # w => (Busy(v, i)' <=> Busy(v, i))
  BY <1>1, <1>4 DEF Busy
<1>6. \A i \in Jobs : i \notin excused' =>
        /\ i \notin excused /\ done'[i] = done[i]
        /\ ~(Busy(w, i) /\ runner[w].phase = "ok")
  BY <1>2, <1>3 DEF Busy, JobsInv, JobTypes
<1>. HIDE DEF j
<1>7. done' \in [Jobs -> Nat] /\ \A i \in Jobs : done'[i] >= done[i]
  BY <1>2, <1>3 DEF JobsInv, JobTypes
<1>8. JobTypes'
  <2>1. excused' \in SUBSET Jobs
    BY <1>2, <1>3 DEF JobsInv, JobTypes
  <2>. QED
    BY <1>1, <1>2, <1>7, <2>1 DEF JobsInv, JobTypes
<1>9. LapseExcused'
  BY <1>2, <1>6 DEF JobsInv, LapseExcused
<1>10. EndedExcused'
  BY <1>1, <1>2, <1>4 DEF JobsInv, EndedExcused
<1>11. SuccessDone'
  <2>1. \A i \in Jobs : done[i] \in Nat /\ done'[i] \in Nat /\ done'[i] >= done[i]
    BY <1>7 DEF JobsInv, JobTypes
  <2>2. \A v \in JobWorkers : runner[v].phase = "ok" => runner[v].job \in Jobs
    BY DEF JobsInv, JobTypes
  <2>3. \A i \in Jobs : done[i] >= 1 => done'[i] >= 1
    BY <2>1
  <2>. QED
    BY <1>1, <1>2, <1>4, <2>2, <2>3 DEF JobsInv, SuccessDone
<1>12. JobHeld'
  BY <1>2, <1>5, <1>6 DEF JobsInv, JobHeld
<1>13. DoneOnce'
  <2> SUFFICES ASSUME NEW i \in Jobs, i \notin excused', done'[i] > 0
               PROVE  /\ done'[i] = 1
                      /\ \/ job'[i].status = "succeeded"
                         \/ \E v \in JobWorkers : Busy(v, i)' /\ runner'[v].phase = "ok"
    BY DEF DoneOnce
  <2>1. /\ done[i] = 1
        /\ \/ job[i].status = "succeeded"
           \/ \E v \in JobWorkers : Busy(v, i) /\ runner[v].phase = "ok"
    BY <1>6 DEF JobsInv, DoneOnce
  <2>2. \A v \in JobWorkers : Busy(v, i) /\ runner[v].phase = "ok" => v # w
    BY <1>6
  <2>. QED
    BY <1>2, <1>4, <1>5, <1>6, <2>1, <2>2
<1>. QED
  BY <1>8, <1>9, <1>10, <1>11, <1>12, <1>13 DEF JobsInv

\* Every step keeps the invariant.
LEMMA JobsStepInv ==
  ASSUME JobsInv, [JobsNext]_jobVars
  PROVE  JobsInv'
<1>1. CASE UNCHANGED jobVars
  BY <1>1, JobsUntouched DEF jobVars
<1>2. CASE GrantChanges
  BY <1>2, JobsUntouched DEF GrantChanges
<1>3. ASSUME NEW j \in Jobs, ScheduleJob(j) \/ JobLeaseLapses(j)
      PROVE  JobsInv'
  BY <1>3, ScheduleJobStep, JobLeaseLapsesStep
<1>4. ASSUME NEW w \in JobWorkers, NEW j \in Jobs, ClaimDueJob(w, j)
      PROVE  JobsInv'
  BY <1>4, ClaimDueJobStep
<1>5. ASSUME NEW w \in JobWorkers, NEW answer \in {"ok", "late", "error", "lost"},
             Answered(w, answer)
      PROVE  JobsInv'
  BY <1>5, AnsweredStep
<1>6. ASSUME NEW w \in JobWorkers,
             DeferJob(w) \/ ExecuteTask(w) \/ FinishJob(w) \/ ServerEnds(w)
      PROVE  JobsInv'
  BY <1>6, DeferJobStep, ExecuteTaskStep, FinishJobStep, ServerEndsStep
<1>7. ASSUME NEW w \in JobWorkers, PluginMoves(w)
      PROVE  JobsInv'
  BY <1>7, JobsUntouched DEF PluginMoves
<1>. QED
  BY <1>1, <1>2, <1>3, <1>4, <1>5, <1>6, <1>7 DEF JobsNext

\* The workers of claim_due_job and finish_job never share a job that has no
\* excuse, and it was done once at most.
THEOREM JobsInvariance == JobsSpec => []JobsInv
<1>1. JobsInit => JobsInv
  BY JobsInitInv
<1>2. JobsInv /\ [JobsNext]_jobVars => JobsInv'
  BY JobsStepInv
<1>. QED
  BY <1>1, <1>2, PTL DEF JobsSpec

\* A plugin does a job again only after a lease ran out, a late answer or the
\* end of a server; a job that succeeded was done; no job is tried more often
\* than max_attempts; finish_job raises over an excused job only.
THEOREM JobRunsAreExplained == JobsSpec => []JobRunsExplained
<1>1. JobsInv => JobRunsExplained
  <2> SUFFICES ASSUME JobsInv PROVE JobRunsExplained
    OBVIOUS
  <2>1. \A j \in Jobs : done[j] > 1 => j \in excused
    <3> SUFFICES ASSUME NEW j \in Jobs, done[j] > 1, j \notin excused PROVE FALSE
      OBVIOUS
    <3>1. done[j] \in Nat
      BY DEF JobsInv, JobTypes
    <3>2. done[j] = 1
      BY <3>1 DEF JobsInv, DoneOnce
    <3>. QED
      BY <3>2
  <2>2. \A j \in Jobs : job[j].attempts <= JobAttempts
    BY JobsAssumption DEF JobsInv, JobTypes, JobRow
  <2>. QED
    BY <2>1, <2>2 DEF JobsInv, SuccessDone, EndedExcused, JobRunsExplained
<1>. QED
  BY <1>1, JobsInvariance, PTL

-----------------------------------------------------------------------------
(***************************************************************************)
(* Packages: the inductive invariant.  It says where the trees, the record *)
(* and the rollback copies are at every step of a command, as long as no   *)
(* kill fell into one of the windows `Unseen'.                             *)
(***************************************************************************)
Tree     == 0..Part
Forward  == {"package_away", "env_away", "package_in", "env_in", "record", "check"}
Backward == {"undo_env", "undo_env_back", "undo_package", "undo_package_back", "undo_record"}
Removal  == {"remove_package", "remove_env", "remove_record", "switch_off"}

Command ==
  [kind: {"none", "install", "update", "uninstall"},
   at: Forward \union Backward \union Removal \union {"sweep", "end"},
   new: Tree, package: Tree, env: Tree, meta: Tree, switched: SUBSET {"package", "env"}]

PackageTypes ==
  /\ package \in Tree /\ env \in Tree /\ meta \in Tree
  /\ operation \in Command
  /\ operation.kind = "none" => operation = NoCommand
  /\ operation.kind \in {"install", "update"} => operation.at \in Forward \union Backward \union {"sweep"}
  /\ operation.kind = "uninstall" => operation.at \in Removal
  /\ kills \in Nat
  /\ cut \in SUBSET {"install", "update"}
  /\ kills = 0 => cut = {}
  /\ child # NoChild => operation.kind = "none"

\* What a start may meet: nothing, a whole plugin, or one the record disowns.
InOrder(p, e, m) == p = Absent \/ (p = e /\ e = m) \/ (m # Absent /\ p # m)

Calm == InOrder(package, env, meta) /\ (kills = 0 => package = env /\ env = meta)

Trees(p, e, m) == package = p /\ env = e /\ meta = m
Saved(p, e, s) == operation.package = p /\ operation.env = e /\ operation.switched = s

Both == {"package", "env"}

\* The live trees that install and update began over: what a start may meet.
Began(o, e) ==
  /\ operation.new \in Versions /\ operation.meta # Part
  /\ InOrder(o, e, operation.meta)
  /\ kills = 0 => o = e /\ e = operation.meta

\* Where the switch, and the undoing of it, have put them.
SwitchedFrom(o, e) ==
  LET n == operation.new
      m == operation.meta
      at == operation.at
  IN  /\ at = "package_away" => Trees(o, e, m) /\ Saved(Absent, Absent, {})
      /\ at = "env_away"     => Trees(Absent, e, m) /\ Saved(o, Absent, {})
      /\ at = "package_in"   => Trees(Absent, Absent, m) /\ Saved(o, e, {})
      /\ at = "env_in"       => Trees(n, Absent, m) /\ Saved(o, e, {"package"})
      /\ at = "record"       => Trees(n, n, m) /\ Saved(o, e, Both)
      /\ at \in {"check", "sweep"} => Trees(n, n, n) /\ Saved(o, e, Both)
      /\ at = "undo_env" =>
           \/ Trees(o, e, m) /\ Saved(Absent, Absent, {})
           \/ Trees(Absent, e, m) /\ Saved(o, Absent, {})
           \/ Trees(Absent, Absent, m) /\ Saved(o, e, {})
           \/ Trees(n, Absent, m) /\ Saved(o, e, {"package"})
           \/ (Trees(n, n, m) \/ Trees(n, n, n)) /\ Saved(o, e, Both)
      /\ at = "undo_env_back" =>
           \/ Trees(o, e, m) /\ Saved(Absent, Absent, {})
           \/ Trees(Absent, e, m) /\ Saved(o, Absent, {})
           \/ Trees(Absent, Absent, m) /\ Saved(o, e, {})
           \/ Trees(n, Absent, m) /\ Saved(o, e, {"package"})
           \/ (Trees(n, Absent, m) \/ Trees(n, Absent, n)) /\ Saved(o, e, Both)
      /\ at = "undo_package" =>
           \/ Trees(o, e, m) /\ operation.package = Absent /\ operation.switched = {}
           \/ Trees(Absent, e, m) /\ operation.package = o /\ operation.switched = {}
           \/ /\ Trees(n, e, m) \/ Trees(n, e, n)
              /\ operation.package = o /\ "package" \in operation.switched
      /\ at = "undo_package_back" =>
           \/ Trees(o, e, m) /\ operation.package = Absent
           \/ Trees(Absent, e, m) /\ operation.package = o
           \/ Trees(Absent, e, n) /\ operation.package = o /\ "package" \in operation.switched
      /\ at = "undo_record" =>
           Trees(o, e, m) \/ (Trees(o, e, n) /\ "package" \in operation.switched)

SwitchShape == \E o \in Tree, e \in Tree : Began(o, e) /\ SwitchedFrom(o, e)

UninstallShape ==
  /\ operation.at = "remove_package" => InOrder(package, env, meta)
  /\ operation.at # "remove_package" => package = Absent
  /\ kills = 0 => /\ operation.at \in {"remove_record", "switch_off"} => env = Absent
                  /\ operation.at = "switch_off" => meta = Absent

\* What holds as long as no kill went unnoticed.
Undamaged ==
  /\ meta # Part
  /\ operation.kind = "none"      => Calm
  /\ operation.kind \in {"install", "update"} => SwitchShape
  /\ operation.kind = "uninstall" => UninstallShape
  /\ child # NoChild => child.package = meta /\ child.env = meta

PackageInv == PackageTypes /\ (cut = {} => Undamaged)

-----------------------------------------------------------------------------
(***************************************************************************)
(* Packages: what the helpers do to a command.                             *)
(***************************************************************************)

\* The command goes on, at another place and with these rollback copies.
Moved(at, p, e, s) ==
  /\ operation' \in Command
  /\ operation'.at = at /\ operation'.package = p /\ operation'.env = e /\ operation'.switched = s
  /\ operation'.kind = operation.kind /\ operation'.new = operation.new /\ operation'.meta = operation.meta

LEMMA TreeValues ==
  /\ Absent \in Tree /\ Part \in Tree /\ Absent # Part
  /\ \A v \in Versions : v \in Tree /\ v # Absent /\ v # Part
  BY PackageAssumption DEF Tree, Absent, Part, Versions

LEMMA NoCommandRow ==
  /\ NoCommand \in Command /\ NoCommand.kind = "none"
  /\ NoCommand.package = Absent /\ NoCommand.env = Absent /\ NoCommand.meta = Absent
  /\ NoCommand.switched = {}
<1>1. Absent \in Tree
  BY TreeValues
<1>. QED
  BY <1>1 DEF NoCommand, Command

LEMMA Afters ==
  /\ Thereafter("package_away") = "env_away"
  /\ Thereafter("env_away") = "package_in"
  /\ Thereafter("package_in") = "env_in"
  /\ Thereafter("env_in") = "record"
  /\ Thereafter("record") = "check"
  /\ Thereafter("check") = "sweep"
  /\ Thereafter("undo_env") = "undo_env_back"
  /\ Thereafter("undo_env_back") = "undo_package"
  /\ Thereafter("undo_package") = "undo_package_back"
  /\ Thereafter("undo_package_back") = "undo_record"
  /\ Thereafter("undo_record") = "end"
  BY DEF Thereafter

\* The switch writes its place last.
LEMMA GoesOn ==
  ASSUME NEW c \in Command, NEW a \in Forward \union Backward \union {"sweep"},
         Thereafter(c.at) = a, operation' = MovesOn(c),
         c.kind = operation.kind, c.new = operation.new, c.meta = operation.meta
  PROVE  Moved(a, c.package, c.env, c.switched)
<1>1. a # "end"
  BY DEF Forward, Backward
<1>2. operation' = [c EXCEPT !.at = a]
  BY <1>1 DEF MovesOn
<1>3. operation' = [kind |-> c.kind, at |-> a, new |-> c.new,
              package |-> c.package, env |-> c.env, meta |-> c.meta, switched |-> c.switched]
  BY <1>2 DEF Command
<1>4. operation' \in Command
  BY <1>3 DEF Command
<1>. QED
  BY <1>3, <1>4 DEF Moved

\* The renames of the switch, one by one.
LEMMA SwitchMoves ==
  ASSUME PackageTypes, Switch
  PROVE  \/ /\ operation.at = "package_away" /\ package' = Absent /\ UNCHANGED <<env, meta>>
            /\ Moved("env_away", package, operation.env, operation.switched)
         \/ /\ operation.at = "env_away" /\ env' = Absent /\ UNCHANGED <<package, meta>>
            /\ Moved("package_in", operation.package, env, operation.switched)
         \/ /\ operation.at = "package_in" /\ package' = operation.new /\ UNCHANGED <<env, meta>>
            /\ Moved("env_in", operation.package, operation.env, {"package"})
         \/ /\ operation.at = "env_in" /\ env' = operation.new /\ UNCHANGED <<package, meta>>
            /\ Moved("record", operation.package, operation.env, Both)
         \/ /\ operation.at = "record" /\ meta' = package /\ UNCHANGED <<package, env>>
            /\ Moved("check", operation.package, operation.env, operation.switched)
         \/ /\ operation.at = "check" /\ UNCHANGED <<package, env, meta>>
            /\ Moved("sweep", operation.package, operation.env, operation.switched)
<1>. DEFINE G == Forward \union Backward \union {"sweep"}
<1>0. operation \in Command /\ package \in Tree /\ env \in Tree
  BY DEF PackageTypes
<1>1. CASE operation.at = "package_away"
  <2>. DEFINE c == [operation EXCEPT !.package = package]
  <2>1. c = [kind |-> operation.kind, at |-> operation.at, new |-> operation.new,
             package |-> package, env |-> operation.env, meta |-> operation.meta,
             switched |-> operation.switched]
    BY <1>0 DEF Command
  <2>2. c \in Command
    BY <1>0, <2>1 DEF Command
  <2>3. package' = Absent /\ operation' = MovesOn(c) /\ UNCHANGED <<env, meta>>
    BY <1>1 DEF Switch
  <2>. HIDE DEF c
  <2>4. Thereafter(c.at) = "env_away" /\ "env_away" \in G
    BY <1>1, <2>1, Afters DEF Forward
  <2>5. Moved("env_away", c.package, c.env, c.switched)
    BY <2>1, <2>2, <2>3, <2>4, GoesOn
  <2>. QED
    BY <1>1, <2>1, <2>3, <2>5
<1>2. CASE operation.at = "env_away"
  <2>. DEFINE c == [operation EXCEPT !.env = env]
  <2>1. c = [kind |-> operation.kind, at |-> operation.at, new |-> operation.new,
             package |-> operation.package, env |-> env, meta |-> operation.meta,
             switched |-> operation.switched]
    BY <1>0 DEF Command
  <2>2. c \in Command
    BY <1>0, <2>1 DEF Command
  <2>3. env' = Absent /\ operation' = MovesOn(c) /\ UNCHANGED <<package, meta>>
    BY <1>2 DEF Switch
  <2>. HIDE DEF c
  <2>4. Thereafter(c.at) = "package_in" /\ "package_in" \in G
    BY <1>2, <2>1, Afters DEF Forward
  <2>5. Moved("package_in", c.package, c.env, c.switched)
    BY <2>1, <2>2, <2>3, <2>4, GoesOn
  <2>. QED
    BY <1>2, <2>1, <2>3, <2>5
<1>3. CASE operation.at = "package_in"
  <2>. DEFINE c == [operation EXCEPT !.switched = {"package"}]
  <2>1. c = [kind |-> operation.kind, at |-> operation.at, new |-> operation.new,
             package |-> operation.package, env |-> operation.env, meta |-> operation.meta,
             switched |-> {"package"}]
    BY <1>0 DEF Command
  <2>2. c \in Command
    BY <1>0, <2>1 DEF Command
  <2>3. package' = operation.new /\ operation' = MovesOn(c) /\ UNCHANGED <<env, meta>>
    BY <1>3 DEF Switch
  <2>. HIDE DEF c
  <2>4. Thereafter(c.at) = "env_in" /\ "env_in" \in G
    BY <1>3, <2>1, Afters DEF Forward
  <2>5. Moved("env_in", c.package, c.env, c.switched)
    BY <2>1, <2>2, <2>3, <2>4, GoesOn
  <2>. QED
    BY <1>3, <2>1, <2>3, <2>5
<1>4. CASE operation.at = "env_in"
  <2>. DEFINE c == [operation EXCEPT !.switched = {"package", "env"}]
  <2>1. c = [kind |-> operation.kind, at |-> operation.at, new |-> operation.new,
             package |-> operation.package, env |-> operation.env, meta |-> operation.meta,
             switched |-> Both]
    BY <1>0 DEF Command, Both
  <2>2. c \in Command
    BY <1>0, <2>1 DEF Command, Both
  <2>3. env' = operation.new /\ operation' = MovesOn(c) /\ UNCHANGED <<package, meta>>
    BY <1>4 DEF Switch
  <2>. HIDE DEF c
  <2>4. Thereafter(c.at) = "record" /\ "record" \in G
    BY <1>4, <2>1, Afters DEF Forward
  <2>5. Moved("record", c.package, c.env, c.switched)
    BY <2>1, <2>2, <2>3, <2>4, GoesOn
  <2>. QED
    BY <1>4, <2>1, <2>3, <2>5
<1>5. CASE operation.at = "record"
  <2>1. meta' = package /\ operation' = MovesOn(operation) /\ UNCHANGED <<package, env>>
    BY <1>5 DEF Switch
  <2>2. Thereafter(operation.at) = "check" /\ "check" \in G
    BY <1>5, Afters DEF Forward
  <2>3. Moved("check", operation.package, operation.env, operation.switched)
    BY <1>0, <2>1, <2>2, GoesOn
  <2>. QED
    BY <1>5, <2>1, <2>3
<1>6. CASE operation.at = "check"
  <2>1. operation' = MovesOn(operation) /\ UNCHANGED <<package, env, meta>>
    BY <1>6 DEF Switch
  <2>2. Thereafter(operation.at) = "sweep" /\ "sweep" \in G
    BY <1>6, Afters
  <2>3. Moved("sweep", operation.package, operation.env, operation.switched)
    BY <1>0, <2>1, <2>2, GoesOn
  <2>. QED
    BY <1>6, <2>1, <2>3
<1>7. operation.at \in {"package_away", "env_away", "package_in", "env_in", "record", "check"}
  BY DEF Switch
<1>. QED
  BY <1>1, <1>2, <1>3, <1>4, <1>5, <1>6, <1>7

-----------------------------------------------------------------------------
(***************************************************************************)
(* Packages: each action.                                                  *)
(***************************************************************************)

LEMMA MovedTypes ==
  ASSUME PackageTypes, NEW a \in Forward \union Backward \union {"sweep"}, NEW p, NEW e, NEW s,
         Moved(a, p, e, s), operation.kind \in {"install", "update"},
         package' \in Tree, env' \in Tree, meta' \in Tree, UNCHANGED <<kills, cut, child>>
  PROVE  PackageTypes' /\ operation'.kind = operation.kind /\ child' = NoChild
  BY DEF PackageTypes, Moved

LEMMA MovedBegan ==
  ASSUME NEW a, NEW p, NEW e, NEW s, Moved(a, p, e, s), UNCHANGED kills,
         NEW old, NEW was, Began(old, was)
  PROVE  Began(old, was)'
  BY DEF Began, Moved, InOrder

\* The switch, one rename further.
LEMMA SwitchStep ==
  ASSUME PackageInv, Switch
  PROVE  PackageInv'
<1>1. PackageTypes /\ operation.kind \in {"install", "update"} /\ child = NoChild
  BY DEF PackageInv, PackageTypes, Switch
<1>2. UNCHANGED <<kills, cut, child>>
  BY DEF Switch
<1>3. Absent \in Tree /\ package \in Tree /\ env \in Tree /\ meta \in Tree /\ operation.new \in Tree
  BY <1>1, TreeValues DEF PackageTypes, Command
<1>4. PICK o \in Tree, e \in Tree :
             cut = {} => Began(o, e) /\ SwitchedFrom(o, e) /\ meta # Part
  BY <1>1, <1>3 DEF PackageInv, Undamaged, SwitchShape
<1>5. cut = {} => operation.new # Part
  BY <1>4, TreeValues DEF Began
<1>6. SUFFICES /\ PackageTypes' /\ operation'.kind = operation.kind /\ child' = NoChild
               /\ cut = {} => Began(o, e)' /\ SwitchedFrom(o, e)' /\ meta' # Part
  BY <1>1, <1>2 DEF PackageInv, Undamaged, SwitchShape
<1>7. CASE /\ operation.at = "package_away" /\ package' = Absent /\ UNCHANGED <<env, meta>>
           /\ Moved("env_away", package, operation.env, operation.switched)
  <2>1. PackageTypes' /\ operation'.kind = operation.kind /\ child' = NoChild
    BY <1>1, <1>2, <1>3, <1>7, MovedTypes DEF Forward
  <2>2. ASSUME cut = {} PROVE Began(o, e)'
    BY <1>2, <1>4, <1>7, <2>2, MovedBegan
  <2>3. ASSUME cut = {} PROVE SwitchedFrom(o, e)' /\ meta' # Part
    BY <1>4, <1>7, <2>3 DEF SwitchedFrom, Trees, Saved, Moved, Both
  <2>. QED
    BY <2>1, <2>2, <2>3
<1>8. CASE /\ operation.at = "env_away" /\ env' = Absent /\ UNCHANGED <<package, meta>>
           /\ Moved("package_in", operation.package, env, operation.switched)
  <2>1. PackageTypes' /\ operation'.kind = operation.kind /\ child' = NoChild
    BY <1>1, <1>2, <1>3, <1>8, MovedTypes DEF Forward
  <2>2. ASSUME cut = {} PROVE Began(o, e)'
    BY <1>2, <1>4, <1>8, <2>2, MovedBegan
  <2>3. ASSUME cut = {} PROVE SwitchedFrom(o, e)' /\ meta' # Part
    BY <1>4, <1>8, <2>3 DEF SwitchedFrom, Trees, Saved, Moved, Both
  <2>. QED
    BY <2>1, <2>2, <2>3
<1>9. CASE /\ operation.at = "package_in" /\ package' = operation.new /\ UNCHANGED <<env, meta>>
           /\ Moved("env_in", operation.package, operation.env, {"package"})
  <2>1. PackageTypes' /\ operation'.kind = operation.kind /\ child' = NoChild
    BY <1>1, <1>2, <1>3, <1>9, MovedTypes DEF Forward
  <2>2. ASSUME cut = {} PROVE Began(o, e)'
    BY <1>2, <1>4, <1>9, <2>2, MovedBegan
  <2>3. ASSUME cut = {} PROVE SwitchedFrom(o, e)' /\ meta' # Part
    BY <1>4, <1>9, <2>3 DEF SwitchedFrom, Trees, Saved, Moved, Both
  <2>. QED
    BY <2>1, <2>2, <2>3
<1>10. CASE /\ operation.at = "env_in" /\ env' = operation.new /\ UNCHANGED <<package, meta>>
            /\ Moved("record", operation.package, operation.env, Both)
  <2>1. PackageTypes' /\ operation'.kind = operation.kind /\ child' = NoChild
    BY <1>1, <1>2, <1>3, <1>10, MovedTypes DEF Forward
  <2>2. ASSUME cut = {} PROVE Began(o, e)'
    BY <1>2, <1>4, <1>10, <2>2, MovedBegan
  <2>3. ASSUME cut = {} PROVE SwitchedFrom(o, e)' /\ meta' # Part
    BY <1>4, <1>10, <2>3 DEF SwitchedFrom, Trees, Saved, Moved, Both
  <2>. QED
    BY <2>1, <2>2, <2>3
<1>11. CASE /\ operation.at = "record" /\ meta' = package /\ UNCHANGED <<package, env>>
            /\ Moved("check", operation.package, operation.env, operation.switched)
  <2>1. PackageTypes' /\ operation'.kind = operation.kind /\ child' = NoChild
    BY <1>1, <1>2, <1>3, <1>11, MovedTypes DEF Forward
  <2>2. ASSUME cut = {} PROVE Began(o, e)'
    BY <1>2, <1>4, <1>11, <2>2, MovedBegan
  <2>3. ASSUME cut = {} PROVE SwitchedFrom(o, e)' /\ meta' # Part
    BY <1>4, <1>5, <1>11, <2>3 DEF SwitchedFrom, Trees, Saved, Moved, Both
  <2>. QED
    BY <2>1, <2>2, <2>3
<1>12. CASE /\ operation.at = "check" /\ UNCHANGED <<package, env, meta>>
            /\ Moved("sweep", operation.package, operation.env, operation.switched)
  <2>1. PackageTypes' /\ operation'.kind = operation.kind /\ child' = NoChild
    BY <1>1, <1>2, <1>3, <1>12, MovedTypes
  <2>2. ASSUME cut = {} PROVE Began(o, e)'
    BY <1>2, <1>4, <1>12, <2>2, MovedBegan
  <2>3. ASSUME cut = {} PROVE SwitchedFrom(o, e)' /\ meta' # Part
    BY <1>4, <1>12, <2>3 DEF SwitchedFrom, Trees, Saved, Moved, Both
  <2>. QED
    BY <2>1, <2>2, <2>3
<1>. QED
  BY <1>1, <1>7, <1>8, <1>9, <1>10, <1>11, <1>12, SwitchMoves

\* install and update begin, over what a start may meet.
LEMMA BeginStep ==
  ASSUME PackageInv, NEW kind \in {"install", "update"}, NEW v \in Versions, BeginSwitch(kind, v)
  PROVE  PackageInv'
<1>1. /\ PackageTypes /\ operation = NoCommand /\ child = NoChild
      /\ UNCHANGED <<package, env, meta, child, kills, cut>>
  BY DEF PackageInv, BeginSwitch, MayCommit
<1>2. v \in Tree /\ meta \in Tree
  BY <1>1, TreeValues DEF PackageTypes
<1>3. operation' = [kind |-> kind, at |-> "package_away", new |-> v, package |-> Absent,
                  env |-> Absent, meta |-> meta, switched |-> {}]
  BY DEF BeginSwitch, NoCommand
<1>4. operation' \in Command
  BY <1>2, <1>3, TreeValues DEF Command, Forward
<1>5. PackageTypes'
  BY <1>1, <1>3, <1>4 DEF PackageTypes, Forward
<1>6. ASSUME cut = {} PROVE meta # Part /\ Calm
  BY <1>1, <1>6, NoCommandRow DEF PackageInv, Undamaged
<1>7. package \in Tree /\ env \in Tree
  BY <1>1 DEF PackageTypes
<1>8. ASSUME cut = {} PROVE Began(package, env)' /\ SwitchedFrom(package, env)'
  BY <1>1, <1>3, <1>6, <1>8 DEF Began, SwitchedFrom, Trees, Saved, Calm, InOrder
<1>. QED
  BY <1>1, <1>3, <1>5, <1>6, <1>7, <1>8 DEF PackageInv, Undamaged, SwitchShape

\* The last step of a command that succeeds.
LEMMA SweepStep ==
  ASSUME PackageInv, NEW lacks \in BOOLEAN, Sweep(lacks)
  PROVE  PackageInv'
<1>1. /\ PackageTypes /\ operation.kind \in {"install", "update"} /\ operation.at = "sweep"
      /\ operation' = NoCommand /\ UNCHANGED <<package, env, meta, child, kills, cut>>
  <2>1. PackageTypes /\ operation.at = "sweep"
    BY DEF PackageInv, Sweep
  <2>2. operation.kind # "none"
    BY <2>1 DEF PackageTypes, NoCommand
  <2>3. operation.kind # "uninstall"
    BY <2>1 DEF PackageTypes, Removal
  <2>. QED
    BY <2>1, <2>2, <2>3 DEF PackageTypes, Command, Sweep
<1>2. child = NoChild
  BY <1>1 DEF PackageTypes
<1>3. PackageTypes'
  BY <1>1, NoCommandRow DEF PackageTypes
<1>4. ASSUME cut = {} PROVE Trees(operation.new, operation.new, operation.new)
  BY <1>1, <1>4 DEF PackageInv, Undamaged, SwitchShape, SwitchedFrom
<1>5. ASSUME cut = {} PROVE Calm' /\ meta' # Part
  BY <1>1, <1>4, <1>5 DEF Calm, InOrder, Trees, PackageInv, Undamaged
<1>. QED
  BY <1>1, <1>2, <1>3, <1>5, NoCommandRow DEF PackageInv, Undamaged

\* An exception: the command turns back, wherever it is.
LEMMA FailsStep ==
  ASSUME PackageInv, Fails
  PROVE  PackageInv'
<1>1. /\ PackageTypes /\ operation.at \in Forward
      /\ UNCHANGED <<package, env, meta, child, kills, cut>>
  BY DEF PackageInv, Fails, Forward
<1>2. operation.kind \in {"install", "update"}
  <2>1. operation.kind # "none"
    BY <1>1 DEF PackageTypes, NoCommand, Forward
  <2>2. operation.kind # "uninstall"
    BY <1>1 DEF PackageTypes, Removal, Forward
  <2>. QED
    BY <1>1, <2>1, <2>2 DEF PackageTypes, Command
<1>3. operation' = [kind |-> operation.kind, at |-> "undo_env", new |-> operation.new,
                  package |-> operation.package, env |-> operation.env, meta |-> operation.meta,
                  switched |-> operation.switched]
  BY <1>1 DEF Fails, PackageTypes, Command
<1>4. Moved("undo_env", operation.package, operation.env, operation.switched)
  BY <1>1, <1>3 DEF Moved, PackageTypes, Command, Backward
<1>5. PackageTypes' /\ operation'.kind = operation.kind /\ child' = NoChild
  BY <1>1, <1>2, <1>4, MovedTypes DEF PackageTypes, Backward
<1>6. ASSUME cut = {} PROVE SwitchShape'
  <2>1. PICK o \in Tree, e \in Tree : Began(o, e) /\ SwitchedFrom(o, e)
    BY <1>2, <1>6 DEF PackageInv, Undamaged, SwitchShape
  <2>2. Began(o, e)'
    BY <1>1, <1>4, <2>1, MovedBegan
  <2>3. SwitchedFrom(o, e)'
    BY <1>1, <1>4, <2>1 DEF SwitchedFrom, Trees, Saved, Moved, Forward
  <2>. QED
    BY <2>2, <2>3 DEF SwitchShape
<1>. QED
  BY <1>1, <1>2, <1>5, <1>6 DEF PackageInv, Undamaged

\* What the undoing does, step by step; the last one ends the command.
LEMMA UndoMoves ==
  ASSUME PackageTypes, Undo
  PROVE  \/ /\ operation.at = "undo_env" /\ UNCHANGED <<package, meta>>
            /\ env' = IF "env" \in operation.switched THEN Absent ELSE env
            /\ Moved("undo_env_back", operation.package, operation.env, operation.switched)
         \/ /\ operation.at = "undo_env_back" /\ UNCHANGED <<package, meta>>
            /\ env' = IF operation.env # Absent THEN operation.env ELSE env
            /\ Moved("undo_package", operation.package, operation.env, operation.switched)
         \/ /\ operation.at = "undo_package" /\ UNCHANGED <<env, meta>>
            /\ package' = IF "package" \in operation.switched THEN Absent ELSE package
            /\ Moved("undo_package_back", operation.package, operation.env, operation.switched)
         \/ /\ operation.at = "undo_package_back" /\ UNCHANGED <<env, meta>>
            /\ package' = IF operation.package # Absent THEN operation.package ELSE package
            /\ Moved("undo_record", operation.package, operation.env, operation.switched)
         \/ /\ operation.at = "undo_record" /\ meta' = operation.meta /\ UNCHANGED <<package, env>>
            /\ operation' = NoCommand
<1>. DEFINE G == Forward \union Backward \union {"sweep"}
<1>0. operation \in Command /\ operation' = MovesOn(operation)
  BY DEF PackageTypes, Undo
<1>1. CASE operation.at = "undo_env"
  <2>1. Thereafter(operation.at) = "undo_env_back" /\ "undo_env_back" \in G
    BY <1>1, Afters DEF Backward
  <2>2. Moved("undo_env_back", operation.package, operation.env, operation.switched)
    BY <1>0, <2>1, GoesOn
  <2>. QED
    BY <1>1, <2>2 DEF Undo
<1>2. CASE operation.at = "undo_env_back"
  <2>1. Thereafter(operation.at) = "undo_package" /\ "undo_package" \in G
    BY <1>2, Afters DEF Backward
  <2>2. Moved("undo_package", operation.package, operation.env, operation.switched)
    BY <1>0, <2>1, GoesOn
  <2>. QED
    BY <1>2, <2>2 DEF Undo
<1>3. CASE operation.at = "undo_package"
  <2>1. Thereafter(operation.at) = "undo_package_back" /\ "undo_package_back" \in G
    BY <1>3, Afters DEF Backward
  <2>2. Moved("undo_package_back", operation.package, operation.env, operation.switched)
    BY <1>0, <2>1, GoesOn
  <2>. QED
    BY <1>3, <2>2 DEF Undo
<1>4. CASE operation.at = "undo_package_back"
  <2>1. Thereafter(operation.at) = "undo_record" /\ "undo_record" \in G
    BY <1>4, Afters DEF Backward
  <2>2. Moved("undo_record", operation.package, operation.env, operation.switched)
    BY <1>0, <2>1, GoesOn
  <2>. QED
    BY <1>4, <2>2 DEF Undo
<1>5. CASE operation.at = "undo_record"
  <2>1. Thereafter(operation.at) = "end"
    BY <1>5, Afters
  <2>. QED
    BY <1>0, <1>5, <2>1 DEF Undo, MovesOn, PutBack
<1>6. operation.at \in Backward
  BY DEF Undo, Backward
<1>. QED
  BY <1>1, <1>2, <1>3, <1>4, <1>5, <1>6 DEF Backward

\* The undoing, one step further.
LEMMA UndoStep ==
  ASSUME PackageInv, Undo
  PROVE  PackageInv'
<1>1. /\ PackageTypes /\ operation.at \in Backward
      /\ UNCHANGED <<kills, cut, child>>
  BY DEF PackageInv, Undo, Backward
<1>2. operation.kind \in {"install", "update"} /\ child = NoChild
  <2>1. operation.kind # "none"
    BY <1>1 DEF PackageTypes, NoCommand, Backward
  <2>2. operation.kind # "uninstall"
    BY <1>1 DEF PackageTypes, Removal, Backward
  <2>. QED
    BY <1>1, <2>1, <2>2 DEF PackageTypes, Command
<1>3. /\ Absent \in Tree /\ package \in Tree /\ env \in Tree /\ meta \in Tree
      /\ operation.package \in Tree /\ operation.env \in Tree /\ operation.meta \in Tree
  BY <1>1, TreeValues DEF PackageTypes, Command
<1>4. PICK o \in Tree, e \in Tree :
             cut = {} => Began(o, e) /\ SwitchedFrom(o, e) /\ meta # Part
  BY <1>2, <1>3 DEF PackageInv, Undamaged, SwitchShape
<1>5. CASE operation.at # "undo_record"
  <2>1. SUFFICES /\ PackageTypes' /\ operation'.kind = operation.kind /\ child' = NoChild
                 /\ meta' = meta
                 /\ cut = {} => Began(o, e)' /\ SwitchedFrom(o, e)'
    BY <1>1, <1>2, <1>4 DEF PackageInv, Undamaged, SwitchShape
  <2>2. CASE /\ operation.at = "undo_env" /\ UNCHANGED <<package, meta>>
             /\ env' = IF "env" \in operation.switched THEN Absent ELSE env
             /\ Moved("undo_env_back", operation.package, operation.env, operation.switched)
    <3>1. PackageTypes' /\ operation'.kind = operation.kind /\ child' = NoChild
      BY <1>1, <1>2, <1>3, <2>2, MovedTypes DEF Backward
    <3>2. ASSUME cut = {} PROVE Began(o, e)'
      BY <1>1, <1>4, <2>2, <3>2, MovedBegan
    <3>3. ASSUME cut = {} PROVE SwitchedFrom(o, e)'
      BY <1>4, <2>2, <3>3 DEF SwitchedFrom, Trees, Saved, Moved, Both
    <3>. QED
      BY <2>2, <3>1, <3>2, <3>3
  <2>3. CASE /\ operation.at = "undo_env_back" /\ UNCHANGED <<package, meta>>
             /\ env' = IF operation.env # Absent THEN operation.env ELSE env
             /\ Moved("undo_package", operation.package, operation.env, operation.switched)
    <3>1. PackageTypes' /\ operation'.kind = operation.kind /\ child' = NoChild
      BY <1>1, <1>2, <1>3, <2>3, MovedTypes DEF Backward
    <3>2. ASSUME cut = {} PROVE Began(o, e)'
      BY <1>1, <1>4, <2>3, <3>2, MovedBegan
    <3>3. ASSUME cut = {} PROVE SwitchedFrom(o, e)'
      BY <1>4, <2>3, <3>3 DEF SwitchedFrom, Trees, Saved, Moved, Both
    <3>. QED
      BY <2>3, <3>1, <3>2, <3>3
  <2>4. CASE /\ operation.at = "undo_package" /\ UNCHANGED <<env, meta>>
             /\ package' = IF "package" \in operation.switched THEN Absent ELSE package
             /\ Moved("undo_package_back", operation.package, operation.env, operation.switched)
    <3>1. PackageTypes' /\ operation'.kind = operation.kind /\ child' = NoChild
      BY <1>1, <1>2, <1>3, <2>4, MovedTypes DEF Backward
    <3>2. ASSUME cut = {} PROVE Began(o, e)'
      BY <1>1, <1>4, <2>4, <3>2, MovedBegan
    <3>3. ASSUME cut = {} PROVE SwitchedFrom(o, e)'
      BY <1>4, <2>4, <3>3 DEF SwitchedFrom, Trees, Saved, Moved, Both
    <3>. QED
      BY <2>4, <3>1, <3>2, <3>3
  <2>5. CASE /\ operation.at = "undo_package_back" /\ UNCHANGED <<env, meta>>
             /\ package' = IF operation.package # Absent THEN operation.package ELSE package
             /\ Moved("undo_record", operation.package, operation.env, operation.switched)
    <3>1. PackageTypes' /\ operation'.kind = operation.kind /\ child' = NoChild
      BY <1>1, <1>2, <1>3, <2>5, MovedTypes DEF Backward
    <3>2. ASSUME cut = {} PROVE Began(o, e)'
      BY <1>1, <1>4, <2>5, <3>2, MovedBegan
    <3>3. ASSUME cut = {} PROVE SwitchedFrom(o, e)'
      BY <1>4, <2>5, <3>3 DEF SwitchedFrom, Trees, Saved, Moved, Both
    <3>. QED
      BY <2>5, <3>1, <3>2, <3>3
  <2>. QED
    BY <1>1, <1>5, <2>2, <2>3, <2>4, <2>5, UndoMoves
<1>6. CASE operation.at = "undo_record"
  <2>1. meta' = operation.meta /\ UNCHANGED <<package, env>> /\ operation' = NoCommand
    BY <1>1, <1>6, UndoMoves
  <2>2. PackageTypes'
    BY <1>1, <1>2, <1>3, <2>1, NoCommandRow DEF PackageTypes
  <2>3. ASSUME cut = {} PROVE Calm' /\ meta' # Part
    BY <1>1, <1>4, <1>6, <2>1, <2>3 DEF Began, SwitchedFrom, Trees, Calm, InOrder
  <2>. QED
    BY <1>1, <1>2, <2>1, <2>2, <2>3, NoCommandRow DEF PackageInv, Undamaged
<1>. QED
  BY <1>5, <1>6

\* uninstall begins.
LEMMA UninstallStep ==
  ASSUME PackageInv, Uninstall
  PROVE  PackageInv'
<1>1. /\ PackageTypes /\ operation = NoCommand /\ child = NoChild
      /\ UNCHANGED <<package, env, meta, child, kills, cut>>
  BY DEF PackageInv, Uninstall
<1>2. operation' = [kind |-> "uninstall", at |-> "remove_package", new |-> Absent, package |-> Absent,
                  env |-> Absent, meta |-> Absent, switched |-> {}]
  BY DEF Uninstall, NoCommand
<1>3. operation' \in Command
  BY <1>2, TreeValues DEF Command, Removal
<1>4. PackageTypes'
  BY <1>1, <1>2, <1>3 DEF PackageTypes, Removal
<1>5. ASSUME cut = {} PROVE meta # Part /\ Calm
  BY <1>1, <1>5, NoCommandRow DEF PackageInv, Undamaged
<1>6. ASSUME cut = {} PROVE UninstallShape'
  BY <1>1, <1>2, <1>5, <1>6 DEF UninstallShape, Calm
<1>. QED
  BY <1>1, <1>2, <1>4, <1>5, <1>6 DEF PackageInv, Undamaged

\* uninstall, one removal further.
LEMMA RemoveStep ==
  ASSUME PackageInv, Remove
  PROVE  PackageInv'
<1>1. /\ PackageTypes /\ operation.kind = "uninstall" /\ operation.at \in Removal
      /\ UNCHANGED <<child, kills, cut>>
  BY DEF PackageInv, PackageTypes, Remove
<1>2. child = NoChild
  BY <1>1 DEF PackageTypes
<1>3. ASSUME cut = {} PROVE UninstallShape /\ meta # Part
  BY <1>1, <1>3 DEF PackageInv, Undamaged
<1>4. Absent \in Tree /\ package \in Tree /\ env \in Tree /\ meta \in Tree /\ Absent # Part
  BY <1>1, TreeValues DEF PackageTypes
<1>5. ASSUME NEW a \in Removal, operation' = [operation EXCEPT !.at = a],
             package' \in Tree, env' \in Tree, meta' \in Tree
      PROVE  PackageTypes' /\ operation'.kind = "uninstall" /\ operation'.at = a
  <2>1. operation' = [kind |-> operation.kind, at |-> a, new |-> operation.new,
                    package |-> operation.package, env |-> operation.env, meta |-> operation.meta,
                    switched |-> operation.switched]
    BY <1>1, <1>5 DEF PackageTypes, Command
  <2>2. operation' \in Command
    BY <1>1, <2>1 DEF PackageTypes, Command
  <2>. QED
    BY <1>1, <1>2, <1>5, <2>1, <2>2 DEF PackageTypes
<1>6. CASE operation.at = "remove_package"
  <2>1. /\ package' = Absent /\ operation' = [operation EXCEPT !.at = "remove_env"]
        /\ UNCHANGED <<env, meta>>
    BY <1>6 DEF Remove
  <2>2. PackageTypes' /\ operation'.kind = "uninstall" /\ operation'.at = "remove_env"
    BY <1>4, <1>5, <2>1 DEF Removal
  <2>3. ASSUME cut = {} PROVE UninstallShape' /\ meta' # Part
    BY <1>3, <2>1, <2>2, <2>3 DEF UninstallShape
  <2>. QED
    BY <1>1, <1>2, <2>2, <2>3 DEF PackageInv, Undamaged
<1>7. CASE operation.at = "remove_env"
  <2>1. /\ env' = Absent /\ operation' = [operation EXCEPT !.at = "remove_record"]
        /\ UNCHANGED <<package, meta>>
    BY <1>7 DEF Remove
  <2>2. PackageTypes' /\ operation'.kind = "uninstall" /\ operation'.at = "remove_record"
    BY <1>4, <1>5, <2>1 DEF Removal
  <2>3. ASSUME cut = {} PROVE UninstallShape' /\ meta' # Part
    BY <1>3, <1>7, <2>1, <2>2, <2>3 DEF UninstallShape
  <2>. QED
    BY <1>1, <1>2, <2>2, <2>3 DEF PackageInv, Undamaged
<1>8. CASE operation.at = "remove_record"
  <2>1. /\ meta' = Absent /\ operation' = [operation EXCEPT !.at = "switch_off"]
        /\ UNCHANGED <<package, env>>
    BY <1>8 DEF Remove
  <2>2. PackageTypes' /\ operation'.kind = "uninstall" /\ operation'.at = "switch_off"
    BY <1>4, <1>5, <2>1 DEF Removal
  <2>3. ASSUME cut = {} PROVE UninstallShape' /\ meta' # Part
    BY <1>1, <1>3, <1>4, <1>8, <2>1, <2>2, <2>3 DEF UninstallShape
  <2>. QED
    BY <1>1, <1>2, <2>2, <2>3 DEF PackageInv, Undamaged
<1>9. CASE operation.at = "switch_off"
  <2>1. operation' = NoCommand /\ UNCHANGED <<package, env, meta>>
    BY <1>9 DEF Remove
  <2>2. PackageTypes'
    BY <1>1, <1>2, <2>1, NoCommandRow DEF PackageTypes
  <2>3. ASSUME cut = {} PROVE Calm'
    BY <1>1, <1>3, <1>9, <2>1, <2>3 DEF UninstallShape, Calm, InOrder
  <2>. QED
    BY <1>1, <1>2, <1>3, <2>1, <2>2, <2>3, NoCommandRow DEF PackageInv, Undamaged
<1>. QED
  BY <1>1, <1>6, <1>7, <1>8, <1>9 DEF Removal

\* A removal cut short leaves the tree, a part of it, or nothing.
LEMMA Halves ==
  ASSUME NEW t \in Tree, NEW now \in BOOLEAN, NEW u \in Halved(t, now)
  PROVE  u \in Tree /\ (~now => u = t) /\ (u # t => u \in {Part, Absent} /\ t # Absent)
  BY TreeValues DEF Halved

\* A kill leaves what a start refuses, or whole, but for the windows `Unseen'.
LEMMA KilledStep ==
  ASSUME PackageInv, Killed
  PROVE  PackageInv'
<1>. DEFINE removing == \/ operation.at = "remove_package"
                        \/ operation.at = "undo_package" /\ "package" \in operation.switched
            clearing == \/ operation.at = "remove_env"
                        \/ operation.at = "undo_env" /\ "env" \in operation.switched
<1>1. /\ PackageTypes /\ operation.kind # "none" /\ child = NoChild
      /\ operation' = NoCommand /\ kills' = kills + 1 /\ cut' = cut \union Unseen
      /\ UNCHANGED <<meta, child>>
  BY DEF PackageInv, PackageTypes, Killed
<1>2. package' \in Halved(package, removing) /\ env' \in Halved(env, clearing)
  BY DEF Killed
<1>. HIDE DEF removing, clearing
<1>3. package \in Tree /\ env \in Tree /\ removing \in BOOLEAN /\ clearing \in BOOLEAN
  BY <1>1 DEF PackageTypes, removing, clearing
<1>4. /\ package' \in Tree /\ (~removing => package' = package)
      /\ package' # package => package' \in {Part, Absent} /\ package # Absent
  BY <1>2, <1>3, Halves
<1>5. env' \in Tree /\ (~clearing => env' = env)
  BY <1>2, <1>3, Halves
<1>6. kills' \in Nat /\ kills' # 0 /\ cut' \in SUBSET {"install", "update"}
  <2>1. kills \in Nat /\ cut \subseteq {"install", "update"}
    BY <1>1 DEF PackageTypes
  <2>2. Unseen \subseteq {"install", "update"}
    BY DEF Unseen
  <2>3. kills' \in Nat /\ kills' # 0
    BY <1>1, <2>1
  <2>4. cut' \subseteq {"install", "update"}
    BY <1>1, <2>1, <2>2
  <2>. QED
    BY <2>3, <2>4
<1>7. PackageTypes'
  BY <1>1, <1>4, <1>5, <1>6, NoCommandRow DEF PackageTypes
<1>8. SUFFICES ASSUME cut' = {} PROVE InOrder(package, env, meta)' /\ meta # Part
  BY <1>1, <1>6, <1>7, NoCommandRow DEF PackageInv, Undamaged, Calm
<1>9. Unseen = {} /\ cut = {}
  BY <1>1, <1>8
<1>10. Undamaged
  BY <1>9 DEF PackageInv
<1>11. CASE operation.kind \in {"install", "update"}
  <2>1. PICK o \in Tree, e \in Tree : Began(o, e) /\ SwitchedFrom(o, e)
    BY <1>10, <1>11 DEF Undamaged, SwitchShape
  <2>2. meta # Part /\ operation.new # Absent /\ operation.new # Part
    BY <1>10, <2>1, TreeValues DEF Undamaged, Began
  <2>3. operation.at \in Forward \union Backward \union {"sweep"}
    BY <1>1, <1>11 DEF PackageTypes
  <2>4. ~(/\ operation.at \in {"env_in", "record", "undo_env", "undo_env_back", "undo_package",
                             "undo_record"}
          /\ "package" \in operation.switched
          /\ package = operation.new /\ meta \in {Absent, operation.new})
    BY <1>9, <1>11 DEF Unseen
  <2>5. CASE operation.at \in {"package_away", "env_away", "package_in", "check", "sweep"}
    <3>1. ~removing /\ ~clearing
      BY <2>5 DEF removing, clearing
    <3>2. InOrder(package, env, meta)
      BY <2>1, <2>5 DEF Began, SwitchedFrom, Trees, InOrder
    <3>. QED
      BY <1>1, <1>4, <1>5, <2>2, <3>1, <3>2 DEF InOrder
  <2>6. CASE operation.at \in {"env_in", "record"}
    <3>1. ~removing /\ ~clearing
      BY <2>6 DEF removing, clearing
    <3>2. package = operation.new /\ "package" \in operation.switched
      BY <2>1, <2>6 DEF SwitchedFrom, Trees, Saved, Both
    <3>. QED
      BY <1>1, <1>4, <1>5, <2>2, <2>4, <2>6, <3>1, <3>2 DEF InOrder
  <2>7. CASE operation.at = "undo_env"
    <3>1. ~removing
      BY <2>7 DEF removing
    <3>2. \/ package = Absent
          \/ package = operation.new /\ "package" \in operation.switched
          \/ InOrder(package, env, meta) /\ ~clearing
      BY <2>1, <2>7 DEF Began, SwitchedFrom, Trees, Saved, clearing, Both
    <3>. QED
      BY <1>1, <1>4, <1>5, <2>2, <2>4, <2>7, <3>1, <3>2 DEF InOrder
  <2>8. CASE operation.at = "undo_env_back"
    <3>1. ~removing /\ ~clearing
      BY <2>8 DEF removing, clearing
    <3>2. \/ package = Absent
          \/ package = operation.new /\ "package" \in operation.switched
          \/ InOrder(package, env, meta)
      BY <2>1, <2>8 DEF Began, SwitchedFrom, Trees, Saved, Both
    <3>. QED
      BY <1>1, <1>4, <1>5, <2>2, <2>4, <2>8, <3>1, <3>2 DEF InOrder
  <2>9. CASE operation.at = "undo_package"
    <3>1. ~clearing
      BY <2>9 DEF clearing
    <3>2. \/ package = Absent
          \/ package = operation.new /\ "package" \in operation.switched
          \/ InOrder(package, env, meta) /\ ~removing
      BY <2>1, <2>9 DEF Began, SwitchedFrom, Trees, removing
    <3>. QED
      BY <1>1, <1>4, <1>5, <2>2, <2>4, <2>9, <3>1, <3>2 DEF InOrder
  <2>10. CASE operation.at = "undo_package_back"
    <3>1. ~removing /\ ~clearing
      BY <2>10 DEF removing, clearing
    <3>2. package = Absent \/ InOrder(package, env, meta)
      BY <2>1, <2>10 DEF Began, SwitchedFrom, Trees
    <3>. QED
      BY <1>1, <1>4, <1>5, <2>2, <3>1, <3>2 DEF InOrder
  <2>11. CASE operation.at = "undo_record"
    <3>1. ~removing /\ ~clearing
      BY <2>11 DEF removing, clearing
    <3>2. \/ InOrder(package, env, meta)
          \/ package # meta /\ meta = operation.new
          \/ package = operation.new /\ meta = operation.new /\ "package" \in operation.switched
      BY <2>1, <2>11 DEF Began, SwitchedFrom, Trees
    <3>. QED
      BY <1>1, <1>4, <1>5, <2>2, <2>4, <2>11, <3>1, <3>2 DEF InOrder
  <2>. QED
    BY <2>3, <2>5, <2>6, <2>7, <2>8, <2>9, <2>10, <2>11 DEF Forward, Backward
<1>12. CASE operation.kind = "uninstall"
  <2>1. UninstallShape /\ meta # Part
    BY <1>10, <1>12 DEF Undamaged
  <2>2. CASE operation.at = "remove_package"
    <3>1. ~clearing
      BY <2>2 DEF clearing
    <3>. QED
      BY <1>1, <1>4, <1>5, <2>1, <2>2, <3>1 DEF UninstallShape, InOrder
  <2>3. CASE operation.at # "remove_package"
    <3>1. package = Absent
      BY <2>1, <2>3 DEF UninstallShape
    <3>2. package' = Absent
      BY <1>2, <3>1 DEF Halved
    <3>. QED
      BY <2>1, <3>2 DEF InOrder
  <2>. QED
    BY <2>2, <2>3
<1>. QED
  BY <1>1, <1>11, <1>12 DEF PackageTypes, Command

\* _start_process checks the package against the record.
LEMMA StartProcessStep ==
  ASSUME PackageInv, StartProcess
  PROVE  PackageInv'
<1>1. /\ PackageTypes /\ operation = NoCommand /\ package # Absent /\ Verifies(package, meta)
      /\ child' = [package |-> package, env |-> env]
      /\ UNCHANGED <<package, env, meta, operation, kills, cut>>
  BY DEF PackageInv, StartProcess
<1>2. PackageTypes'
  BY <1>1, NoCommandRow DEF PackageTypes
<1>3. cut = {} => Undamaged /\ Calm
  BY <1>1, NoCommandRow DEF PackageInv, Undamaged
<1>4. cut = {} => package = meta /\ env = meta
  BY <1>1, <1>3 DEF Calm, InOrder, Verifies
<1>. QED
  BY <1>1, <1>2, <1>3, <1>4, NoCommandRow DEF PackageInv, Undamaged, Calm

\* What leaves the trees and the command alone.
LEMMA PackageUntouched ==
  ASSUME PackageInv, UNCHANGED <<package, env, meta, operation, kills, cut>>,
         child' \in {child, NoChild}
  PROVE  PackageInv'
<1>1. PackageTypes'
  BY DEF PackageInv, PackageTypes
<1>2. cut = {} => Undamaged'
  BY DEF PackageInv, Undamaged, Calm, SwitchShape, Began, SwitchedFrom, UninstallShape, Trees, Saved
<1>. QED
  BY <1>1, <1>2 DEF PackageInv

LEMMA PackageStepInv ==
  ASSUME PackageInv, [PackageNext]_packageVars
  PROVE  PackageInv'
<1>1. CASE UNCHANGED packageVars \/ SetEnabled \/ SetGrants \/ ProcessEnds
  BY <1>1, PackageUntouched DEF packageVars, SetEnabled, SetGrants, ProcessEnds
<1>6. CASE UpdateVerifies \/ UninstallChecks \/ \E v \in Versions : UpdateCompares(v)
  BY <1>6, PackageUntouched DEF UpdateVerifies, UninstallChecks, UpdateCompares
<1>2. ASSUME NEW kind \in {"install", "update"}, NEW v \in Versions, BeginSwitch(kind, v)
      PROVE  PackageInv'
  BY <1>2, BeginStep
<1>3. ASSUME NEW lacks \in BOOLEAN, Sweep(lacks)
      PROVE  PackageInv'
  BY <1>3, SweepStep
<1>4. CASE Switch \/ Fails \/ Undo
  BY <1>4, SwitchStep, FailsStep, UndoStep
<1>5. CASE Uninstall \/ Remove \/ Killed \/ StartProcess
  BY <1>5, UninstallStep, RemoveStep, KilledStep, StartProcessStep
<1>. QED
  BY <1>1, <1>2, <1>3, <1>4, <1>5, <1>6 DEF PackageNext

\* At every step of install, update, their undoing and uninstall, the trees,
\* the record and the rollback copies are where the order of the renames puts
\* them, as long as no kill fell into one of the windows `Unseen'.
THEOREM PackageInvariance == PackageSpec => []PackageInv
<1>1. PackageInit => PackageInv
  <2> SUFFICES ASSUME PackageInit PROVE PackageInv
    OBVIOUS
  <2>1. PackageTypes
    BY TreeValues, NoCommandRow DEF PackageInit, PackageTypes
  <2>2. Undamaged
    BY TreeValues, NoCommandRow DEF PackageInit, Undamaged, Calm, InOrder
  <2>. QED
    BY <2>1, <2>2 DEF PackageInv
<1>2. PackageInv /\ [PackageNext]_packageVars => PackageInv'
  BY PackageStepInv
<1>. QED
  BY <1>1, <1>2, PTL DEF PackageSpec

\* _start_process only ever starts a whole plugin that agrees with its record,
\* and a command that was not killed leaves one version, the old or the new.
THEOREM StartedWhole == PackageSpec => []StartsWhole
<1>1. PackageInv => StartsWhole
  <2> SUFFICES ASSUME PackageInv PROVE StartsWhole
    OBVIOUS
  <2>1. child # NoChild => \/ child.package = child.env /\ child.package = meta
                           \/ cut # {}
    BY DEF PackageInv, Undamaged
  <2>2. operation = NoCommand /\ kills = 0 => package = env /\ env = meta
    BY NoCommandRow DEF PackageInv, PackageTypes, Undamaged, Calm
  <2>. QED
    BY <2>1, <2>2 DEF StartsWhole
<1>. QED
  BY <1>1, PackageInvariance, PTL

(***************************************************************************)
(* The processes of a plugin: the parts of the inductive invariant.        *)
(***************************************************************************)
ProcRow ==
  [state: {"none", "alive", "dead"}, expected: BOOLEAN, watched: BOOLEAN, behind: BOOLEAN]
StartPlaces == {"start", "spawn", "handshake"}
QuitPlaces  == {"quitting", "closing"}
StopPlaces  == {"stopping", "draining"}
Place ==
  [at: {"idle"} \union StartPlaces \union QuitPlaces \union StopPlaces,
   op: {"none", "enable", "disable", "restart", "supervise", "undo"}, proc: 0..MaxProcs]

RuntimeTypes ==
  /\ enabled \in BOOLEAN /\ overlapped \in BOOLEAN
  /\ entry \in 0..MaxProcs
  /\ proc \in [Procs -> ProcRow]
  /\ caller \in [Callers -> Place]

\* Processes are numbered as they start, and an entry is of one that started.
StartedInOrder ==
  /\ \E k \in 0..MaxProcs : \A p \in Procs : proc[p].state # "none" <=> p <= k
  /\ entry # 0 => proc[entry].state # "none"

\* What a caller does fits where it stands; a child whose pipes are drained is dead.
PlacesFit ==
  \A c \in Callers :
    /\ caller[c].at = "idle" => caller[c] = Away
    /\ caller[c].at \in StartPlaces \union QuitPlaces =>
         caller[c].op \in {"enable", "restart", "supervise"}
    /\ caller[c].at \in StopPlaces => caller[c].op \in {"disable", "restart", "supervise", "undo"}
    /\ caller[c].at \in StopPlaces \union QuitPlaces \union {"handshake"} =>
         caller[c].proc \in Procs /\ proc[caller[c].proc].state # "none"
    /\ caller[c].at \in {"draining", "closing"} => proc[caller[c].proc].state = "dead"
    /\ caller[c].op = "supervise" => c = Sup

\* _start_lock: one caller at a time spawns a child or ends it again, and nobody
\* enters another.
OneStarter ==
  \A c \in Callers :
    /\ caller[c].at \in {"spawn", "handshake", "quitting", "closing"} => startLock = c
    /\ caller[c].at = "spawn" => entry = 0
    /\ caller[c].at \in {"handshake", "quitting", "closing"} => entry \in {0, caller[c].proc}

\* A process that lives has the entry.
LivingManaged == ~overlapped => Alive \subseteq {entry}

\* The caller will switch the plugin on, or end the child.
Brings(c) ==
  \/ caller[c].at \in {"handshake", "quitting"} /\ caller[c].op = "enable"
  \/ caller[c].at = "stopping" /\ caller[c].op = "undo"

\* While the plugin is disabled the only starts are those that will enable it,
\* and a child lives only in one of them.
Quiet ==
  /\ \A c \in Callers : /\ caller[c].op # "restart"
                        /\ caller[c].at \in StartPlaces => caller[c].op = "enable"
  /\ \A p \in Alive : \E c \in Callers : caller[c].proc = p /\ Brings(c)

DisabledQuiet == ~overlapped /\ ~enabled => Quiet

RuntimeInv ==
  /\ RuntimeTypes /\ StartedInOrder /\ PlacesFit /\ OneStarter /\ LivingManaged /\ DisabledQuiet
-----------------------------------------------------------------------------
LEMMA CallersFacts ==
  /\ Sup \in Callers /\ "none" \notin Callers /\ 0 \notin Procs
  /\ \A p \in Procs : p \in Nat /\ p \in 0..MaxProcs
  /\ Admins \subseteq Callers /\ Sup \notin Admins
BY RuntimeAssumption DEF Callers, Sup, Procs

\* The next process has a number nobody had before.
LEMMA FreshProcess ==
  ASSUME RuntimeTypes, StartedInOrder, Cardinality(Started) < MaxProcs
  PROVE  LET p == Cardinality(Started) + 1
         IN  /\ p \in Procs /\ proc[p].state = "none"
             /\ \A q \in Procs : proc[q].state # "none" <=> q < p
<1>1. PICK k \in 0..MaxProcs : \A p \in Procs : proc[p].state # "none" <=> p <= k
  BY DEF StartedInOrder
<1>2. Started = 1..k
  BY <1>1, RuntimeAssumption DEF Started, Procs
<1>3. Cardinality(Started) = k
  <2>1. k \in Nat
    BY <1>1, RuntimeAssumption
  <2>2. Cardinality(1..k) = IF 1 > k THEN 0 ELSE k - 1 + 1
    BY <2>1, FS_Interval
  <2>. QED
    BY <1>2, <2>1, <2>2
<1>. QED
  BY <1>1, <1>3, RuntimeAssumption DEF Procs

\* What StartReturned, StartRaised and StopReturned leave.
LEMMA CallerGoes ==
  ASSUME RuntimeTypes, NEW c \in Callers, NEW at, NEW op, NEW p, Goes(c, at, op, p),
         [at |-> at, op |-> op, proc |-> p] \in Place
  PROVE  /\ caller' \in [Callers -> Place]
         /\ caller'[c] = [at |-> at, op |-> op, proc |-> p]
         /\ \A d \in Callers \ {c} : caller'[d] = caller[d]
BY DEF RuntimeTypes, Goes

LEMMA AwayPlace == Away \in Place /\ [at |-> "idle", op |-> "none", proc |-> 0] = Away
BY RuntimeAssumption DEF Away, Place

\* What the writes to an entry of _running leave.
LEMMA ProcWrites ==
  ASSUME NEW r \in ProcRow
  PROVE  /\ [r EXCEPT !.expected = TRUE] \in ProcRow /\ [r EXCEPT !.expected = TRUE].state = r.state
         /\ [r EXCEPT !.behind = TRUE] \in ProcRow /\ [r EXCEPT !.behind = TRUE].state = r.state
         /\ [r EXCEPT !.watched = FALSE] \in ProcRow /\ [r EXCEPT !.watched = FALSE].state = r.state
         /\ [r EXCEPT !.state = "dead"] \in ProcRow /\ [r EXCEPT !.state = "dead"].state = "dead"
         /\ Terminated(r) \in ProcRow /\ Terminated(r).state = "dead"
         /\ [Terminated(r) EXCEPT !.watched = FALSE] \in ProcRow
         /\ [Terminated(r) EXCEPT !.watched = FALSE].state = "dead"
BY DEF ProcRow, Terminated

LEMMA NewRows ==
  /\ [NoProc EXCEPT !.state = "alive", !.watched = TRUE] \in ProcRow
  /\ [NoProc EXCEPT !.state = "alive", !.watched = TRUE].state = "alive"
  /\ [NoProc EXCEPT !.state = "dead"] \in ProcRow
  /\ [NoProc EXCEPT !.state = "dead"].state = "dead"
BY DEF ProcRow, NoProc

LEMMA ProcChanges ==
  ASSUME RuntimeTypes, NEW p \in Procs, NEW r \in ProcRow, proc' = [proc EXCEPT ![p] = r]
  PROVE  /\ proc' \in [Procs -> ProcRow] /\ proc'[p] = r
         /\ \A q \in Procs \ {p} : proc'[q] = proc[q]
BY DEF RuntimeTypes

\* Only a process that was not started yet leaves the state "none".
LEMMA OrderStays ==
  ASSUME RuntimeTypes, StartedInOrder, entry' \in {0, entry},
         \A p \in Procs : proc'[p].state = "none" <=> proc[p].state = "none"
  PROVE  StartedInOrder'
<1>1. entry' # 0 => entry' = entry /\ entry \in Procs
  BY RuntimeAssumption DEF RuntimeTypes, Procs
<1>2. PICK k \in 0..MaxProcs : \A p \in Procs : proc[p].state # "none" <=> p <= k
  BY DEF StartedInOrder
<1>3. \A p \in Procs : proc'[p].state # "none" <=> p <= k
  BY <1>2
<1>4. entry' # 0 => proc'[entry'].state # "none"
  BY <1>1 DEF StartedInOrder
<1>. QED
  BY <1>3, <1>4 DEF StartedInOrder, Procs

LEMMA RecordFailureEffect ==
  ASSUME RuntimeTypes, RecordFailure
  PROVE  /\ enabled' \in BOOLEAN /\ overlapped' \in BOOLEAN /\ (overlapped => overlapped')
         /\ ~overlapped' => ~Newer(Sup)
         /\ ~overlapped' /\ ~enabled' => ~enabled \/ ~Starting(Sup)
BY DEF RecordFailure, RuntimeTypes

\* A start that raised, a start that returned and a stop that returned, with what
\* they say of the callers beside them.
LEMMA StartRaisedEffect ==
  ASSUME RuntimeTypes, NEW c \in Callers, StartRaised(c) \/ StartDeferred(c)
  PROVE  /\ caller' \in [Callers -> Place] /\ caller'[c] = Away
         /\ \A d \in Callers \ {c} : caller'[d] = caller[d]
         /\ enabled' \in BOOLEAN /\ overlapped' \in BOOLEAN /\ (overlapped => overlapped')
         /\ ~overlapped' /\ ~enabled' => ~enabled \/ ~Starting(c)
<1>1. Goes(c, "idle", "none", 0)
  BY DEF StartRaised, StartDeferred
<1>2. (RecordFailure /\ c = Sup) \/ UNCHANGED <<enabled, overlapped>>
  BY DEF StartRaised, StartDeferred
<1>. QED
  BY <1>1, <1>2, CallerGoes, AwayPlace, RecordFailureEffect DEF RuntimeTypes

LEMMA StartReturnedEffect ==
  ASSUME RuntimeTypes, NEW c \in Callers, NEW op, NEW new, StartReturned(c, op, new)
  PROVE  /\ caller' \in [Callers -> Place] /\ caller'[c] = Away
         /\ \A d \in Callers \ {c} : caller'[d] = caller[d]
         /\ enabled' \in BOOLEAN /\ overlapped' = overlapped
         /\ ~enabled' => ~enabled /\ op # "enable"
<1>1. Goes(c, "idle", "none", 0)
  BY DEF StartReturned
<1>2. /\ caller' \in [Callers -> Place] /\ caller'[c] = Away
      /\ \A d \in Callers \ {c} : caller'[d] = caller[d]
  BY <1>1, CallerGoes, AwayPlace
<1>3. CASE op = "enable"
  BY <1>2, <1>3 DEF StartReturned
<1>4. CASE op # "enable"
  <2>1. UNCHANGED <<enabled, overlapped>>
    BY <1>4 DEF StartReturned
  <2>. QED
    BY <1>2, <1>4, <2>1 DEF RuntimeTypes
<1>. QED
  BY <1>3, <1>4

LEMMA StopReturnedEffect ==
  ASSUME RuntimeTypes, NEW c \in Callers, NEW op \in {"disable", "restart", "supervise", "undo"},
         op = "supervise" => c = Sup, StopReturned(c, op)
  PROVE  /\ caller' \in [Callers -> Place]
         /\ caller'[c] = IF op = "restart" THEN [at |-> "start", op |-> "restart", proc |-> 0] ELSE Away
         /\ \A d \in Callers \ {c} : caller'[d] = caller[d]
         /\ enabled' \in BOOLEAN /\ overlapped' \in BOOLEAN /\ (overlapped => overlapped')
         /\ ~overlapped' => ~Newer(c)
         /\ ~overlapped' /\ ~enabled' => ~enabled \/ ~Starting(c)
         /\ op \in {"restart", "undo"} => enabled' = enabled
<1>1. CASE op = "disable"
  <2>1. /\ Goes(c, "idle", "none", 0) /\ enabled' = FALSE
        /\ overlapped' = (overlapped \/ Starting(c) \/ Newer(c))
    BY <1>1 DEF StopReturned
  <2>2. /\ caller' \in [Callers -> Place] /\ caller'[c] = Away
        /\ \A d \in Callers \ {c} : caller'[d] = caller[d]
    BY <2>1, CallerGoes, AwayPlace
  <2>3. /\ enabled' \in BOOLEAN /\ overlapped' \in BOOLEAN /\ (overlapped => overlapped')
        /\ ~overlapped' => ~Newer(c) /\ ~Starting(c)
    BY <2>1
  <2>. QED
    BY <1>1, <2>2, <2>3
<1>2. CASE op = "restart"
  <2>1. /\ Goes(c, "start", "restart", 0) /\ enabled' = enabled
        /\ overlapped' = (overlapped \/ Starting(c) \/ Newer(c))
    BY <1>2 DEF StopReturned
  <2>2. [at |-> "start", op |-> "restart", proc |-> 0] \in Place
    BY RuntimeAssumption DEF Place, StartPlaces
  <2>3. /\ caller' \in [Callers -> Place]
        /\ caller'[c] = [at |-> "start", op |-> "restart", proc |-> 0]
        /\ \A d \in Callers \ {c} : caller'[d] = caller[d]
    BY <2>1, <2>2, CallerGoes
  <2>4. /\ enabled' \in BOOLEAN /\ overlapped' \in BOOLEAN /\ (overlapped => overlapped')
        /\ ~overlapped' => ~Newer(c) /\ ~Starting(c)
    BY <2>1 DEF RuntimeTypes
  <2>. QED
    BY <1>2, <2>1, <2>3, <2>4
<1>3. CASE op = "supervise"
  <2>1. Goes(c, "idle", "none", 0) /\ RecordFailure /\ c = Sup
    BY <1>3 DEF StopReturned
  <2>. QED
    BY <1>3, <2>1, CallerGoes, AwayPlace, RecordFailureEffect
<1>4. CASE op = "undo"
  <2>1. /\ Goes(c, "idle", "none", 0) /\ enabled' = enabled
        /\ overlapped' = (overlapped \/ Newer(c))
    BY <1>4 DEF StopReturned
  <2>2. /\ caller' \in [Callers -> Place] /\ caller'[c] = Away
        /\ \A d \in Callers \ {c} : caller'[d] = caller[d]
    BY <2>1, CallerGoes, AwayPlace
  <2>3. /\ enabled' \in BOOLEAN /\ overlapped' \in BOOLEAN /\ (overlapped => overlapped')
        /\ ~overlapped' => ~Newer(c)
    BY <2>1 DEF RuntimeTypes
  <2>. QED
    BY <1>4, <2>1, <2>2, <2>3
<1>. QED
  BY <1>1, <1>2, <1>3, <1>4

\* A stop that finds no entry returns at once.
LEMMA NothingToStop ==
  ASSUME RuntimeInv, NEW c \in Callers, NEW op, entry = 0, UNCHANGED <<proc, entry>>,
         caller[c].at \in {"idle", "start", "handshake"},
         startLock' = IF caller[c].at = "handshake" THEN "none" ELSE startLock,
         /\ caller' \in [Callers -> Place]
         /\ caller'[c] = IF op = "restart" THEN [at |-> "start", op |-> "restart", proc |-> 0] ELSE Away
         /\ \A d \in Callers \ {c} : caller'[d] = caller[d]
         /\ enabled' \in BOOLEAN /\ overlapped' \in BOOLEAN /\ (overlapped => overlapped')
         /\ (~overlapped' /\ ~enabled' => ~enabled \/ ~Starting(c))
         /\ (op = "restart" => enabled' /\ enabled)
  PROVE  RuntimeInv'
<1>1. /\ entry = 0 /\ entry' = 0 /\ UNCHANGED proc
      /\ caller[c].at \in {"idle", "start", "handshake"}
      /\ startLock' = IF caller[c].at = "handshake" THEN "none" ELSE startLock
  OBVIOUS
<1>2. /\ caller' \in [Callers -> Place]
      /\ caller'[c] = IF op = "restart" THEN [at |-> "start", op |-> "restart", proc |-> 0] ELSE Away
      /\ \A d \in Callers \ {c} : caller'[d] = caller[d]
      /\ enabled' \in BOOLEAN /\ overlapped' \in BOOLEAN /\ (overlapped => overlapped')
      /\ (~overlapped' /\ ~enabled' => ~enabled \/ ~Starting(c))
      /\ (op = "restart" => enabled' /\ enabled)
  OBVIOUS
<1>3. RuntimeTypes'
  <2>1. enabled' \in BOOLEAN /\ overlapped' \in BOOLEAN
    BY <1>2 DEF RuntimeInv, RuntimeTypes
  <2>2. entry' \in 0..MaxProcs /\ proc' \in [Procs -> ProcRow] /\ caller' \in [Callers -> Place]
    BY <1>1, <1>2, CallersFacts, RuntimeAssumption DEF RuntimeInv, RuntimeTypes
  <2>. QED
    BY <2>1, <2>2 DEF RuntimeTypes
<1>4. StartedInOrder'
  BY <1>1, OrderStays DEF RuntimeInv
<1>5. PlacesFit'
  BY <1>1, <1>2, CallersFacts, RuntimeAssumption DEF RuntimeInv, Starting, Away, RuntimeTypes, PlacesFit, StartPlaces, QuitPlaces, StopPlaces, Place, ProcRow
<1>6. OneStarter'
  BY <1>1, <1>2, CallersFacts, RuntimeAssumption DEF RuntimeInv, Starting, Away, RuntimeTypes, PlacesFit, OneStarter, StartPlaces, QuitPlaces, StopPlaces, Place, ProcRow
<1>7. LivingManaged'
  <2>. SUFFICES ASSUME ~overlapped' PROVE Alive' \subseteq {entry'}
    BY DEF LivingManaged
  <2>1. ~overlapped
    BY <1>2
  <2>2. Alive \subseteq {entry}
    BY <2>1 DEF RuntimeInv, LivingManaged
  <2>. QED
    BY <2>2, <1>1, <1>2, CallersFacts, RuntimeAssumption DEF RuntimeInv, Starting, Away, RuntimeTypes, PlacesFit, OneStarter, StartPlaces, QuitPlaces, StopPlaces, Place, ProcRow, Alive
<1>8. DisabledQuiet'
  <2>. SUFFICES ASSUME ~overlapped', ~enabled' PROVE Quiet'
    BY DEF DisabledQuiet
  <2>1. ~overlapped /\ (~enabled => Quiet)
    BY <1>2 DEF RuntimeInv, DisabledQuiet
  <2>2. Alive \subseteq {entry} /\ Alive' \subseteq {entry'}
    BY <2>1, <1>7 DEF RuntimeInv, LivingManaged
  <2>. QED
    BY <2>1, <2>2, <1>1, <1>2, CallersFacts, RuntimeAssumption DEF RuntimeInv, Quiet, Brings, Starting, Away, RuntimeTypes, PlacesFit, OneStarter, StartPlaces, QuitPlaces, StopPlaces, Place, ProcRow, Alive
<1>. QED
  BY <1>3, <1>4, <1>5, <1>6, <1>7, <1>8 DEF RuntimeInv

\* A stop that finds one marks the exit as expected and waits.
LEMMA StopIsAsked ==
  ASSUME RuntimeInv, NEW c \in Callers, NEW op \in {"disable", "restart", "supervise", "undo"},
         op = "supervise" => c = Sup, op = "restart" => enabled,
         caller[c].at \in {"idle", "start", "handshake"}, caller[c].at = "idle" \/ op = "undo",
         entry # 0, proc' = [proc EXCEPT ![entry].expected = TRUE],
         Goes(c, "stopping", op, entry), UNCHANGED <<enabled, overlapped, entry>>,
         startLock' = IF caller[c].at = "handshake" THEN "none" ELSE startLock
  PROVE  RuntimeInv'
<1>1. /\ entry \in Procs /\ entry # 0 /\ proc[entry].state # "none"
      /\ caller[c].at \in {"idle", "start", "handshake"} /\ (caller[c].at = "idle" \/ op = "undo")
      /\ (op = "supervise" => c = Sup) /\ (op = "restart" => enabled)
      /\ UNCHANGED <<enabled, overlapped, entry>>
      /\ startLock' = IF caller[c].at = "handshake" THEN "none" ELSE startLock
  BY RuntimeAssumption DEF RuntimeInv, RuntimeTypes, StartedInOrder, Procs
<1>2. [at |-> "stopping", op |-> op, proc |-> entry] \in Place
  BY <1>1, CallersFacts DEF Place, StopPlaces
<1>3. /\ caller' \in [Callers -> Place] /\ \A d \in Callers \ {c} : caller'[d] = caller[d]
      /\ caller'[c] = [at |-> "stopping", op |-> op, proc |-> entry]
  BY <1>1, <1>2, CallerGoes DEF RuntimeInv
<1>4. [proc[entry] EXCEPT !.expected = TRUE] \in ProcRow /\ [proc[entry] EXCEPT !.expected = TRUE].state = proc[entry].state
  BY <1>1, ProcWrites DEF RuntimeInv, RuntimeTypes
<1>5. proc' \in [Procs -> ProcRow] /\ \A q \in Procs : proc'[q].state = proc[q].state
  BY <1>1, <1>4, ProcChanges DEF RuntimeInv
<1>6. RuntimeTypes'
  <2>1. enabled' \in BOOLEAN /\ overlapped' \in BOOLEAN
    BY <1>1 DEF RuntimeInv, RuntimeTypes
  <2>2. entry' \in 0..MaxProcs /\ proc' \in [Procs -> ProcRow] /\ caller' \in [Callers -> Place]
    BY <1>1, <1>3, <1>5, CallersFacts, RuntimeAssumption DEF RuntimeInv, RuntimeTypes
  <2>. QED
    BY <2>1, <2>2 DEF RuntimeTypes
<1>7. StartedInOrder'
  BY <1>1, <1>5, OrderStays DEF RuntimeInv
<1>8. PlacesFit'
  BY <1>1, <1>3, <1>5, CallersFacts, RuntimeAssumption DEF RuntimeInv, RuntimeTypes, PlacesFit, StartPlaces, QuitPlaces, StopPlaces, Place, ProcRow
<1>9. OneStarter'
  BY <1>1, <1>3, <1>5, CallersFacts, RuntimeAssumption DEF RuntimeInv, RuntimeTypes, PlacesFit, OneStarter, StartPlaces, QuitPlaces, StopPlaces, Place, ProcRow
<1>10. LivingManaged'
  <2>. SUFFICES ASSUME ~overlapped' PROVE Alive' \subseteq {entry'}
    BY DEF LivingManaged
  <2>1. ~overlapped
    BY <1>1
  <2>2. Alive \subseteq {entry}
    BY <2>1 DEF RuntimeInv, LivingManaged
  <2>. QED
    BY <2>2, <1>1, <1>3, <1>5, CallersFacts, RuntimeAssumption DEF RuntimeInv, RuntimeTypes, PlacesFit, OneStarter, StartPlaces, QuitPlaces, StopPlaces, Place, ProcRow, Alive
<1>11. DisabledQuiet'
  <2>. SUFFICES ASSUME ~overlapped', ~enabled' PROVE Quiet'
    BY DEF DisabledQuiet
  <2>1. ~overlapped /\ (~enabled => Quiet)
    BY <1>1 DEF RuntimeInv, DisabledQuiet
  <2>2. Alive \subseteq {entry} /\ Alive' \subseteq {entry'}
    BY <2>1, <1>10 DEF RuntimeInv, LivingManaged
  <2>3. caller'[c].at \notin StartPlaces /\ Alive' \subseteq Alive /\ Alive' \subseteq {entry}
    BY <1>1, <1>3, <1>5, <2>2, CallersFacts DEF Alive, StartPlaces
  <2>4. \A d \in Callers : /\ caller'[d].op # "restart"
                           /\ caller'[d].at \in StartPlaces => caller'[d].op = "enable"
    BY <2>1, <2>3, <1>1, <1>3 DEF Quiet, RuntimeInv, DisabledQuiet
  <2>5. ASSUME NEW q \in Alive' PROVE \E d \in Callers : caller'[d].proc = q /\ Brings(d)'
    <3>1. PICK d \in Callers : caller[d].proc = q /\ Brings(d)
      BY <2>1, <2>3, <1>1 DEF Quiet
    <3>2. CASE op = "undo"
      BY <1>3, <2>3, <3>2 DEF Brings
    <3>3. CASE caller[c].at = "idle"
      <4>1. d # c
        BY <3>1, <3>3 DEF Brings
      <4>. QED
        BY <1>3, <3>1, <4>1 DEF Brings
    <3>. QED
      BY <1>1, <3>2, <3>3
  <2>. QED
    BY <2>4, <2>5 DEF Quiet
<1>. QED
  BY <1>6, <1>7, <1>8, <1>9, <1>10, <1>11 DEF RuntimeInv

\* A start that returned to an enable_plugin that must undo it.
LEMMA EnableUndoneStep ==
  ASSUME RuntimeInv, NEW c \in Callers, NEW now, EnableUndone(c, now), UNCHANGED entry,
         caller[c].at \in {"start", "handshake"},
         startLock' = IF caller[c].at = "handshake" THEN "none" ELSE startLock
  PROVE  RuntimeInv'
<1> DEFINE op == "undo"
<1>1. CASE entry = 0
  <2>1. Goes(c, "idle", "none", 0) /\ UNCHANGED <<proc, enabled, overlapped>>
    BY <1>1 DEF EnableUndone
  <2>2. /\ caller' \in [Callers -> Place]
        /\ caller'[c] = IF op = "restart" THEN [at |-> "start", op |-> "restart", proc |-> 0] ELSE Away
        /\ \A d \in Callers \ {c} : caller'[d] = caller[d]
    BY <2>1, CallerGoes, AwayPlace DEF RuntimeInv
  <2>3. /\ enabled' \in BOOLEAN /\ overlapped' \in BOOLEAN /\ (overlapped => overlapped')
        /\ (~overlapped' /\ ~enabled' => ~enabled \/ ~Starting(c))
        /\ (op = "restart" => enabled' /\ enabled)
    BY <2>1 DEF RuntimeInv, RuntimeTypes
  <2> HIDE DEF op
  <2>. QED
    BY <1>1, <2>1, <2>2, <2>3, NothingToStop
<1>2. CASE entry # 0
  <2>1. /\ proc' = [proc EXCEPT ![entry].expected = TRUE]
        /\ Goes(c, "stopping", "undo", entry) /\ UNCHANGED <<enabled, overlapped>>
    BY <1>2 DEF EnableUndone
  <2>. QED
    BY <1>2, <2>1, StopIsAsked
<1>. QED
  BY <1>1, <1>2

\* StartChecks: the caller returns, raises, or takes the lock to spawn a child.
LEMMA StartChecksStep ==
  ASSUME RuntimeInv, NEW c \in Callers, NEW verified \in BOOLEAN, StartChecks(c, verified)
  PROVE  RuntimeInv'
<1>a. CASE EnableUndone(c, status) /\ UNCHANGED startLock
  BY <1>a, EnableUndoneStep DEF StartChecks
<1>b. SUFFICES ASSUME ~(EnableUndone(c, status) /\ UNCHANGED startLock) PROVE RuntimeInv'
  BY <1>a
<1>1. caller[c].at = "start" /\ startLock = "none" /\ UNCHANGED <<entry, proc>>
  BY <1>b DEF StartChecks, StartLockFree, AfterStart
<1>2. \/ entry # 0 /\ StartReturned(c, caller[c].op, status) /\ UNCHANGED startLock
      \/ entry = 0 /\ (StartRaised(c) \/ StartDeferred(c)) /\ UNCHANGED startLock
      \/ entry = 0 /\ Goes(c, "spawn", caller[c].op, 0) /\ startLock' = c /\ UNCHANGED <<enabled, overlapped>>
  BY <1>b DEF StartChecks, AfterStart
<1>3. [at |-> "spawn", op |-> caller[c].op, proc |-> 0] \in Place
  BY RuntimeAssumption DEF RuntimeInv, RuntimeTypes, Place, StartPlaces
<1>4. /\ caller' \in [Callers -> Place] /\ \A d \in Callers \ {c} : caller'[d] = caller[d]
      /\ \/ caller'[c] = Away /\ UNCHANGED startLock
         \/ /\ caller'[c] = [at |-> "spawn", op |-> caller[c].op, proc |-> 0]
            /\ entry = 0 /\ startLock' = c /\ UNCHANGED <<enabled, overlapped>>
  BY <1>2, <1>3, StartReturnedEffect, StartRaisedEffect, CallerGoes DEF RuntimeInv
<1>5. /\ enabled' \in BOOLEAN /\ overlapped' \in BOOLEAN /\ (overlapped => overlapped')
      /\ ~overlapped' /\ ~enabled' => ~enabled \/ (entry = 0 /\ caller'[c] = Away /\ ~Starting(c))
  BY <1>2, <1>4, StartReturnedEffect, StartRaisedEffect DEF RuntimeInv, RuntimeTypes
<1>6. RuntimeTypes'
  <2>1. enabled' \in BOOLEAN /\ overlapped' \in BOOLEAN
    BY <1>5 DEF RuntimeInv, RuntimeTypes
  <2>2. entry' \in 0..MaxProcs /\ proc' \in [Procs -> ProcRow] /\ caller' \in [Callers -> Place]
    BY <1>1, <1>4, <1>5, CallersFacts, RuntimeAssumption DEF RuntimeInv, RuntimeTypes
  <2>. QED
    BY <2>1, <2>2 DEF RuntimeTypes
<1>7. StartedInOrder'
  BY <1>1, OrderStays DEF RuntimeInv
<1>8. PlacesFit'
  BY <1>1, <1>4, <1>5, CallersFacts, RuntimeAssumption DEF RuntimeInv, Starting, Newer, Goes, Away, RuntimeTypes, PlacesFit, StartPlaces, QuitPlaces, StopPlaces, Place, ProcRow
<1>9. OneStarter'
  BY <1>1, <1>4, <1>5, CallersFacts, RuntimeAssumption DEF RuntimeInv, Starting, Newer, Goes, Away, RuntimeTypes, PlacesFit, OneStarter, StartPlaces, QuitPlaces, StopPlaces, Place, ProcRow
<1>10. LivingManaged'
  <2>. SUFFICES ASSUME ~overlapped' PROVE Alive' \subseteq {entry'}
    BY DEF LivingManaged
  <2>1. ~overlapped
    BY <1>5
  <2>2. Alive \subseteq {entry}
    BY <2>1 DEF RuntimeInv, LivingManaged
  <2>. QED
    BY <2>2, <1>1, <1>4, <1>5, CallersFacts, RuntimeAssumption DEF RuntimeInv, Starting, Newer, Goes, Away, RuntimeTypes, PlacesFit, OneStarter, StartPlaces, QuitPlaces, StopPlaces, Place, ProcRow, Alive
<1>11. DisabledQuiet'
  <2>. SUFFICES ASSUME ~overlapped', ~enabled' PROVE Quiet'
    BY DEF DisabledQuiet
  <2>1. ~overlapped /\ (~enabled => Quiet)
    BY <1>5 DEF RuntimeInv, DisabledQuiet
  <2>2. Alive \subseteq {entry} /\ Alive' \subseteq {entry'}
    BY <2>1, <1>10 DEF RuntimeInv, LivingManaged
  <2>3. /\ \A d \in Callers \ {c} :
              caller'[d].op # "restart" /\ (caller'[d].at \in StartPlaces => caller'[d].op = "enable")
        /\ caller'[c].op # "restart" /\ (caller'[c].at \in StartPlaces => caller'[c].op = "enable")
    BY <2>1, <1>1, <1>4, <1>5 DEF Quiet, Starting, StartPlaces, Away
  <2>4. ASSUME NEW q \in Alive' PROVE \E d \in Callers : caller'[d].proc = q /\ Brings(d)'
    <3>1. ~enabled
      BY <2>2, <1>1, <1>5, CallersFacts DEF Alive
    <3>2. PICK d \in Callers : caller[d].proc = q /\ Brings(d)
      BY <2>1, <3>1, <1>1 DEF Quiet, Alive
    <3>3. d # c
      BY <1>1, <3>2 DEF Brings
    <3>. QED
      BY <1>4, <3>2, <3>3 DEF Brings
  <2>5. ASSUME NEW d \in Callers
        PROVE  caller'[d].op # "restart" /\ (caller'[d].at \in StartPlaces => caller'[d].op = "enable")
    BY <2>3
  <2>. QED
    BY <2>4, <2>5 DEF Quiet, Brings, Alive
<1>. QED
  BY <1>6, <1>7, <1>8, <1>9, <1>10, <1>11 DEF RuntimeInv

\* Spawned: the caller that holds the lock enters a new process.
LEMMA SpawnedStep ==
  ASSUME RuntimeInv, NEW c \in Callers, Spawned(c)
  PROVE  RuntimeInv'
<1> DEFINE p == Cardinality(Started) + 1
           r == [NoProc EXCEPT !.state = "alive", !.watched = TRUE]
<1>1. /\ p \in Procs /\ proc[p].state = "none"
      /\ \A q \in Procs : proc[q].state # "none" <=> q < p
  BY FreshProcess DEF Spawned, RuntimeInv
<1>2. /\ caller[c].at = "spawn" /\ entry = 0 /\ entry' = p
      /\ proc' = [proc EXCEPT ![p] = r] /\ Goes(c, "handshake", caller[c].op, p)
      /\ UNCHANGED <<enabled, startLock, overlapped>>
  BY DEF Spawned, RuntimeInv, OneStarter
<1>3. [at |-> "handshake", op |-> caller[c].op, proc |-> p] \in Place
  BY <1>1, CallersFacts DEF RuntimeInv, RuntimeTypes, Place, StartPlaces
<1>4. /\ caller' \in [Callers -> Place] /\ \A d \in Callers \ {c} : caller'[d] = caller[d]
      /\ caller'[c] = [at |-> "handshake", op |-> caller[c].op, proc |-> p]
  BY <1>2, <1>3, CallerGoes DEF RuntimeInv
<1>5. r \in ProcRow /\ r.state = "alive"
  BY NewRows
<1>6. /\ proc' \in [Procs -> ProcRow] /\ proc'[p].state = "alive"
      /\ \A q \in Procs \ {p} : proc'[q] = proc[q]
  BY <1>1, <1>2, <1>5, ProcChanges DEF RuntimeInv
<1> HIDE DEF p, r
<1>7. RuntimeTypes'
  <2>1. enabled' \in BOOLEAN /\ overlapped' \in BOOLEAN
    BY <1>2 DEF RuntimeInv, RuntimeTypes
  <2>2. entry' \in 0..MaxProcs /\ proc' \in [Procs -> ProcRow] /\ caller' \in [Callers -> Place]
    BY <1>1, <1>2, <1>4, <1>6, CallersFacts, RuntimeAssumption DEF RuntimeInv, RuntimeTypes
  <2>. QED
    BY <2>1, <2>2 DEF RuntimeTypes
<1>8. StartedInOrder'
  <2>1. \A q \in Procs : proc'[q].state # "none" <=> q <= p
    BY <1>1, <1>6, CallersFacts
  <2>. QED
    BY <1>1, <1>2, <2>1, CallersFacts DEF StartedInOrder
<1>9. PlacesFit'
  BY <1>1, <1>2, <1>4, <1>6, CallersFacts, RuntimeAssumption DEF RuntimeInv, Starting, Newer, Goes, Away, RuntimeTypes, PlacesFit, StartPlaces, QuitPlaces, StopPlaces, Place, ProcRow
<1>10. OneStarter'
  BY <1>1, <1>2, <1>4, <1>6, CallersFacts, RuntimeAssumption DEF RuntimeInv, Starting, Newer, Goes, Away, RuntimeTypes, PlacesFit, OneStarter, StartPlaces, QuitPlaces, StopPlaces, Place, ProcRow
<1>11. LivingManaged'
  <2>. SUFFICES ASSUME ~overlapped' PROVE Alive' \subseteq {entry'}
    BY DEF LivingManaged
  <2>1. ~overlapped
    BY <1>2
  <2>2. Alive \subseteq {entry}
    BY <2>1 DEF RuntimeInv, LivingManaged
  <2>. QED
    BY <2>2, <1>1, <1>2, <1>4, <1>6, CallersFacts, RuntimeAssumption DEF RuntimeInv, Starting, Newer, Goes, Away, RuntimeTypes, PlacesFit, OneStarter, StartPlaces, QuitPlaces, StopPlaces, Place, ProcRow, Alive
<1>12. DisabledQuiet'
  <2>. SUFFICES ASSUME ~overlapped', ~enabled' PROVE Quiet'
    BY DEF DisabledQuiet
  <2>1. ~overlapped /\ (~enabled => Quiet)
    BY <1>2 DEF RuntimeInv, DisabledQuiet
  <2>2. Alive \subseteq {entry} /\ Alive' \subseteq {entry'}
    BY <2>1, <1>11 DEF RuntimeInv, LivingManaged
  <2>. QED
    BY <2>1, <2>2, <1>1, <1>2, <1>4, <1>6, CallersFacts, RuntimeAssumption DEF RuntimeInv, Quiet, Brings, Starting, Newer, Goes, Away, RuntimeTypes, PlacesFit, OneStarter, StartPlaces, QuitPlaces, StopPlaces, Place, ProcRow, Alive
<1>. QED
  BY <1>7, <1>8, <1>9, <1>10, <1>11, <1>12 DEF RuntimeInv

\* HandshakeOk: the start returns, and the lock is free.
LEMMA HandshakeOkStep ==
  ASSUME RuntimeInv, NEW c \in Callers, HandshakeOk(c)
  PROVE  RuntimeInv'
<1>a. CASE EnableUndone(c, "running")
  BY <1>a, EnableUndoneStep DEF HandshakeOk
<1>b. SUFFICES ASSUME ~EnableUndone(c, "running") PROVE RuntimeInv'
  BY <1>a
<1>1. /\ caller[c].at = "handshake" /\ startLock' = "none" /\ startLock = c
      /\ StartReturned(c, caller[c].op, "running") /\ UNCHANGED <<entry, proc>>
  BY <1>b DEF HandshakeOk, AfterStart, RuntimeInv, OneStarter
<1>2. /\ caller' \in [Callers -> Place] /\ caller'[c] = Away
      /\ \A d \in Callers \ {c} : caller'[d] = caller[d]
      /\ enabled' \in BOOLEAN /\ overlapped' = overlapped
      /\ ~enabled' => ~enabled /\ caller[c].op # "enable"
  BY <1>1, StartReturnedEffect DEF RuntimeInv
<1>3. RuntimeTypes'
  <2>1. enabled' \in BOOLEAN /\ overlapped' \in BOOLEAN
    BY <1>2 DEF RuntimeInv, RuntimeTypes
  <2>2. entry' \in 0..MaxProcs /\ proc' \in [Procs -> ProcRow] /\ caller' \in [Callers -> Place]
    BY <1>1, <1>2, CallersFacts, RuntimeAssumption DEF RuntimeInv, RuntimeTypes
  <2>. QED
    BY <2>1, <2>2 DEF RuntimeTypes
<1>4. StartedInOrder'
  BY <1>1, OrderStays DEF RuntimeInv
<1>5. PlacesFit'
  BY <1>1, <1>2, CallersFacts, RuntimeAssumption DEF RuntimeInv, Away, RuntimeTypes, PlacesFit, StartPlaces, QuitPlaces, StopPlaces, Place, ProcRow
<1>6. OneStarter'
  BY <1>1, <1>2, CallersFacts, RuntimeAssumption DEF RuntimeInv, Away, RuntimeTypes, PlacesFit, OneStarter, StartPlaces, QuitPlaces, StopPlaces, Place, ProcRow
<1>7. LivingManaged'
  <2>. SUFFICES ASSUME ~overlapped' PROVE Alive' \subseteq {entry'}
    BY DEF LivingManaged
  <2>1. ~overlapped
    BY <1>2
  <2>2. Alive \subseteq {entry}
    BY <2>1 DEF RuntimeInv, LivingManaged
  <2>. QED
    BY <2>2, <1>1, <1>2, CallersFacts, RuntimeAssumption DEF RuntimeInv, Away, RuntimeTypes, PlacesFit, OneStarter, StartPlaces, QuitPlaces, StopPlaces, Place, ProcRow, Alive
<1>8. DisabledQuiet'
  <2>. SUFFICES ASSUME ~overlapped', ~enabled' PROVE Quiet'
    BY DEF DisabledQuiet
  <2>1. ~overlapped /\ (~enabled => Quiet)
    BY <1>2 DEF RuntimeInv, DisabledQuiet
  <2>2. Alive \subseteq {entry} /\ Alive' \subseteq {entry'}
    BY <2>1, <1>7 DEF RuntimeInv, LivingManaged
  <2>. QED
    BY <2>1, <2>2, <1>1, <1>2, CallersFacts, RuntimeAssumption DEF RuntimeInv, Quiet, Brings, Away, RuntimeTypes, PlacesFit, OneStarter, StartPlaces, QuitPlaces, StopPlaces, Place, ProcRow, Alive
<1>. QED
  BY <1>3, <1>4, <1>5, <1>6, <1>7, <1>8 DEF RuntimeInv

\* HandshakeFails: the caller waits for the child to end.
LEMMA HandshakeFailsStep ==
  ASSUME RuntimeInv, NEW c \in Callers, HandshakeFails(c)
  PROVE  RuntimeInv'
<1> DEFINE p == caller[c].proc
           r == [proc[p] EXCEPT !.expected = TRUE]
           at == IF proc[p].state = "alive" THEN "quitting" ELSE "closing"
<1>1. /\ caller[c].at = "handshake" /\ p \in Procs /\ proc[p].state # "none"
      /\ startLock = c /\ entry \in {0, p}
      /\ proc' = [proc EXCEPT ![p] = r] /\ Goes(c, at, caller[c].op, p)
      /\ UNCHANGED <<enabled, entry, startLock, overlapped>>
  BY DEF HandshakeFails, RuntimeInv, RuntimeTypes, PlacesFit, OneStarter, QuitPlaces
<1>2. /\ at \in QuitPlaces /\ caller[c].op \in {"enable", "restart", "supervise"}
      /\ [at |-> at, op |-> caller[c].op, proc |-> p] \in Place
  BY <1>1, CallersFacts DEF RuntimeInv, PlacesFit, Place, StartPlaces, QuitPlaces
<1>a. proc[p] \in ProcRow
  BY <1>1 DEF RuntimeInv, RuntimeTypes
<1>3. /\ r \in ProcRow /\ r.state # "none" /\ (r.state = "alive" => at = "quitting" /\ proc[p].state = "alive")
  BY <1>1, <1>a, ProcWrites
<1> HIDE DEF r, at
<1>4. /\ caller' \in [Callers -> Place] /\ \A d \in Callers \ {c} : caller'[d] = caller[d]
      /\ caller'[c] = [at |-> at, op |-> caller[c].op, proc |-> p]
  BY <1>1, <1>2, CallerGoes DEF RuntimeInv
<1>5. /\ proc' \in [Procs -> ProcRow] /\ proc'[p] = r
      /\ \A q \in Procs \ {p} : proc'[q] = proc[q]
  BY <1>1, <1>3, ProcChanges DEF RuntimeInv
<1>6. RuntimeTypes'
  BY <1>1, <1>4, <1>5 DEF RuntimeInv, RuntimeTypes
<1>7. StartedInOrder'
  BY <1>1, <1>3, <1>5, OrderStays DEF RuntimeInv
<1>8. PlacesFit'
  <2> SUFFICES ASSUME NEW d \in Callers
               PROVE  /\ caller'[d].at = "idle" => caller'[d] = Away
                      /\ caller'[d].at \in StartPlaces \union QuitPlaces =>
                           caller'[d].op \in {"enable", "restart", "supervise"}
                      /\ caller'[d].at \in StopPlaces =>
                           caller'[d].op \in {"disable", "restart", "supervise", "undo"}
                      /\ caller'[d].at \in StopPlaces \union QuitPlaces \union {"handshake"} =>
                           caller'[d].proc \in Procs /\ proc'[caller'[d].proc].state # "none"
                      /\ caller'[d].at \in {"draining", "closing"} => proc'[caller'[d].proc].state = "dead"
                      /\ caller'[d].op = "supervise" => d = Sup
    BY DEF PlacesFit
  <2>1. proc[p].state = "dead" => r.state = "dead"
    BY <1>1, <1>3, <1>5 DEF ProcRow
  <2>2. at = "closing" => r.state = "dead"
    BY <1>3 DEF ProcRow
  <2>3. CASE d = c
    BY <1>1, <1>2, <1>3, <1>4, <1>5, <2>2, <2>3 DEF RuntimeInv, PlacesFit, QuitPlaces, StopPlaces
  <2>4. CASE d # c
    BY <1>1, <1>3, <1>4, <1>5, <2>1, <2>4
    DEF RuntimeInv, PlacesFit, StartPlaces, QuitPlaces, StopPlaces
  <2>. QED
    BY <2>3, <2>4
<1>9. OneStarter'
  BY <1>1, <1>2, <1>4 DEF RuntimeInv, OneStarter, QuitPlaces
<1>10. Alive' \subseteq Alive
  BY <1>3, <1>5 DEF Alive
<1>11. LivingManaged'
  BY <1>1, <1>10 DEF RuntimeInv, LivingManaged
<1>12. DisabledQuiet'
  <2>. SUFFICES ASSUME ~overlapped', ~enabled' PROVE Quiet'
    BY DEF DisabledQuiet
  <2>1. Quiet
    BY <1>1 DEF RuntimeInv, DisabledQuiet
  <2>2. \A d \in Callers : /\ caller'[d].op # "restart"
                           /\ caller'[d].at \in StartPlaces => caller'[d].op = "enable"
    BY <1>2, <1>4, <2>1 DEF Quiet, StartPlaces, QuitPlaces
  <2>3. ASSUME NEW q \in Alive' PROVE \E d \in Callers : caller'[d].proc = q /\ Brings(d)'
    <3>1. PICK d \in Callers : caller[d].proc = q /\ Brings(d)
      BY <1>10, <2>1 DEF Quiet
    <3>2. CASE d # c
      BY <1>4, <3>1, <3>2 DEF Brings
    <3>3. CASE d = c
      <4>1. q = p /\ r.state = "alive"
        BY <1>5, <3>1, <3>3 DEF Alive
      <4>2. at = "quitting" /\ caller[c].op = "enable"
        BY <1>1, <1>3, <3>1, <3>3, <4>1 DEF Brings
      <4>. QED
        BY <1>4, <4>1, <4>2 DEF Brings
    <3>. QED
      BY <3>2, <3>3
  <2>. QED
    BY <2>2, <2>3 DEF Quiet
<1>. QED
  BY <1>6, <1>7, <1>8, <1>9, <1>11, <1>12 DEF RuntimeInv

\* HandshakeKills: the child is dead before its pipes are drained.
LEMMA HandshakeKillsStep ==
  ASSUME RuntimeInv, NEW c \in Callers, HandshakeKills(c)
  PROVE  RuntimeInv'
<1> DEFINE p == caller[c].proc
           r == Terminated(proc[p])
           at == "closing"
<1>1. /\ caller[c].at = "quitting" /\ p \in Procs /\ proc[p].state # "none"
      /\ startLock = c /\ entry \in {0, p}
      /\ proc' = [proc EXCEPT ![p] = r] /\ Goes(c, at, caller[c].op, p)
      /\ UNCHANGED <<enabled, entry, startLock, overlapped>>
  BY DEF HandshakeKills, RuntimeInv, RuntimeTypes, PlacesFit, OneStarter, QuitPlaces
<1>2. /\ at \in QuitPlaces /\ caller[c].op \in {"enable", "restart", "supervise"}
      /\ [at |-> at, op |-> caller[c].op, proc |-> p] \in Place
  BY <1>1, CallersFacts DEF RuntimeInv, PlacesFit, Place, StartPlaces, QuitPlaces
<1>a. proc[p] \in ProcRow
  BY <1>1 DEF RuntimeInv, RuntimeTypes
<1>3. /\ r \in ProcRow /\ r.state # "none" /\ (r.state = "alive" => at = "quitting" /\ proc[p].state = "alive")
  BY <1>1, <1>a, ProcWrites
<1> HIDE DEF r, at
<1>4. /\ caller' \in [Callers -> Place] /\ \A d \in Callers \ {c} : caller'[d] = caller[d]
      /\ caller'[c] = [at |-> at, op |-> caller[c].op, proc |-> p]
  BY <1>1, <1>2, CallerGoes DEF RuntimeInv
<1>5. /\ proc' \in [Procs -> ProcRow] /\ proc'[p] = r
      /\ \A q \in Procs \ {p} : proc'[q] = proc[q]
  BY <1>1, <1>3, ProcChanges DEF RuntimeInv
<1>6. RuntimeTypes'
  BY <1>1, <1>4, <1>5 DEF RuntimeInv, RuntimeTypes
<1>7. StartedInOrder'
  BY <1>1, <1>3, <1>5, OrderStays DEF RuntimeInv
<1>8. PlacesFit'
  <2> SUFFICES ASSUME NEW d \in Callers
               PROVE  /\ caller'[d].at = "idle" => caller'[d] = Away
                      /\ caller'[d].at \in StartPlaces \union QuitPlaces =>
                           caller'[d].op \in {"enable", "restart", "supervise"}
                      /\ caller'[d].at \in StopPlaces =>
                           caller'[d].op \in {"disable", "restart", "supervise", "undo"}
                      /\ caller'[d].at \in StopPlaces \union QuitPlaces \union {"handshake"} =>
                           caller'[d].proc \in Procs /\ proc'[caller'[d].proc].state # "none"
                      /\ caller'[d].at \in {"draining", "closing"} => proc'[caller'[d].proc].state = "dead"
                      /\ caller'[d].op = "supervise" => d = Sup
    BY DEF PlacesFit
  <2>1. proc[p].state = "dead" => r.state = "dead"
    BY <1>1, <1>3, <1>5 DEF ProcRow
  <2>2. at = "closing" => r.state = "dead"
    BY <1>3 DEF ProcRow
  <2>3. CASE d = c
    BY <1>1, <1>2, <1>3, <1>4, <1>5, <2>2, <2>3 DEF RuntimeInv, PlacesFit, QuitPlaces, StopPlaces
  <2>4. CASE d # c
    BY <1>1, <1>3, <1>4, <1>5, <2>1, <2>4
    DEF RuntimeInv, PlacesFit, StartPlaces, QuitPlaces, StopPlaces
  <2>. QED
    BY <2>3, <2>4
<1>9. OneStarter'
  BY <1>1, <1>2, <1>4 DEF RuntimeInv, OneStarter, QuitPlaces
<1>10. Alive' \subseteq Alive
  BY <1>3, <1>5 DEF Alive
<1>11. LivingManaged'
  BY <1>1, <1>10 DEF RuntimeInv, LivingManaged
<1>12. DisabledQuiet'
  <2>. SUFFICES ASSUME ~overlapped', ~enabled' PROVE Quiet'
    BY DEF DisabledQuiet
  <2>1. Quiet
    BY <1>1 DEF RuntimeInv, DisabledQuiet
  <2>2. \A d \in Callers : /\ caller'[d].op # "restart"
                           /\ caller'[d].at \in StartPlaces => caller'[d].op = "enable"
    BY <1>2, <1>4, <2>1 DEF Quiet, StartPlaces, QuitPlaces
  <2>3. ASSUME NEW q \in Alive' PROVE \E d \in Callers : caller'[d].proc = q /\ Brings(d)'
    <3>1. PICK d \in Callers : caller[d].proc = q /\ Brings(d)
      BY <1>10, <2>1 DEF Quiet
    <3>2. CASE d # c
      BY <1>4, <3>1, <3>2 DEF Brings
    <3>3. CASE d = c
      <4>1. q = p /\ r.state = "alive"
        BY <1>5, <3>1, <3>3 DEF Alive
      <4>2. at = "quitting" /\ caller[c].op = "enable"
        BY <1>1, <1>3, <3>1, <3>3, <4>1 DEF Brings
      <4>. QED
        BY <1>4, <4>1, <4>2 DEF Brings
    <3>. QED
      BY <3>2, <3>3
  <2>. QED
    BY <2>2, <2>3 DEF Quiet
<1>. QED
  BY <1>6, <1>7, <1>8, <1>9, <1>11, <1>12 DEF RuntimeInv

\* HandshakeCloses: the dead child is forgotten, and nobody else has one.
LEMMA HandshakeClosesStep ==
  ASSUME RuntimeInv, NEW c \in Callers, HandshakeCloses(c)
  PROVE  RuntimeInv'
<1> DEFINE p == caller[c].proc
           r == [proc[p] EXCEPT !.watched = FALSE]
<1>1. /\ caller[c].at = "closing" /\ startLock' = "none" /\ startLock = c /\ entry' = 0
      /\ StartRaised(c) /\ p \in Procs /\ entry \in {0, p} /\ proc[p].state = "dead"
      /\ proc' = [proc EXCEPT ![p] = r]
  BY DEF HandshakeCloses, RuntimeInv, OneStarter, PlacesFit, QuitPlaces
<1>2. /\ caller' \in [Callers -> Place] /\ caller'[c] = Away
      /\ \A d \in Callers \ {c} : caller'[d] = caller[d]
      /\ enabled' \in BOOLEAN /\ overlapped' \in BOOLEAN /\ (overlapped => overlapped')
      /\ ~overlapped' /\ ~enabled' => ~enabled \/ ~Starting(c)
  BY <1>1, StartRaisedEffect DEF RuntimeInv
<1>3. r \in ProcRow /\ r.state = "dead"
  BY <1>1, ProcWrites DEF RuntimeInv, RuntimeTypes
<1>4. /\ proc' \in [Procs -> ProcRow] /\ proc'[p].state = "dead"
      /\ \A q \in Procs \ {p} : proc'[q] = proc[q]
  BY <1>1, <1>3, ProcChanges DEF RuntimeInv
<1>5. proc[p].state # "none"
  BY <1>1 DEF RuntimeInv, PlacesFit
<1> HIDE DEF r
<1>6. RuntimeTypes'
  <2>1. enabled' \in BOOLEAN /\ overlapped' \in BOOLEAN
    BY <1>2 DEF RuntimeInv, RuntimeTypes
  <2>2. entry' \in 0..MaxProcs /\ proc' \in [Procs -> ProcRow] /\ caller' \in [Callers -> Place]
    BY <1>1, <1>2, <1>4, CallersFacts, RuntimeAssumption DEF RuntimeInv, RuntimeTypes
  <2>. QED
    BY <2>1, <2>2 DEF RuntimeTypes
<1>7. StartedInOrder'
  BY <1>1, <1>4, <1>5, OrderStays DEF RuntimeInv
<1>8. PlacesFit'
  BY <1>1, <1>2, <1>4, CallersFacts, RuntimeAssumption DEF RuntimeInv, Starting, Away, RuntimeTypes, PlacesFit, StartPlaces, QuitPlaces, StopPlaces, Place, ProcRow
<1>9. OneStarter'
  BY <1>1, <1>2, <1>4, CallersFacts, RuntimeAssumption DEF RuntimeInv, Starting, Away, RuntimeTypes, PlacesFit, OneStarter, StartPlaces, QuitPlaces, StopPlaces, Place, ProcRow
<1>10. LivingManaged'
  <2>. SUFFICES ASSUME ~overlapped' PROVE Alive' \subseteq {entry'}
    BY DEF LivingManaged
  <2>1. ~overlapped
    BY <1>2
  <2>2. Alive \subseteq {entry}
    BY <2>1 DEF RuntimeInv, LivingManaged
  <2>. QED
    BY <2>2, <1>1, <1>2, <1>4, CallersFacts, RuntimeAssumption DEF RuntimeInv, Starting, Away, RuntimeTypes, PlacesFit, OneStarter, StartPlaces, QuitPlaces, StopPlaces, Place, ProcRow, Alive
<1>11. DisabledQuiet'
  <2>. SUFFICES ASSUME ~overlapped', ~enabled' PROVE Quiet'
    BY DEF DisabledQuiet
  <2>1. ~overlapped /\ (~enabled => Quiet)
    BY <1>2 DEF RuntimeInv, DisabledQuiet
  <2>2. Alive \subseteq {entry} /\ Alive' \subseteq {entry'}
    BY <2>1, <1>10 DEF RuntimeInv, LivingManaged
  <2>. QED
    BY <2>1, <2>2, <1>1, <1>2, <1>4, CallersFacts, RuntimeAssumption DEF RuntimeInv, Quiet, Brings, Starting, Away, RuntimeTypes, PlacesFit, OneStarter, StartPlaces, QuitPlaces, StopPlaces, Place, ProcRow, Alive
<1>. QED
  BY <1>6, <1>7, <1>8, <1>9, <1>10, <1>11 DEF RuntimeInv

\* StopWaits: the child is dead before its pipes are drained.
LEMMA StopWaitsStep ==
  ASSUME RuntimeInv, NEW c \in Callers, StopWaits(c)
  PROVE  RuntimeInv'
<1> DEFINE p == caller[c].proc
           r == Terminated(proc[p])
<1>1. /\ caller[c].at = "stopping" /\ p \in Procs /\ proc[p].state # "none"
      /\ \A d \in Callers : caller[d].at = "handshake" => caller[d].proc # p
      /\ proc' = [proc EXCEPT ![p] = r] /\ Goes(c, "draining", caller[c].op, p)
      /\ UNCHANGED <<enabled, entry, startLock, overlapped>>
  BY DEF StopWaits, RuntimeInv, PlacesFit, StopPlaces
<1>2. [at |-> "draining", op |-> caller[c].op, proc |-> p] \in Place
  BY <1>1, CallersFacts DEF RuntimeInv, RuntimeTypes, Place, StopPlaces
<1>3. /\ caller' \in [Callers -> Place] /\ \A d \in Callers \ {c} : caller'[d] = caller[d]
      /\ caller'[c] = [at |-> "draining", op |-> caller[c].op, proc |-> p]
  BY <1>1, <1>2, CallerGoes DEF RuntimeInv
<1>4. r \in ProcRow /\ r.state = "dead"
  BY <1>1, ProcWrites DEF RuntimeInv, RuntimeTypes
<1>5. /\ proc' \in [Procs -> ProcRow] /\ proc'[p].state = "dead"
      /\ \A q \in Procs \ {p} : proc'[q] = proc[q]
  BY <1>1, <1>4, ProcChanges DEF RuntimeInv
<1> HIDE DEF r
<1>6. RuntimeTypes'
  <2>1. enabled' \in BOOLEAN /\ overlapped' \in BOOLEAN
    BY <1>1 DEF RuntimeInv, RuntimeTypes
  <2>2. entry' \in 0..MaxProcs /\ proc' \in [Procs -> ProcRow] /\ caller' \in [Callers -> Place]
    BY <1>1, <1>3, <1>5, CallersFacts, RuntimeAssumption DEF RuntimeInv, RuntimeTypes
  <2>. QED
    BY <2>1, <2>2 DEF RuntimeTypes
<1>7. StartedInOrder'
  BY <1>1, <1>5, OrderStays DEF RuntimeInv
<1>8. PlacesFit'
  BY <1>1, <1>3, <1>5, CallersFacts, RuntimeAssumption DEF RuntimeInv, RuntimeTypes, PlacesFit, StartPlaces, QuitPlaces, StopPlaces, Place, ProcRow
<1>9. OneStarter'
  BY <1>1, <1>3, <1>5, CallersFacts, RuntimeAssumption DEF RuntimeInv, RuntimeTypes, PlacesFit, OneStarter, StartPlaces, QuitPlaces, StopPlaces, Place, ProcRow
<1>10. LivingManaged'
  <2>. SUFFICES ASSUME ~overlapped' PROVE Alive' \subseteq {entry'}
    BY DEF LivingManaged
  <2>1. ~overlapped
    BY <1>1
  <2>2. Alive \subseteq {entry}
    BY <2>1 DEF RuntimeInv, LivingManaged
  <2>. QED
    BY <2>2, <1>1, <1>3, <1>5, CallersFacts, RuntimeAssumption DEF RuntimeInv, RuntimeTypes, PlacesFit, OneStarter, StartPlaces, QuitPlaces, StopPlaces, Place, ProcRow, Alive
<1>11. DisabledQuiet'
  <2>. SUFFICES ASSUME ~overlapped', ~enabled' PROVE Quiet'
    BY DEF DisabledQuiet
  <2>1. ~overlapped /\ (~enabled => Quiet)
    BY <1>1 DEF RuntimeInv, DisabledQuiet
  <2>2. Alive \subseteq {entry} /\ Alive' \subseteq {entry'}
    BY <2>1, <1>10 DEF RuntimeInv, LivingManaged
  <2>3. /\ caller[c].at \notin StartPlaces /\ caller'[c].at \notin StartPlaces
        /\ Alive' \subseteq Alive \ {p}
    BY <1>1, <1>3, <1>5, CallersFacts DEF Alive, StartPlaces
  <2>4. \A d \in Callers : /\ caller'[d].op # "restart"
                           /\ caller'[d].at \in StartPlaces => caller'[d].op = "enable"
    BY <2>1, <2>3, <1>1, <1>3 DEF Quiet, RuntimeInv, DisabledQuiet
  <2>5. ASSUME NEW q \in Alive' PROVE \E d \in Callers : caller'[d].proc = q /\ Brings(d)'
    <3>1. PICK d \in Callers : caller[d].proc = q /\ Brings(d)
      BY <2>1, <2>3, <1>1 DEF Quiet
    <3>2. d # c
      BY <2>3, <3>1
    <3>. QED
      BY <1>3, <3>1, <3>2 DEF Brings
  <2>. QED
    BY <2>4, <2>5 DEF Quiet
<1>. QED
  BY <1>6, <1>7, <1>8, <1>9, <1>10, <1>11 DEF RuntimeInv

\* StopCloses: the entry goes, whichever process it is of.
LEMMA StopClosesStep ==
  ASSUME RuntimeInv, NEW c \in Callers, StopCloses(c)
  PROVE  RuntimeInv'
<1> DEFINE p == caller[c].proc
           op == caller[c].op
<1>1. /\ caller[c].at = "draining" /\ p \in Procs /\ proc[p].state = "dead" /\ entry' = 0
      /\ op \in {"disable", "restart", "supervise", "undo"} /\ (op = "supervise" => c = Sup)
      /\ StopReturned(c, op) /\ proc' = [proc EXCEPT ![p] = [proc[p] EXCEPT !.watched = FALSE]]
      /\ UNCHANGED startLock
  BY DEF StopCloses, RuntimeInv, RuntimeTypes, PlacesFit, StopPlaces
<1>2. /\ caller' \in [Callers -> Place]
      /\ caller'[c] = IF op = "restart" THEN [at |-> "start", op |-> "restart", proc |-> 0] ELSE Away
      /\ \A d \in Callers \ {c} : caller'[d] = caller[d]
      /\ enabled' \in BOOLEAN /\ overlapped' \in BOOLEAN /\ (overlapped => overlapped')
      /\ (~overlapped' => ~Newer(c))
      /\ (~overlapped' /\ ~enabled' => ~enabled \/ ~Starting(c))
      /\ (op \in {"restart", "undo"} => enabled' = enabled)
  BY <1>1, StopReturnedEffect DEF RuntimeInv
<1>3. [proc[p] EXCEPT !.watched = FALSE] \in ProcRow /\ [proc[p] EXCEPT !.watched = FALSE].state = proc[p].state
  BY <1>1, ProcWrites DEF RuntimeInv, RuntimeTypes
<1>4. /\ proc' \in [Procs -> ProcRow] /\ proc'[p].state = "dead"
      /\ \A q \in Procs \ {p} : proc'[q] = proc[q]
  BY <1>1, <1>3, ProcChanges DEF RuntimeInv
<1>5. RuntimeTypes'
  <2>1. enabled' \in BOOLEAN /\ overlapped' \in BOOLEAN
    BY <1>2 DEF RuntimeInv, RuntimeTypes
  <2>2. entry' \in 0..MaxProcs /\ proc' \in [Procs -> ProcRow] /\ caller' \in [Callers -> Place]
    BY <1>1, <1>2, <1>4, CallersFacts, RuntimeAssumption DEF RuntimeInv, RuntimeTypes
  <2>. QED
    BY <2>1, <2>2 DEF RuntimeTypes
<1>6. StartedInOrder'
  BY <1>1, <1>4, OrderStays DEF RuntimeInv
<1>7. PlacesFit'
  BY <1>1, <1>2, <1>4, CallersFacts, RuntimeAssumption DEF RuntimeInv, Starting, Newer, Away, RuntimeTypes, PlacesFit, StartPlaces, QuitPlaces, StopPlaces, Place, ProcRow
<1>8. OneStarter'
  BY <1>1, <1>2, <1>4, CallersFacts, RuntimeAssumption DEF RuntimeInv, Starting, Newer, Away, RuntimeTypes, PlacesFit, OneStarter, StartPlaces, QuitPlaces, StopPlaces, Place, ProcRow
<1>9. LivingManaged'
  <2>. SUFFICES ASSUME ~overlapped' PROVE Alive' \subseteq {entry'}
    BY DEF LivingManaged
  <2>1. ~overlapped
    BY <1>2
  <2>2. Alive \subseteq {entry}
    BY <2>1 DEF RuntimeInv, LivingManaged
  <2>. QED
    BY <2>2, <1>1, <1>2, <1>4, CallersFacts, RuntimeAssumption DEF RuntimeInv, Starting, Newer, Away, RuntimeTypes, PlacesFit, OneStarter, StartPlaces, QuitPlaces, StopPlaces, Place, ProcRow, Alive
<1>10. DisabledQuiet'
  <2>. SUFFICES ASSUME ~overlapped', ~enabled' PROVE Quiet'
    BY DEF DisabledQuiet
  <2>1. ~overlapped /\ (~enabled => Quiet)
    BY <1>2 DEF RuntimeInv, DisabledQuiet
  <2>2. Alive \subseteq {entry} /\ Alive' \subseteq {entry'}
    BY <2>1, <1>9 DEF RuntimeInv, LivingManaged
  <2>. QED
    BY <2>1, <2>2, <1>1, <1>2, <1>4, CallersFacts, RuntimeAssumption, SMTT(30) DEF RuntimeInv, Quiet, Brings, Starting, Newer, Away, RuntimeTypes, PlacesFit, OneStarter, StartPlaces, QuitPlaces, StopPlaces, Place, ProcRow, Alive
<1>. QED
  BY <1>5, <1>6, <1>7, <1>8, <1>9, <1>10 DEF RuntimeInv

\* StopBegins, of a restart and of the supervisor.
LEMMA StopBeginsStep ==
  ASSUME RuntimeInv, NEW c \in Callers, NEW op \in {"restart", "supervise"},
         op = "supervise" => c = Sup, op = "restart" => enabled, caller[c].at = "idle",
         StopBegins(c, op), UNCHANGED <<entry, startLock>>
  PROVE  RuntimeInv'
<1>1. CASE entry = 0
  <2>1. StopReturned(c, op) /\ UNCHANGED proc
    BY <1>1 DEF StopBegins
  <2>2. /\ caller' \in [Callers -> Place]
        /\ caller'[c] = IF op = "restart" THEN [at |-> "start", op |-> "restart", proc |-> 0] ELSE Away
        /\ \A d \in Callers \ {c} : caller'[d] = caller[d]
        /\ enabled' \in BOOLEAN /\ overlapped' \in BOOLEAN /\ (overlapped => overlapped')
        /\ (~overlapped' /\ ~enabled' => ~enabled \/ ~Starting(c))
        /\ (op = "restart" => enabled' /\ enabled)
    BY <2>1, StopReturnedEffect DEF RuntimeInv
  <2>. QED
    BY <1>1, <2>1, <2>2, NothingToStop
<1>2. CASE entry # 0
  <2>1. /\ proc' = [proc EXCEPT ![entry].expected = TRUE]
        /\ Goes(c, "stopping", op, entry) /\ UNCHANGED <<enabled, overlapped>>
    BY <1>2 DEF StopBegins
  <2>. QED
    BY <1>2, <2>1, StopIsAsked
<1>. QED
  BY <1>1, <1>2

\* PluginDisable: the record is switched off at once when there is nothing to stop.
LEMMA PluginDisableStep ==
  ASSUME RuntimeInv, NEW c \in Admins, PluginDisable(c)
  PROVE  RuntimeInv'
<1>1. c \in Callers /\ caller[c].at = "idle" /\ UNCHANGED <<entry, startLock>>
  BY CallersFacts DEF PluginDisable, Ordered
<1> DEFINE op == "disable"
<1>2. CASE entry = 0
  <2>1. /\ Goes(c, "idle", "none", 0) /\ enabled' = FALSE /\ UNCHANGED proc
        /\ overlapped' = (overlapped \/ Starting(c))
    BY <1>2 DEF PluginDisable
  <2>2. /\ caller' \in [Callers -> Place] /\ caller'[c] = Away
        /\ \A d \in Callers \ {c} : caller'[d] = caller[d]
    BY <1>1, <2>1, CallerGoes, AwayPlace DEF RuntimeInv
  <2>3. /\ enabled' \in BOOLEAN /\ overlapped' \in BOOLEAN /\ (overlapped => overlapped')
        /\ (~overlapped' /\ ~enabled' => ~enabled \/ ~Starting(c))
    BY <2>1
  <2>4. /\ caller' \in [Callers -> Place]
        /\ caller'[c] = IF op = "restart" THEN [at |-> "start", op |-> "restart", proc |-> 0] ELSE Away
        /\ \A d \in Callers \ {c} : caller'[d] = caller[d]
        /\ enabled' \in BOOLEAN /\ overlapped' \in BOOLEAN /\ (overlapped => overlapped')
        /\ (~overlapped' /\ ~enabled' => ~enabled \/ ~Starting(c))
        /\ (op = "restart" => enabled' /\ enabled)
    BY <2>2, <2>3
  <2> HIDE DEF op
  <2>. QED
    BY <1>1, <1>2, <2>1, <2>4, NothingToStop
<1>3. CASE entry # 0
  <2>1. /\ proc' = [proc EXCEPT ![entry].expected = TRUE]
        /\ Goes(c, "stopping", "disable", entry) /\ UNCHANGED <<enabled, overlapped>>
    BY <1>3 DEF PluginDisable
  <2>. QED
    BY <1>1, <1>3, <2>1, StopIsAsked
<1>. QED
  BY <1>2, <1>3

\* ServerRestarts: no child outlives its channel.
LEMMA ServerRestartsStep ==
  ASSUME RuntimeInv, ServerRestarts
  PROVE  RuntimeInv'
<1>1. /\ entry' = 0 /\ startLock' = "none" /\ caller' = [c \in Callers |-> Away] /\ UNCHANGED overlapped
      /\ enabled' \in BOOLEAN /\ overlapped' \in BOOLEAN
  BY DEF ServerRestarts, RuntimeInv, RuntimeTypes
<1>2. /\ caller' \in [Callers -> Place] /\ \A c \in Callers : caller'[c] = Away
  BY <1>1, AwayPlace
<1>3. \A p \in Procs : proc'[p] = IF proc[p].state = "alive" THEN [NoProc EXCEPT !.state = "dead"] ELSE proc[p]
  BY DEF ServerRestarts
<1>4. /\ proc' \in [Procs -> ProcRow]
      /\ \A p \in Procs : proc'[p].state # "alive" /\ (proc'[p].state = "none" <=> proc[p].state = "none")
  <2>1. \A p \in Procs : proc[p] \in ProcRow
    BY DEF RuntimeInv, RuntimeTypes
  <2>2. \A p \in Procs : proc'[p] \in ProcRow
    BY <1>3, <2>1, NewRows
  <2>. QED
    BY <1>3, <2>1, <2>2, NewRows DEF ServerRestarts
<1>5. RuntimeTypes'
  <2>1. enabled' \in BOOLEAN /\ overlapped' \in BOOLEAN
    BY <1>1 DEF RuntimeInv, RuntimeTypes
  <2>2. entry' \in 0..MaxProcs /\ proc' \in [Procs -> ProcRow] /\ caller' \in [Callers -> Place]
    BY <1>1, <1>2, <1>4, CallersFacts, RuntimeAssumption DEF RuntimeInv, RuntimeTypes
  <2>. QED
    BY <2>1, <2>2 DEF RuntimeTypes
<1>6. StartedInOrder'
  BY <1>1, <1>4, OrderStays DEF RuntimeInv
<1>7. PlacesFit'
  BY <1>1, <1>2, <1>4, CallersFacts, RuntimeAssumption DEF RuntimeInv, Away, RuntimeTypes, PlacesFit, StartPlaces, QuitPlaces, StopPlaces, Place, ProcRow
<1>8. OneStarter'
  BY <1>1, <1>2, <1>4, CallersFacts, RuntimeAssumption DEF RuntimeInv, Away, RuntimeTypes, PlacesFit, OneStarter, StartPlaces, QuitPlaces, StopPlaces, Place, ProcRow
<1>9. LivingManaged'
  <2>. SUFFICES ASSUME ~overlapped' PROVE Alive' \subseteq {entry'}
    BY DEF LivingManaged
  <2>1. ~overlapped
    BY <1>1
  <2>2. Alive \subseteq {entry}
    BY <2>1 DEF RuntimeInv, LivingManaged
  <2>. QED
    BY <2>2, <1>1, <1>2, <1>4, CallersFacts, RuntimeAssumption DEF RuntimeInv, Away, RuntimeTypes, PlacesFit, OneStarter, StartPlaces, QuitPlaces, StopPlaces, Place, ProcRow, Alive
<1>10. DisabledQuiet'
  <2>. SUFFICES ASSUME ~overlapped', ~enabled' PROVE Quiet'
    BY DEF DisabledQuiet
  <2>1. ~overlapped /\ (~enabled => Quiet)
    BY <1>1 DEF RuntimeInv, DisabledQuiet
  <2>2. Alive \subseteq {entry} /\ Alive' \subseteq {entry'}
    BY <2>1, <1>9 DEF RuntimeInv, LivingManaged
  <2>. QED
    BY <2>1, <2>2, <1>1, <1>2, <1>4, CallersFacts, RuntimeAssumption DEF RuntimeInv, Quiet, Brings, Away, RuntimeTypes, PlacesFit, OneStarter, StartPlaces, QuitPlaces, StopPlaces, Place, ProcRow, Alive
<1>. QED
  BY <1>5, <1>6, <1>7, <1>8, <1>9, <1>10 DEF RuntimeInv

\* ChildExits: a child that ends frees nothing yet.
LEMMA ChildExitsStep ==
  ASSUME RuntimeInv, NEW p \in Procs, ChildExits(p)
  PROVE  RuntimeInv'
<1>1. UNCHANGED <<enabled, entry, startLock, overlapped>>
  BY DEF ChildExits
<1>2. RuntimeTypes'
  <2>1. enabled' \in BOOLEAN /\ overlapped' \in BOOLEAN
    BY <1>1 DEF RuntimeInv, RuntimeTypes
  <2>2. entry' \in 0..MaxProcs /\ proc' \in [Procs -> ProcRow] /\ caller' \in [Callers -> Place]
    BY <1>1, CallersFacts, RuntimeAssumption DEF RuntimeInv, RuntimeTypes, Goes, Place, ProcRow, StartPlaces, ChildExits
  <2>. QED
    BY <2>1, <2>2 DEF RuntimeTypes
<1>3. StartedInOrder'
  BY <1>1, OrderStays DEF RuntimeInv, ChildExits
<1>4. PlacesFit'
  BY <1>1, CallersFacts, RuntimeAssumption DEF RuntimeInv, ChildExits, Goes, Away, RuntimeTypes, PlacesFit, StartPlaces, QuitPlaces, StopPlaces, Place, ProcRow
<1>5. OneStarter'
  BY <1>1, CallersFacts, RuntimeAssumption DEF RuntimeInv, ChildExits, Goes, Away, RuntimeTypes, PlacesFit, OneStarter, StartPlaces, QuitPlaces, StopPlaces, Place, ProcRow
<1>6. LivingManaged'
  <2>. SUFFICES ASSUME ~overlapped' PROVE Alive' \subseteq {entry'}
    BY DEF LivingManaged
  <2>1. ~overlapped
    BY <1>1
  <2>2. Alive \subseteq {entry}
    BY <2>1 DEF RuntimeInv, LivingManaged
  <2>. QED
    BY <2>2, <1>1, CallersFacts, RuntimeAssumption DEF RuntimeInv, ChildExits, Goes, Away, RuntimeTypes, PlacesFit, OneStarter, StartPlaces, QuitPlaces, StopPlaces, Place, ProcRow, Alive
<1>7. DisabledQuiet'
  <2>. SUFFICES ASSUME ~overlapped', ~enabled' PROVE Quiet'
    BY DEF DisabledQuiet
  <2>1. ~overlapped /\ (~enabled => Quiet)
    BY <1>1 DEF RuntimeInv, DisabledQuiet
  <2>2. Alive \subseteq {entry} /\ Alive' \subseteq {entry'}
    BY <2>1, <1>6 DEF RuntimeInv, LivingManaged
  <2>. QED
    BY <2>1, <2>2, <1>1, CallersFacts, RuntimeAssumption DEF RuntimeInv, Quiet, Brings, ChildExits, Goes, Away, RuntimeTypes, PlacesFit, OneStarter, StartPlaces, QuitPlaces, StopPlaces, Place, ProcRow, Alive
<1>. QED
  BY <1>2, <1>3, <1>4, <1>5, <1>6, <1>7 DEF RuntimeInv

\* AnswersLate: the channel falls out of step.
LEMMA AnswersLateStep ==
  ASSUME RuntimeInv, AnswersLate
  PROVE  RuntimeInv'
<1>1. UNCHANGED <<enabled, entry, startLock, overlapped>>
  BY DEF AnswersLate
<1>2. RuntimeTypes'
  <2>1. enabled' \in BOOLEAN /\ overlapped' \in BOOLEAN
    BY <1>1 DEF RuntimeInv, RuntimeTypes
  <2>2. entry' \in 0..MaxProcs /\ caller' \in [Callers -> Place]
    BY <1>1 DEF RuntimeInv, RuntimeTypes, AnswersLate
  <2>3. proc' \in [Procs -> ProcRow]
    <3>1. entry \in Procs /\ proc[entry] \in ProcRow
      BY RuntimeAssumption DEF RuntimeInv, RuntimeTypes, AnswersLate, Procs
    <3>. QED
      BY <3>1, ProcWrites DEF RuntimeInv, RuntimeTypes, AnswersLate
  <2>. QED
    BY <2>1, <2>2, <2>3 DEF RuntimeTypes
<1>3. StartedInOrder'
  BY <1>1, OrderStays DEF RuntimeInv, AnswersLate
<1>4. PlacesFit'
  BY <1>1, CallersFacts, RuntimeAssumption DEF RuntimeInv, AnswersLate, Goes, Away, RuntimeTypes, PlacesFit, StartPlaces, QuitPlaces, StopPlaces, Place, ProcRow
<1>5. OneStarter'
  BY <1>1, CallersFacts, RuntimeAssumption DEF RuntimeInv, AnswersLate, Goes, Away, RuntimeTypes, PlacesFit, OneStarter, StartPlaces, QuitPlaces, StopPlaces, Place, ProcRow
<1>6. LivingManaged'
  <2>. SUFFICES ASSUME ~overlapped' PROVE Alive' \subseteq {entry'}
    BY DEF LivingManaged
  <2>1. ~overlapped
    BY <1>1
  <2>2. Alive \subseteq {entry}
    BY <2>1 DEF RuntimeInv, LivingManaged
  <2>. QED
    BY <2>2, <1>1, CallersFacts, RuntimeAssumption DEF RuntimeInv, AnswersLate, Goes, Away, RuntimeTypes, PlacesFit, OneStarter, StartPlaces, QuitPlaces, StopPlaces, Place, ProcRow, Alive
<1>7. DisabledQuiet'
  <2>. SUFFICES ASSUME ~overlapped', ~enabled' PROVE Quiet'
    BY DEF DisabledQuiet
  <2>1. ~overlapped /\ (~enabled => Quiet)
    BY <1>1 DEF RuntimeInv, DisabledQuiet
  <2>2. Alive \subseteq {entry} /\ Alive' \subseteq {entry'}
    BY <2>1, <1>6 DEF RuntimeInv, LivingManaged
  <2>. QED
    BY <2>1, <2>2, <1>1, CallersFacts, RuntimeAssumption DEF RuntimeInv, Quiet, Brings, AnswersLate, Goes, Away, RuntimeTypes, PlacesFit, OneStarter, StartPlaces, QuitPlaces, StopPlaces, Place, ProcRow, Alive
<1>. QED
  BY <1>2, <1>3, <1>4, <1>5, <1>6, <1>7 DEF RuntimeInv

\* SuperviseStart: only an enabled plugin is started.
LEMMA SuperviseStartStep ==
  ASSUME RuntimeInv, SuperviseStart
  PROVE  RuntimeInv'
<1>1. UNCHANGED <<enabled, entry, startLock, overlapped>>
  BY DEF SuperviseStart
<1>2. RuntimeTypes'
  <2>1. enabled' \in BOOLEAN /\ overlapped' \in BOOLEAN
    BY <1>1 DEF RuntimeInv, RuntimeTypes
  <2>2. entry' \in 0..MaxProcs /\ proc' \in [Procs -> ProcRow] /\ caller' \in [Callers -> Place]
    BY <1>1, CallersFacts, RuntimeAssumption DEF RuntimeInv, RuntimeTypes, Goes, Place, ProcRow, StartPlaces, SuperviseStart
  <2>. QED
    BY <2>1, <2>2 DEF RuntimeTypes
<1>3. StartedInOrder'
  BY <1>1, OrderStays DEF RuntimeInv, SuperviseStart
<1>4. PlacesFit'
  BY <1>1, CallersFacts, RuntimeAssumption DEF RuntimeInv, SuperviseStart, Goes, Away, RuntimeTypes, PlacesFit, StartPlaces, QuitPlaces, StopPlaces, Place, ProcRow
<1>5. OneStarter'
  BY <1>1, CallersFacts, RuntimeAssumption DEF RuntimeInv, SuperviseStart, Goes, Away, RuntimeTypes, PlacesFit, OneStarter, StartPlaces, QuitPlaces, StopPlaces, Place, ProcRow
<1>6. LivingManaged'
  <2>. SUFFICES ASSUME ~overlapped' PROVE Alive' \subseteq {entry'}
    BY DEF LivingManaged
  <2>1. ~overlapped
    BY <1>1
  <2>2. Alive \subseteq {entry}
    BY <2>1 DEF RuntimeInv, LivingManaged
  <2>. QED
    BY <2>2, <1>1, CallersFacts, RuntimeAssumption DEF RuntimeInv, SuperviseStart, Goes, Away, RuntimeTypes, PlacesFit, OneStarter, StartPlaces, QuitPlaces, StopPlaces, Place, ProcRow, Alive
<1>7. DisabledQuiet'
  <2>. SUFFICES ASSUME ~overlapped', ~enabled' PROVE Quiet'
    BY DEF DisabledQuiet
  <2>1. ~overlapped /\ (~enabled => Quiet)
    BY <1>1 DEF RuntimeInv, DisabledQuiet
  <2>2. Alive \subseteq {entry} /\ Alive' \subseteq {entry'}
    BY <2>1, <1>6 DEF RuntimeInv, LivingManaged
  <2>. QED
    BY <2>1, <2>2, <1>1, CallersFacts, RuntimeAssumption DEF RuntimeInv, Quiet, Brings, SuperviseStart, Goes, Away, RuntimeTypes, PlacesFit, OneStarter, StartPlaces, QuitPlaces, StopPlaces, Place, ProcRow, Alive
<1>. QED
  BY <1>2, <1>3, <1>4, <1>5, <1>6, <1>7 DEF RuntimeInv

\* PluginEnable goes to start.
LEMMA PluginEnableStep ==
  ASSUME RuntimeInv, NEW c \in Admins, PluginEnable(c)
  PROVE  RuntimeInv'
<1>1. UNCHANGED <<enabled, entry, startLock, overlapped>>
  BY DEF PluginEnable, Ordered
<1>2. RuntimeTypes'
  <2>1. enabled' \in BOOLEAN /\ overlapped' \in BOOLEAN
    BY <1>1 DEF RuntimeInv, RuntimeTypes
  <2>2. entry' \in 0..MaxProcs /\ proc' \in [Procs -> ProcRow] /\ caller' \in [Callers -> Place]
    BY <1>1, CallersFacts, RuntimeAssumption DEF RuntimeInv, RuntimeTypes, Goes, Place, ProcRow, StartPlaces, PluginEnable, Ordered
  <2>. QED
    BY <2>1, <2>2 DEF RuntimeTypes
<1>3. StartedInOrder'
  BY <1>1, OrderStays DEF RuntimeInv, PluginEnable, Ordered
<1>4. PlacesFit'
  BY <1>1, CallersFacts, RuntimeAssumption DEF RuntimeInv, PluginEnable, Ordered, Goes, Away, RuntimeTypes, PlacesFit, StartPlaces, QuitPlaces, StopPlaces, Place, ProcRow
<1>5. OneStarter'
  BY <1>1, CallersFacts, RuntimeAssumption DEF RuntimeInv, PluginEnable, Ordered, Goes, Away, RuntimeTypes, PlacesFit, OneStarter, StartPlaces, QuitPlaces, StopPlaces, Place, ProcRow
<1>6. LivingManaged'
  <2>. SUFFICES ASSUME ~overlapped' PROVE Alive' \subseteq {entry'}
    BY DEF LivingManaged
  <2>1. ~overlapped
    BY <1>1
  <2>2. Alive \subseteq {entry}
    BY <2>1 DEF RuntimeInv, LivingManaged
  <2>. QED
    BY <2>2, <1>1, CallersFacts, RuntimeAssumption DEF RuntimeInv, PluginEnable, Ordered, Goes, Away, RuntimeTypes, PlacesFit, OneStarter, StartPlaces, QuitPlaces, StopPlaces, Place, ProcRow, Alive
<1>7. DisabledQuiet'
  <2>. SUFFICES ASSUME ~overlapped', ~enabled' PROVE Quiet'
    BY DEF DisabledQuiet
  <2>1. ~overlapped /\ (~enabled => Quiet)
    BY <1>1 DEF RuntimeInv, DisabledQuiet
  <2>2. Alive \subseteq {entry} /\ Alive' \subseteq {entry'}
    BY <2>1, <1>6 DEF RuntimeInv, LivingManaged
  <2>. QED
    BY <2>1, <2>2, <1>1, CallersFacts, RuntimeAssumption DEF RuntimeInv, Quiet, Brings, PluginEnable, Ordered, Goes, Away, RuntimeTypes, PlacesFit, OneStarter, StartPlaces, QuitPlaces, StopPlaces, Place, ProcRow, Alive
<1>. QED
  BY <1>2, <1>3, <1>4, <1>5, <1>6, <1>7 DEF RuntimeInv

\* WatchExit: only the entry of a dead process goes.
LEMMA WatchExitStep ==
  ASSUME RuntimeInv, NEW p \in Procs, WatchExit(p)
  PROVE  RuntimeInv'
<1>1. UNCHANGED <<enabled, startLock, caller, overlapped>> /\ entry' \in {0, entry}
  BY DEF WatchExit
<1>2. [proc[p] EXCEPT !.watched = FALSE] \in ProcRow /\ [proc[p] EXCEPT !.watched = FALSE].state = proc[p].state
  BY ProcWrites DEF RuntimeInv, RuntimeTypes
<1>3. /\ proc' \in [Procs -> ProcRow] /\ \A q \in Procs : proc'[q].state = proc[q].state
      /\ proc[p].state = "dead" /\ (entry' = entry \/ entry = p)
  BY <1>2, ProcChanges DEF RuntimeInv, WatchExit
<1>4. RuntimeTypes'
  <2>1. enabled' \in BOOLEAN /\ overlapped' \in BOOLEAN
    BY <1>1 DEF RuntimeInv, RuntimeTypes
  <2>2. entry' \in 0..MaxProcs /\ proc' \in [Procs -> ProcRow] /\ caller' \in [Callers -> Place]
    BY <1>1, <1>3, CallersFacts, RuntimeAssumption DEF RuntimeInv, RuntimeTypes
  <2>. QED
    BY <2>1, <2>2 DEF RuntimeTypes
<1>5. StartedInOrder'
  BY <1>1, <1>3, OrderStays DEF RuntimeInv
<1>6. PlacesFit'
  BY <1>1, <1>3, CallersFacts, RuntimeAssumption DEF RuntimeInv, RuntimeTypes, PlacesFit, StartPlaces, QuitPlaces, StopPlaces, Place, ProcRow
<1>7. OneStarter'
  BY <1>1, <1>3, CallersFacts, RuntimeAssumption DEF RuntimeInv, RuntimeTypes, PlacesFit, OneStarter, StartPlaces, QuitPlaces, StopPlaces, Place, ProcRow
<1>8. LivingManaged'
  <2>. SUFFICES ASSUME ~overlapped' PROVE Alive' \subseteq {entry'}
    BY DEF LivingManaged
  <2>1. ~overlapped
    BY <1>1
  <2>2. Alive \subseteq {entry}
    BY <2>1 DEF RuntimeInv, LivingManaged
  <2>. QED
    BY <2>2, <1>1, <1>3, CallersFacts, RuntimeAssumption DEF RuntimeInv, RuntimeTypes, PlacesFit, OneStarter, StartPlaces, QuitPlaces, StopPlaces, Place, ProcRow, Alive
<1>9. DisabledQuiet'
  <2>. SUFFICES ASSUME ~overlapped', ~enabled' PROVE Quiet'
    BY DEF DisabledQuiet
  <2>1. ~overlapped /\ (~enabled => Quiet)
    BY <1>1 DEF RuntimeInv, DisabledQuiet
  <2>2. Alive \subseteq {entry} /\ Alive' \subseteq {entry'}
    BY <2>1, <1>8 DEF RuntimeInv, LivingManaged
  <2>. QED
    BY <2>1, <2>2, <1>1, <1>3, CallersFacts, RuntimeAssumption DEF RuntimeInv, Quiet, Brings, RuntimeTypes, PlacesFit, OneStarter, StartPlaces, QuitPlaces, StopPlaces, Place, ProcRow, Alive
<1>. QED
  BY <1>4, <1>5, <1>6, <1>7, <1>8, <1>9 DEF RuntimeInv

\* The steps that leave everything the invariant speaks of.
LEMMA RuntimeStutter ==
  ASSUME RuntimeInv, UNCHANGED <<enabled, entry, proc, startLock, caller, overlapped>>
  PROVE  RuntimeInv'
<1>1. RuntimeTypes'
  BY DEF RuntimeInv, RuntimeTypes
<1>2. StartedInOrder'
  BY DEF RuntimeInv, StartedInOrder
<1>3. PlacesFit' /\ OneStarter'
  BY DEF RuntimeInv, PlacesFit, OneStarter
<1>4. Alive' = Alive /\ (Quiet => Quiet')
  BY DEF Alive, Quiet, Brings
<1>5. LivingManaged'
  BY <1>4 DEF RuntimeInv, LivingManaged
<1>6. DisabledQuiet'
  BY <1>4 DEF RuntimeInv, DisabledQuiet
<1>. QED
  BY <1>1, <1>3, <1>2, <1>5, <1>6 DEF RuntimeInv

LEMMA SupervisePingStep ==
  ASSUME RuntimeInv, SupervisePing
  PROVE  RuntimeInv'
<1>1. UNCHANGED <<entry, startLock>> /\ caller[Sup].at = "idle" /\ Sup \in Callers
  BY CallersFacts DEF SupervisePing
<1>2. UNCHANGED <<enabled, proc, caller, overlapped>> \/ StopBegins(Sup, "supervise")
  BY DEF SupervisePing
<1>3. CASE UNCHANGED <<enabled, proc, caller, overlapped>>
  BY <1>1, <1>3, RuntimeStutter
<1>4. CASE StopBegins(Sup, "supervise")
  BY <1>1, <1>4, StopBeginsStep
<1>. QED
  BY <1>2, <1>3, <1>4

LEMMA PluginRestartStep ==
  ASSUME RuntimeInv, NEW c \in Admins, PluginRestart(c)
  PROVE  RuntimeInv'
<1>1. UNCHANGED <<entry, startLock>> /\ caller[c].at = "idle" /\ c \in Callers
  BY CallersFacts DEF PluginRestart, Ordered
<1>2. StopBegins(c, "restart") /\ enabled
  BY DEF PluginRestart
<1>. QED
  BY <1>1, <1>2, StopBeginsStep

\* The invariant holds of every behaviour: what stands in `start' and what lives
\* fits the entry, the lock and the switch (process.py start, stop and _close;
\* control.py enable_plugin and disable_plugin).
THEOREM RuntimeInvariance == RuntimeSpec => []RuntimeInv
<1>1. RuntimeInit => RuntimeInv
  <2>1. SUFFICES ASSUME RuntimeInit PROVE RuntimeInv
    OBVIOUS
  <2>2. /\ enabled \in BOOLEAN /\ overlapped = FALSE /\ entry = 0
        /\ proc = [p \in Procs |-> NoProc] /\ caller = [c \in Callers |-> Away]
    BY <2>1 DEF RuntimeInit
  <2>3. NoProc \in ProcRow /\ NoProc.state = "none" /\ Away \in Place
    BY AwayPlace DEF NoProc, ProcRow
  <2>4. RuntimeTypes
    <3>1. enabled \in BOOLEAN /\ overlapped \in BOOLEAN
      BY <2>2
    <3>2. entry \in 0..MaxProcs
      BY <2>2, RuntimeAssumption
    <3>3. proc \in [Procs -> ProcRow] /\ caller \in [Callers -> Place]
      BY <2>2, <2>3
    <3>. QED
      BY <3>1, <3>2, <3>3 DEF RuntimeTypes
  <2>5. \A p \in Procs : proc[p].state = "none"
    BY <2>2, <2>3
  <2>6. \A c \in Callers : caller[c] = Away /\ caller[c].at = "idle" /\ caller[c].op = "none"
    BY <2>2 DEF Away
  <2>7. StartedInOrder
    <3>1. 0 \in 0..MaxProcs /\ \A p \in Procs : ~(p <= 0)
      BY RuntimeAssumption DEF Procs
    <3>. QED
      BY <3>1, <2>2, <2>5 DEF StartedInOrder
  <2>8. PlacesFit /\ OneStarter
    BY <2>6 DEF PlacesFit, OneStarter, StartPlaces, QuitPlaces, StopPlaces
  <2>9. Alive = {}
    BY <2>5 DEF Alive
  <2>10. LivingManaged /\ DisabledQuiet
    BY <2>6, <2>9 DEF LivingManaged, DisabledQuiet, Quiet, Brings, StartPlaces
  <2>. QED
    BY <2>4, <2>7, <2>8, <2>10 DEF RuntimeInv
<1>2. RuntimeInv /\ [RuntimeNext]_runtimeVars => RuntimeInv'
  <2>1. SUFFICES ASSUME RuntimeInv, [RuntimeNext]_runtimeVars PROVE RuntimeInv'
    OBVIOUS
  <2>2. ASSUME NEW c \in Callers, CallerSteps(c) PROVE RuntimeInv'
    <3>1. ASSUME NEW verified \in BOOLEAN, StartChecks(c, verified) PROVE RuntimeInv'
      BY <2>1, <3>1, StartChecksStep
    <3>2. CASE Spawned(c)
      BY <2>1, <3>2, SpawnedStep
    <3>3. CASE HandshakeOk(c)
      BY <2>1, <3>3, HandshakeOkStep
    <3>4. CASE HandshakeFails(c)
      BY <2>1, <3>4, HandshakeFailsStep
    <3>7. CASE HandshakeKills(c)
      BY <2>1, <3>7, HandshakeKillsStep
    <3>8. CASE HandshakeCloses(c)
      BY <2>1, <3>8, HandshakeClosesStep
    <3>5. CASE StopWaits(c)
      BY <2>1, <3>5, StopWaitsStep
    <3>6. CASE StopCloses(c)
      BY <2>1, <3>6, StopClosesStep
    <3>. QED
      BY <2>2, <3>1, <3>2, <3>3, <3>4, <3>5, <3>6, <3>7, <3>8 DEF CallerSteps
  <2>3. ASSUME NEW c \in Admins, PluginEnable(c) \/ PluginDisable(c) \/ PluginRestart(c)
        PROVE  RuntimeInv'
    BY <2>1, <2>3, PluginEnableStep, PluginDisableStep, PluginRestartStep
  <2>4. ASSUME NEW p \in Procs, ChildExits(p) \/ WatchExit(p) PROVE RuntimeInv'
    BY <2>1, <2>4, ChildExitsStep, WatchExitStep
  <2>5. CASE PluginSettingsAction \/ EventDelivery
    BY <2>1, <2>5, AnswersLateStep DEF PluginSettingsAction, EventDelivery
  <2>6. CASE SuperviseStart \/ SupervisePing
    BY <2>1, <2>6, SuperviseStartStep, SupervisePingStep
  <2>7. CASE ServerRestarts
    BY <2>1, <2>7, ServerRestartsStep
  <2>8. CASE \/ WindowPasses \/ PluginCapability \/ LifecycleBegins \/ LifecycleEnds
             \/ \E new \in {"enabled", "disabled"} : CliSetEnabled(new)
    <3>1. UNCHANGED <<enabled, entry, proc, startLock, caller, overlapped>>
      BY <2>8 DEF WindowPasses, PluginCapability, LifecycleBegins, LifecycleEnds, CliSetEnabled
    <3>. QED
      BY <2>1, <3>1, RuntimeStutter
  <2>9. CASE UNCHANGED runtimeVars
    BY <2>1, <2>9, RuntimeStutter DEF runtimeVars
  <2>. QED
    BY <2>1, <2>2, <2>3, <2>4, <2>5, <2>6, <2>7, <2>8, <2>9 DEF RuntimeNext
<1>. QED
  BY <1>1, <1>2, PTL DEF RuntimeSpec

\* When every request has returned, the processes that live are the one that is
\* entered, and none while the plugin is disabled, unless a start overlapped a
\* stop (process.py stop and _close, control.py disable_plugin).
THEOREM ProcessIsManaged == RuntimeSpec => []ManagedProcess
<1>1. RuntimeInv => ManagedProcess
  <2>1. SUFFICES ASSUME RuntimeInv, Settled, ~overlapped
                 PROVE  Alive \subseteq {entry} /\ (~enabled => Alive = {})
    BY DEF ManagedProcess
  <2>2. Alive \subseteq {entry}
    BY <2>1 DEF RuntimeInv, LivingManaged
  <2>3. \A c \in Callers : caller[c].at = "idle"
    BY <2>1 DEF Settled, Away
  <2>4. ~enabled => Quiet
    BY <2>1 DEF RuntimeInv, DisabledQuiet
  <2>5. Quiet => Alive = {}
    BY <2>3 DEF Quiet, Brings
  <2>. QED
    BY <2>2, <2>4, <2>5
<1>. QED
  BY <1>1, RuntimeInvariance, PTL

=============================================================================
