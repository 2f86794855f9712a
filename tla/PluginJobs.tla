----------------------------- MODULE PluginJobs -----------------------------
(***************************************************************************)
(* The jobs of one plugin: schedule_job, claim_due_job, finish_job,        *)
(* defer_job and cancel_job of plugins/services.py, and the loop of        *)
(* plugins/jobs.py, one in every server process that shares the database.  *)
(* At most one of them runs the plugin; the others claim jobs too and put  *)
(* them back.                                                              *)
(*                                                                         *)
(* finish_job, defer_job and cancel_job find a job by its key and ask only *)
(* whether it is running, not whose lease it is.  finish_job raises when   *)
(* it is not, outside of the loop's handlers, and the loop ends.           *)
(***************************************************************************)
EXTENDS Naturals, FiniteSets

CONSTANTS Jobs,        \* idempotency keys
          JobWorkers,  \* server processes
          JobAttempts, \* PluginJob.max_attempts
          MaxOpenJobs, \* MAX_PENDING_JOBS
          MaxLapses,   \* bound: leases that run out
          MaxMoves     \* bound: starts, stops and moves of the plugin

ASSUME JobsAssumption ==
    {JobAttempts, MaxOpenJobs, MaxLapses, MaxMoves} \subseteq Nat

VARIABLES job,     \* plugin_jobs
          runner,  \* where each worker's loop stands
          host,    \* the worker whose manager runs the plugin
          allowed, \* jobs.schedule is granted
          done,    \* how often the plugin did each job
          excused, \* jobs that may have been done before: the lease ran out,
                   \* the answer was lost, or the process ended
          lapses, moves

jobVars == <<job, runner, host, allowed, done, excused, lapses, moves>>

NoJob     == [status |-> "none", attempts |-> 0, lapsed |-> FALSE]
Polling   == [phase |-> "polling", job |-> "none"]
OpenJobs  == {"pending", "retry", "running"}

JobsInit ==
    /\ job     = [j \in Jobs |-> NoJob]
    /\ runner  = [w \in JobWorkers |-> Polling]
    /\ host    = "none"
    /\ allowed = TRUE
    /\ done    = [j \in Jobs |-> 0]
    /\ excused = {}
    /\ lapses  = 0
    /\ moves   = 0

\* schedule_job, from the plugin's own process.  A key that was used before
\* names the job there is.
ScheduleJob(j) ==
    /\ host # "none" /\ allowed
    /\ job[j].status = "none"
    /\ Cardinality({i \in Jobs : job[i].status \in OpenJobs}) < MaxOpenJobs
    /\ job' = [job EXCEPT ![j] = [NoJob EXCEPT !.status = "pending"]]
    /\ UNCHANGED <<runner, host, allowed, done, excused, lapses, moves>>

\* Mutation: a job that runs is due like any other.
DueRunning(j) == job[j].status \in OpenJobs

Due(j) == \/ job[j].status \in {"pending", "retry"}
          \/ job[j].status = "running" /\ job[j].lapsed

\* The end of a job: dead, cancelled.
JobEnded(row, status) == [row EXCEPT !.status = status, !.lapsed = FALSE]

\* claim_due_job: the conditional update names the status and the lease read.
ClaimDueJob(w, j) ==
    /\ runner[w].phase = "polling"
    /\ Due(j)
    /\ IF job[j].attempts >= JobAttempts
       THEN /\ job' = [job EXCEPT ![j] = JobEnded(@, "dead")]
            /\ UNCHANGED runner
       ELSE /\ job' = [job EXCEPT ![j] = [status |-> "running", lapsed |-> FALSE,
                                          attempts |-> job[j].attempts + 1]]
            /\ runner' = [runner EXCEPT ![w] = [phase |-> "claimed", job |-> j]]
    /\ UNCHANGED <<host, allowed, done, excused, lapses, moves>>

\* defer_job: put back, the attempt not counted.
Deferred(row) == [row EXCEPT !.status = "pending", !.lapsed = FALSE,
                             !.attempts = IF row.attempts = 0 THEN 0 ELSE row.attempts - 1]

DeferJob(w) ==
    LET j == runner[w].job IN
    /\ runner[w].phase = "claimed"
    /\ host # w
    /\ job' = IF job[j].status = "running" THEN [job EXCEPT ![j] = Deferred(@)] ELSE job
    /\ runner' = [runner EXCEPT ![w] = Polling]
    /\ UNCHANGED <<host, allowed, done, excused, lapses, moves>>

\* execute_task: without the grant the job is cancelled, else the plugin is asked.
ExecuteTask(w) ==
    LET j == runner[w].job IN
    /\ runner[w].phase = "claimed"
    /\ host = w
    /\ IF allowed
       THEN runner' = [runner EXCEPT ![w] = [phase |-> "asked", job |-> j]] /\ UNCHANGED job
       ELSE /\ job' = IF job[j].status = "running"
                      THEN [job EXCEPT ![j] = JobEnded(@, "cancelled")]
                      ELSE job
            /\ runner' = [runner EXCEPT ![w] = Polling]
    /\ UNCHANGED <<host, allowed, done, excused, lapses, moves>>

\* The plugin answers, answers too late, or fails; an answer that is late, or
\* lost with the process, leaves the job done and reported as failed.
Answered(w, answer) ==
    LET j == runner[w].job IN
    /\ runner[w].phase = "asked"
    /\ answer = "lost" \/ host = w
    /\ runner' = [runner EXCEPT ![w] = [phase |-> IF answer = "ok" THEN "ok" ELSE "error", job |-> j]]
    /\ done' = IF answer \in {"ok", "late"} THEN [done EXCEPT ![j] = @ + 1] ELSE done
    /\ excused' = IF answer = "late" THEN excused \cup {j} ELSE excused
    /\ UNCHANGED <<job, host, allowed, lapses, moves>>

\* finish_job, with or without an error.
Finished(row, ok) ==
    [row EXCEPT !.lapsed = FALSE,
                !.status = IF ok THEN "succeeded"
                           ELSE IF row.attempts >= JobAttempts THEN "dead" ELSE "retry"]

FinishJob(w) ==
    LET j == runner[w].job IN
    /\ runner[w].phase \in {"ok", "error"}
    /\ IF job[j].status = "running"
       THEN /\ job' = [job EXCEPT ![j] = Finished(@, runner[w].phase = "ok")]
            /\ runner' = [runner EXCEPT ![w] = Polling]
       ELSE /\ runner' = [runner EXCEPT ![w] = [phase |-> "ended", job |-> j]]
            /\ UNCHANGED job
    /\ UNCHANGED <<host, allowed, done, excused, lapses, moves>>

JobLeaseLapses(j) ==
    /\ job[j].status = "running" /\ ~job[j].lapsed
    /\ lapses < MaxLapses
    /\ lapses' = lapses + 1
    /\ job' = [job EXCEPT ![j] = [@ EXCEPT !.lapsed = TRUE]]
    /\ excused' = excused \cup {j}
    /\ UNCHANGED <<runner, host, allowed, done, moves>>

\* The plugin starts in a server process, or stops there.
PluginMoves(w) ==
    /\ moves < MaxMoves
    /\ moves' = moves + 1
    /\ host' = IF host = w THEN "none" ELSE w
    /\ host \in {"none", w}
    /\ UNCHANGED <<job, runner, allowed, done, excused, lapses>>

\* The server process is stopped or dies, and comes back.
ServerEnds(w) ==
    /\ moves < MaxMoves
    /\ moves' = moves + 1
    /\ runner' = [runner EXCEPT ![w] = Polling]
    /\ host' = IF host = w THEN "none" ELSE host
    /\ done' = IF runner[w].phase = "asked" /\ host = w
               THEN [done EXCEPT ![runner[w].job] = @ + 1] ELSE done
    /\ excused' = IF runner[w].phase \in {"asked", "ok", "error"}
                  THEN excused \cup {runner[w].job} ELSE excused
    /\ UNCHANGED <<job, allowed, lapses>>

GrantChanges ==
    /\ moves < MaxMoves
    /\ moves' = moves + 1
    /\ allowed' = ~allowed
    /\ UNCHANGED <<job, runner, host, done, excused, lapses>>

JobsNext ==
    \/ GrantChanges
    \/ \E j \in Jobs : ScheduleJob(j) \/ JobLeaseLapses(j)
    \/ \E w \in JobWorkers :
         \/ \E j \in Jobs : ClaimDueJob(w, j)
         \/ \E answer \in {"ok", "late", "error", "lost"} : Answered(w, answer)
         \/ DeferJob(w) \/ ExecuteTask(w) \/ FinishJob(w) \/ PluginMoves(w) \/ ServerEnds(w)

JobsSpec == JobsInit /\ [][JobsNext]_jobVars

-----------------------------------------------------------------------------
(* Properties.                                                             *)

\* The plugin does a job more than once only if a lease ran out, an answer
\* came too late or a server process ended, although servers that do not run
\* the plugin claim its jobs and put them back all the time; a job that
\* succeeded was done, and none is tried more often than max_attempts; and a
\* worker's loop ends (finish_job raising) only over a job whose lease ran
\* out or whose worker died.
JobRunsExplained ==
    /\ \A j \in Jobs : /\ done[j] > 1 => j \in excused
                       /\ job[j].status = "succeeded" => done[j] >= 1
                       /\ job[j].attempts <= JobAttempts
    /\ \A w \in JobWorkers : runner[w].phase = "ended" => runner[w].job \in excused

=============================================================================
