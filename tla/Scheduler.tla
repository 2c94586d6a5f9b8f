----------------------------- MODULE Scheduler -----------------------------
(***************************************************************************)
(* pkg/scheduler/scheduler.go: a table of jobs, a goroutine that wakes     *)
(* every 30 s and starts each job that is due in a goroutine of its own,   *)
(* which moves the job's NextRun when it ends.  Jobs are added, removed,   *)
(* paused and resumed meanwhile, and the scheduler stopped and restarted.  *)
(* A job is a pointer: an execution keeps it after the table has lost it.  *)
(* RunJobNow changes nothing here and is no action.                        *)
(***************************************************************************)
EXTENDS Integers

CONSTANTS
  Names,       (* job ids                                                      *)
  Schedules,   (* the values of ScheduleType that jobs are added with          *)
  Interval,    (* a job's Interval, in ticks                                   *)
  At,          (* a job's At                                                   *)
  CronTimes,   (* the times a job's CronExpr matches                           *)
  MaxJobs,     (* bounds the jobs ever added                                   *)
  MaxStarts,   (* bounds the calls of Start                                    *)
  MaxTime      (* bounds the clock                                             *)

ScheduleTypes == {"interval", "once", "cron", "unset"}

ASSUME SchedulerConstants ==
  /\ Schedules \subseteq ScheduleTypes
  /\ Interval \in Nat \ {0} /\ At \in Nat \ {0} /\ CronTimes \subseteq Nat \ {0}
  /\ MaxJobs \in Nat /\ MaxStarts \in Nat /\ MaxTime \in Nat

Jobs    == 1..MaxJobs
Runners == 1..MaxStarts

VARIABLES
  jobs,       (* the table: the job with this id, 0 for none                   *)
  job,        (* the ScheduledJob structs ever added                           *)
  added,      (* how many of them there are                                    *)
  active,     (* executions of a job under way                                 *)
  now,        (* the clock, which moves by one tick period; 0 is the zero time *)
  tick,       (* the ticker's channel holds a tick                             *)
  running, starts,
  runner,     (* the goroutine of each Start: its place, the ticker it waits on*)
  started     (* history: how often a tick has started the job                 *)

table  == <<jobs, job, added>>
clocks == <<now, tick>>
life   == <<running, starts, runner>>
schedulerVars == <<table, active, clocks, life, started>>

NoJob == [type |-> "unset", enabled |-> FALSE, lastRun |-> 0, nextRun |-> 0]

SchedulerInit ==
  /\ jobs = [n \in Names |-> 0]
  /\ job = [j \in Jobs |-> NoJob] /\ added = 0
  /\ active = [j \in Jobs |-> 0] /\ started = [j \in Jobs |-> 0]
  /\ now = 1 /\ tick = FALSE
  /\ running = FALSE /\ starts = 0
  /\ runner = [r \in Runners |-> [place |-> "none", ticker |-> 0]]

-----------------------------------------------------------------------------
(* calculateNextRun.  A cron expression or a type it does not know gives the  *)
(* zero time, with which a job is never due.                                  *)

Earliest(t) == t > now /\ \A u \in CronTimes : u > now => t <= u

NextMatch ==
  IF \E t \in CronTimes : Earliest(t)
  THEN CHOOSE t \in CronTimes : Earliest(t)
  ELSE 0

(* Mutant. *)
OnceAtAnyTime == At

OnceNext == IF At > now THEN At ELSE 0

CalculateNextRun(x) ==
  CASE x.type = "interval" -> (IF x.lastRun = 0 THEN now ELSE x.lastRun) + Interval
    [] x.type = "once"     -> OnceNext
    [] x.type = "cron"     -> NextMatch
    [] x.type = "unset"    -> 0

-----------------------------------------------------------------------------
(* The API, each call under the scheduler's mutex.  Both callers of AddJob,   *)
(* the scheduler tool and serve.go, add jobs that are enabled.                *)

AddJob(n, type) ==
  /\ jobs[n] = 0 /\ added < MaxJobs
  /\ added' = added + 1
  /\ jobs' = [jobs EXCEPT ![n] = added']
  /\ LET x == [NoJob EXCEPT !.type = type, !.enabled = TRUE]
     IN  job' = [job EXCEPT ![added'] = [x EXCEPT !.nextRun = CalculateNextRun(x)]]
  /\ UNCHANGED <<active, clocks, life, started>>

RemoveJob(n) ==
  /\ jobs[n] # 0
  /\ jobs' = [jobs EXCEPT ![n] = 0]
  /\ UNCHANGED <<job, added, active, clocks, life, started>>

PauseJob(n) ==
  /\ jobs[n] # 0
  /\ job' = [job EXCEPT ![jobs[n]].enabled = FALSE]
  /\ UNCHANGED <<jobs, added, active, clocks, life, started>>

(* Mutant. *)
ResumeNow(n) ==
  /\ jobs[n] # 0
  /\ job' = [job EXCEPT ![jobs[n]].enabled = TRUE, ![jobs[n]].nextRun = now]
  /\ UNCHANGED <<jobs, added, active, clocks, life, started>>

ResumeJob(n) ==
  /\ jobs[n] # 0
  /\ job' = [job EXCEPT ![jobs[n]].enabled = TRUE,
                        ![jobs[n]].nextRun = CalculateNextRun(job[jobs[n]])]
  /\ UNCHANGED <<jobs, added, active, clocks, life, started>>

(* Every Start has a context, a ticker and a goroutine of its own.            *)
Start ==
  /\ ~running /\ starts < MaxStarts
  /\ running' = TRUE /\ starts' = starts + 1
  /\ runner' = [runner EXCEPT ![starts'] = [place |-> "loop", ticker |-> starts']]
  /\ tick' = FALSE
  /\ UNCHANGED <<table, active, now, started>>

(* A stopped ticker delivers nothing more.                                    *)
Stop ==
  /\ running /\ running' = FALSE
  /\ tick' = FALSE
  /\ UNCHANGED <<table, active, now, starts, runner, started>>

-----------------------------------------------------------------------------
(* run() and checkAndRunJobs().                                               *)

(* Mutant. *)
CancelledByFlag(r) == ~running

Cancelled(r) == ~running \/ r # starts

(* The select looks s.ticker up without the lock that Start replaces it       *)
(* under: it may see any that was there since the goroutine last looked.      *)
Look(r) ==
  /\ runner[r].place = "loop"
  /\ \E k \in runner[r].ticker..starts :
       runner' = [runner EXCEPT ![r] = [place |-> "select", ticker |-> k]]
  /\ UNCHANGED <<table, active, clocks, running, starts, started>>

Receive(r) ==
  /\ runner[r].place = "select" /\ runner[r].ticker = starts /\ tick
  /\ tick' = FALSE
  /\ runner' = [runner EXCEPT ![r].place = "check"]
  /\ UNCHANGED <<table, active, now, running, starts, started>>

Listed(j) == \E n \in Names : jobs[n] = j

Due(j) ==
  Listed(j) /\ job[j].enabled /\ job[j].nextRun # 0 /\ now > job[j].nextRun

(* Mutant. *)
CheckAndReturn(r) ==
  /\ runner[r].place = "check"
  /\ active'  = [j \in Jobs |-> IF Due(j) THEN active[j] + 1 ELSE active[j]]
  /\ started' = [j \in Jobs |-> IF Due(j) THEN started[j] + 1 ELSE started[j]]
  /\ runner' = [runner EXCEPT ![r].place = "gone"]
  /\ UNCHANGED <<table, clocks, running, starts>>

Check(r) ==
  /\ runner[r].place = "check"
  /\ active'  = [j \in Jobs |-> IF Due(j) THEN active[j] + 1 ELSE active[j]]
  /\ started' = [j \in Jobs |-> IF Due(j) THEN started[j] + 1 ELSE started[j]]
  /\ runner' = [runner EXCEPT ![r].place = "loop"]
  /\ UNCHANGED <<table, clocks, running, starts>>

Exit(r) ==
  /\ runner[r].place = "select" /\ Cancelled(r)
  /\ runner' = [runner EXCEPT ![r] = [place |-> "gone", ticker |-> 0]]
  /\ UNCHANGED <<table, active, clocks, running, starts, started>>

Ended(x) == [x EXCEPT !.lastRun = now]

(* Mutant. *)
FinishByName(j) ==
  /\ active[j] > 0
  /\ active' = [active EXCEPT ![j] = @ - 1]
  /\ \E n \in Names :
       /\ jobs[n] # 0
       /\ LET x == Ended(job[jobs[n]])
          IN  job' = [job EXCEPT ![jobs[n]] = [x EXCEPT !.nextRun = CalculateNextRun(x)]]
  /\ UNCHANGED <<jobs, added, clocks, life, started>>

(* The execution ends, well or not: the job is updated under the mutex.       *)
Finish(j) ==
  /\ active[j] > 0
  /\ active' = [active EXCEPT ![j] = @ - 1]
  /\ LET x == Ended(job[j])
     IN  job' = [job EXCEPT ![j] = [x EXCEPT !.nextRun = CalculateNextRun(x)]]
  /\ UNCHANGED <<jobs, added, clocks, life, started>>

(* A tick that finds the channel full is dropped.                             *)
Advance ==
  /\ now < MaxTime /\ now' = now + 1
  /\ tick' = running
  /\ UNCHANGED <<table, active, life, started>>

RunnerStep(r) == Look(r) \/ Receive(r) \/ Check(r) \/ Exit(r)

SchedulerNext ==
  \/ \E n \in Names :
       \/ \E type \in Schedules : AddJob(n, type)
       \/ RemoveJob(n) \/ PauseJob(n) \/ ResumeJob(n)
  \/ Start \/ Stop
  \/ \E r \in Runners : RunnerStep(r)
  \/ \E j \in Jobs : Finish(j)
  \/ Advance

SchedulerSpec == SchedulerInit /\ [][SchedulerNext]_schedulerVars

(* Time passes and the goroutines run; a select with two branches ready takes *)
(* each of them sooner or later.  A tool's execution has no deadline.         *)
FairSchedulerSpec ==
  /\ SchedulerSpec
  /\ WF_schedulerVars(Advance)
  /\ \A r \in Runners : /\ WF_schedulerVars(Look(r) \/ Receive(r) \/ Check(r))
                        /\ SF_schedulerVars(Exit(r))

-----------------------------------------------------------------------------
(* Properties                                                                 *)

Job == [type : ScheduleTypes, enabled : BOOLEAN, lastRun : Nat, nextRun : Nat]

(* The scheduler's fields have their types, the table holds jobs that were    *)
(* added and no job twice, and as many executions are under way as started    *)
(* and not ended.                                                             *)
SchedulerTypeOK ==
  /\ jobs \in [Names -> 0..added] /\ added \in 0..MaxJobs
  /\ \A m, n \in Names : jobs[m] = jobs[n] /\ jobs[m] # 0 => m = n
  /\ job \in [Jobs -> Job]
  /\ active \in [Jobs -> Nat] /\ started \in [Jobs -> Nat]
  /\ \A j \in Jobs : active[j] <= started[j]
  /\ now \in Nat \ {0} /\ tick \in BOOLEAN
  /\ running \in BOOLEAN /\ starts \in 0..MaxStarts
  /\ runner \in [Runners -> [place : {"none", "loop", "select", "check", "gone"},
                             ticker : 0..MaxStarts]]

(* A once job is not started again after an execution of it has ended, also   *)
(* when it is resumed, or another execution of it ends later.                 *)
OnceIsOver ==
  [][\A j \in Jobs : started'[j] > started[j] /\ job[j].type = "once"
       => job[j].lastRun = 0]_schedulerVars

(* An interval job is not started within Interval of the end of its last      *)
(* execution, through overlaps, pauses and resumptions.                       *)
IntervalRespected ==
  [][\A j \in Jobs :
       started'[j] > started[j] /\ job[j].type = "interval" /\ job[j].lastRun # 0
         => now > job[j].lastRun + Interval]_schedulerVars

(* A job has run only if it was started itself: an execution that outlives    *)
(* the removal of its job leaves a new job of the same id alone.              *)
LastRunIsOwn == \A j \in Jobs : job[j].lastRun # 0 => started[j] > 0

DueAfter(n, k) == jobs[n] # 0 /\ Due(jobs[n]) /\ started[jobs[n]] = k

(* While the scheduler runs, a due job is started or ceases to be due, also   *)
(* when earlier executions of it hang.  Stated for its first two starts.      *)
DueJobsStart ==
  \A n \in Names : \A k \in 0..1 :
    running /\ DueAfter(n, k) /\ now < MaxTime ~> ~running \/ ~DueAfter(n, k)

(* The goroutine of a scheduler that was stopped ends, wherever it is, also    *)
(* when it waits on the ticker of the next.                                   *)
StoppedRunnersEnd ==
  \A r \in Runners : runner[r].place # "none" /\ Cancelled(r)
    ~> runner[r].place = "gone"

-----------------------------------------------------------------------------
(* What the repository says and the code does not do.                         *)

(* README.md:165 "cron/interval/once jobs": a once job is started once.       *)
OnceStartsOnce == \A j \in Jobs : job[j].type = "once" => started[j] <= 1

Registered(j, t) ==
  running /\ Listed(j) /\ job[j].enabled /\ job[j].nextRun = t

(* serve.go:217 prints that the health check is registered, every five        *)
(* minutes, for a job it adds with an Interval and no ScheduleType: an        *)
(* enabled job that stays in the table of a running scheduler, and is not     *)
(* resumed for another time, is started.                                      *)
RegisteredJobsStart ==
  \A j \in Jobs : \A t \in 0..(MaxTime - 1) :
    Registered(j, t) /\ now < MaxTime ~> started[j] > 0 \/ ~Registered(j, t)
=============================================================================
