-------------------------- MODULE SchedulerProofs --------------------------
(***************************************************************************)
(* Proofs about the scheduler for every value of its constants: its types, *)
(* and that no job is started when it should not be, however executions of *)
(* it overlap and whatever is called meanwhile.                            *)
(***************************************************************************)
EXTENDS Scheduler, TLAPS

(* A struct that was not added yet has not been started.                      *)
FreshStructs == \A j \in Jobs : j > added => started[j] = 0

(* Of a once job: what it waits for, when it was started, and that an ended   *)
(* execution leaves it nothing to wait for.                                   *)
OnceWaitsForAt ==
  \A j \in Jobs : job[j].type = "once" /\ job[j].nextRun # 0 => job[j].nextRun = At
OnceStartedLate ==
  \A j \in Jobs : job[j].type = "once" /\ started[j] > 0 => now > At
OnceEnded ==
  \A j \in Jobs : job[j].type = "once" /\ job[j].lastRun # 0 => job[j].nextRun = 0

(* An interval job that has run waits for one Interval after its last end.    *)
IntervalKept ==
  \A j \in Jobs : job[j].type = "interval" /\ job[j].lastRun # 0
                    => job[j].nextRun = job[j].lastRun + Interval

JobsKept ==
  /\ FreshStructs /\ LastRunIsOwn
  /\ OnceWaitsForAt /\ OnceStartedLate /\ OnceEnded /\ IntervalKept

SchedulerInv == SchedulerTypeOK /\ JobsKept

-----------------------------------------------------------------------------
(* What calculateNextRun returns.                                             *)

LEMMA NextRunIsTime ==
  ASSUME SchedulerTypeOK, NEW x \in Job
  PROVE  CalculateNextRun(x) \in Nat
  <1>1. NextMatch \in Nat
    BY SchedulerConstants DEF NextMatch
  <1>2. OnceNext \in Nat
    BY SchedulerConstants DEF OnceNext
  <1>3. now \in Nat /\ x.lastRun \in Nat /\ x.type \in ScheduleTypes
    BY DEF SchedulerTypeOK, Job
  <1>4. QED
    BY <1>1, <1>2, <1>3, SchedulerConstants DEF CalculateNextRun, ScheduleTypes

LEMMA NextRunByType ==
  ASSUME SchedulerTypeOK, NEW x \in Job
  PROVE  /\ x.type = "once" => CalculateNextRun(x) \in {0, At}
         /\ x.type = "once" /\ now > At => CalculateNextRun(x) = 0
         /\ x.type = "interval" /\ x.lastRun # 0
              => CalculateNextRun(x) = x.lastRun + Interval
  <1>1. x.type = "once" => CalculateNextRun(x) = OnceNext
    BY DEF CalculateNextRun
  <1>2. OnceNext \in {0, At} /\ (now > At => OnceNext = 0)
    BY SchedulerConstants DEF OnceNext, SchedulerTypeOK
  <1>3. QED
    BY <1>1, <1>2 DEF CalculateNextRun

(* Every write to a job but a pause recalculates its NextRun: from its own    *)
(* fields, with a LastRun only if it was started, and of a struct that is new *)
(* or keeps its type.                                                         *)
LEMMA RecalculationKeepsJobs ==
  ASSUME SchedulerInv, NEW k \in Jobs, NEW y \in Job,
         y.type = job[k].type \/ started[k] = 0,
         y.lastRun # 0 => started[k] > 0,
         y.nextRun = CalculateNextRun(y),
         job' = [job EXCEPT ![k] = y],
         started' = started, now' = now, added' \in Nat, added' >= added
  PROVE  JobsKept'
  <1> USE DEF SchedulerInv, JobsKept
  <1>1. /\ job'[k] = y /\ \A j \in Jobs : j # k => job'[j] = job[j]
        /\ added \in Nat /\ \A j \in Jobs : j \in Nat
        /\ started \in [Jobs -> Nat] /\ now \in Nat
    BY SchedulerConstants DEF SchedulerTypeOK, Jobs
  <1>2. FreshStructs' /\ LastRunIsOwn'
    BY <1>1 DEF FreshStructs, LastRunIsOwn
  <1>3. OnceStartedLate'
    BY <1>1 DEF OnceStartedLate
  <1>4. OnceWaitsForAt'
    BY <1>1, NextRunByType DEF OnceWaitsForAt
  <1>5. OnceEnded'
    <2>1. y.type = "once" /\ y.lastRun # 0 => now > At
      BY <1>1 DEF OnceStartedLate
    <2>2. QED
      BY <1>1, <2>1, NextRunByType DEF OnceEnded
  <1>6. IntervalKept'
    BY <1>1, NextRunByType DEF IntervalKept
  <1>7. QED
    BY <1>2, <1>3, <1>4, <1>5, <1>6

-----------------------------------------------------------------------------
(* The invariant holds initially and every step keeps it.                     *)

LEMMA SchedulerInitInv == SchedulerInit => SchedulerInv
  <1> SUFFICES ASSUME SchedulerInit PROVE SchedulerInv
    OBVIOUS
  <1>1. SchedulerTypeOK
    <2>1. NoJob \in Job
      BY DEF NoJob, Job, ScheduleTypes
    <2>2. jobs \in [Names -> 0..added] /\ added \in 0..MaxJobs
      BY SchedulerConstants DEF SchedulerInit
    <2>3. \A m, n \in Names : jobs[m] = jobs[n] /\ jobs[m] # 0 => m = n
      BY DEF SchedulerInit
    <2>4. runner \in [Runners ->
            [place : {"none", "loop", "select", "check", "gone"},
             ticker : 0..MaxStarts]]
      BY SchedulerConstants DEF SchedulerInit
    <2>5. /\ job \in [Jobs -> Job]
          /\ active \in [Jobs -> Nat] /\ started \in [Jobs -> Nat]
          /\ \A j \in Jobs : active[j] <= started[j]
      BY <2>1 DEF SchedulerInit
    <2>6. now \in Nat \ {0} /\ starts \in 0..MaxStarts
      BY SchedulerConstants DEF SchedulerInit
    <2>7. tick \in BOOLEAN /\ running \in BOOLEAN
      BY Zenon DEF SchedulerInit
    <2>8. QED
      BY <2>2, <2>3, <2>4, <2>5, <2>6, <2>7 DEF SchedulerTypeOK
  <1>2. JobsKept
    BY DEF SchedulerInit, NoJob, JobsKept, FreshStructs, LastRunIsOwn,
           OnceWaitsForAt, OnceStartedLate, OnceEnded, IntervalKept
  <1>3. QED
    BY <1>1, <1>2 DEF SchedulerInv

LEMMA AddJobKeepsInv ==
  ASSUME SchedulerInv, NEW n \in Names, NEW type \in Schedules, AddJob(n, type)
  PROVE  SchedulerInv'
  <1> DEFINE k == added + 1
             x == [NoJob EXCEPT !.type = type, !.enabled = TRUE]
             y == [x EXCEPT !.nextRun = CalculateNextRun(x)]
  <1>1. k \in Jobs /\ added' = k /\ jobs' = [jobs EXCEPT ![n] = k]
        /\ job' = [job EXCEPT ![k] = y]
        /\ UNCHANGED <<active, clocks, life, started>>
    BY SchedulerConstants DEF AddJob, SchedulerInv, SchedulerTypeOK, Jobs
  <1>2. x \in Job /\ x.lastRun = 0
    BY SchedulerConstants DEF NoJob, Job
  <1>3. y \in Job /\ y.lastRun = 0 /\ y.nextRun = CalculateNextRun(x)
    <2>1. CalculateNextRun(x) \in Nat
      BY <1>2, NextRunIsTime DEF SchedulerInv
    <2>2. QED
      BY <1>2, <2>1 DEF Job
  <1>4. CalculateNextRun(y) = CalculateNextRun(x)
    BY DEF CalculateNextRun, NoJob
  <1> HIDE DEF x, y
  <1>5. SchedulerTypeOK'
    BY <1>1, <1>3, SchedulerConstants
    DEF SchedulerInv, SchedulerTypeOK, Jobs, clocks, life
  <1>6. JobsKept'
    <2>1. started[k] = 0 /\ added' \in Nat /\ added' >= added
      BY <1>1 DEF SchedulerInv, SchedulerTypeOK, JobsKept, FreshStructs, Jobs
    <2>2. y.nextRun = CalculateNextRun(y) /\ started' = started /\ now' = now
      BY <1>1, <1>3, <1>4 DEF clocks
    <2>3. QED
      BY <1>1, <1>3, <2>1, <2>2, RecalculationKeepsJobs
  <1>7. QED
    BY <1>5, <1>6 DEF SchedulerInv

LEMMA ResumeJobKeepsInv ==
  ASSUME SchedulerInv, NEW n \in Names, ResumeJob(n)
  PROVE  SchedulerInv'
  <1> DEFINE k == jobs[n]
             x == job[k]
             y == [x EXCEPT !.enabled = TRUE, !.nextRun = CalculateNextRun(x)]
  <1>1. k \in Jobs /\ x \in Job
    BY SchedulerConstants DEF ResumeJob, SchedulerInv, SchedulerTypeOK, Jobs
  <1>2. job' = [job EXCEPT ![k] = y]
        /\ UNCHANGED <<jobs, added, active, clocks, life, started>>
    BY <1>1 DEF ResumeJob, SchedulerInv, SchedulerTypeOK
  <1>3. y \in Job /\ y.type = x.type /\ y.lastRun = x.lastRun
        /\ y.nextRun = CalculateNextRun(x)
    <2>1. CalculateNextRun(x) \in Nat
      BY <1>1, NextRunIsTime DEF SchedulerInv
    <2>2. QED
      BY <1>1, <2>1 DEF Job
  <1>4. CalculateNextRun(y) = CalculateNextRun(x)
    BY <1>3 DEF CalculateNextRun
  <1> HIDE DEF k, x, y
  <1>5. SchedulerTypeOK'
    BY <1>1, <1>2, <1>3, SchedulerConstants
    DEF SchedulerInv, SchedulerTypeOK, clocks, life
  <1>6. JobsKept'
    <2>1. y.lastRun # 0 => started[k] > 0
      BY <1>1, <1>3 DEF SchedulerInv, JobsKept, LastRunIsOwn, x
    <2>2. y.type = job[k].type /\ y.nextRun = CalculateNextRun(y)
      BY <1>3, <1>4 DEF x
    <2>3. started' = started /\ now' = now /\ added' \in Nat /\ added' >= added
      BY <1>2 DEF clocks, SchedulerInv, SchedulerTypeOK
    <2>4. QED
      BY <1>1, <1>2, <1>3, <2>1, <2>2, <2>3, RecalculationKeepsJobs
  <1>7. QED
    BY <1>5, <1>6 DEF SchedulerInv

LEMMA FinishKeepsInv ==
  ASSUME SchedulerInv, NEW k \in Jobs, Finish(k)
  PROVE  SchedulerInv'
  <1> DEFINE x == Ended(job[k])
             y == [x EXCEPT !.nextRun = CalculateNextRun(x)]
  <1>1. job[k] \in Job /\ now \in Nat /\ started[k] > 0
    BY DEF Finish, SchedulerInv, SchedulerTypeOK
  <1>2. job' = [job EXCEPT ![k] = y] /\ active' = [active EXCEPT ![k] = @ - 1]
        /\ UNCHANGED <<jobs, added, clocks, life, started>>
    BY DEF Finish
  <1>3. x \in Job /\ x.type = job[k].type
    BY <1>1 DEF Ended, Job
  <1>4. y \in Job /\ y.type = x.type /\ y.lastRun = x.lastRun
        /\ y.nextRun = CalculateNextRun(x)
    <2>1. CalculateNextRun(x) \in Nat
      BY <1>3, NextRunIsTime DEF SchedulerInv
    <2>2. QED
      BY <1>3, <2>1 DEF Job
  <1>5. CalculateNextRun(y) = CalculateNextRun(x)
    BY <1>4 DEF CalculateNextRun
  <1> HIDE DEF x, y
  <1>6. SchedulerTypeOK'
    <2>1. active' \in [Jobs -> Nat] /\ \A j \in Jobs : active'[j] <= started[j]
      BY <1>2 DEF Finish, SchedulerInv, SchedulerTypeOK
    <2>2. QED
      BY <1>2, <1>4, <2>1 DEF SchedulerInv, SchedulerTypeOK, clocks, life
  <1>7. JobsKept'
    <2>1. y.type = job[k].type /\ y.nextRun = CalculateNextRun(y)
      BY <1>3, <1>4, <1>5
    <2>2. started' = started /\ now' = now /\ added' \in Nat /\ added' >= added
      BY <1>2 DEF clocks, SchedulerInv, SchedulerTypeOK
    <2>3. QED
      BY <1>1, <1>2, <1>4, <2>1, <2>2, RecalculationKeepsJobs
  <1>8. QED
    BY <1>6, <1>7 DEF SchedulerInv

(* A step that leaves the jobs and their starts alone, as most do.            *)
LEMMA QuietStepKeepsJobs ==
  ASSUME SchedulerInv, UNCHANGED <<job, added, started>>, now' \in Nat, now' >= now
  PROVE  JobsKept'
  BY SchedulerConstants
  DEF SchedulerInv, SchedulerTypeOK, JobsKept, FreshStructs, LastRunIsOwn,
      OnceWaitsForAt, OnceStartedLate, OnceEnded, IntervalKept

LEMMA PauseJobKeepsInv ==
  ASSUME SchedulerInv, NEW n \in Names, PauseJob(n)
  PROVE  SchedulerInv'
  <1> DEFINE k == jobs[n]
             y == [job[k] EXCEPT !.enabled = FALSE]
  <1>1. k \in Jobs /\ job[k] \in Job
    BY SchedulerConstants DEF PauseJob, SchedulerInv, SchedulerTypeOK, Jobs
  <1>2. job' = [job EXCEPT ![k] = y]
        /\ UNCHANGED <<jobs, added, active, clocks, life, started>>
    BY <1>1 DEF PauseJob, SchedulerInv, SchedulerTypeOK
  <1>3. y \in Job /\ y.type = job[k].type /\ y.lastRun = job[k].lastRun
        /\ y.nextRun = job[k].nextRun
    BY <1>1 DEF Job
  <1> HIDE DEF k, y
  <1>4. SchedulerTypeOK'
    BY <1>1, <1>2, <1>3 DEF SchedulerInv, SchedulerTypeOK, clocks, life
  <1>5. \A j \in Jobs : /\ job'[j].type = job[j].type
                        /\ job'[j].lastRun = job[j].lastRun
                        /\ job'[j].nextRun = job[j].nextRun
    BY <1>1, <1>2, <1>3 DEF SchedulerInv, SchedulerTypeOK
  <1>6. JobsKept'
    BY <1>2, <1>5
    DEF SchedulerInv, JobsKept, FreshStructs, LastRunIsOwn,
        OnceWaitsForAt, OnceStartedLate, OnceEnded, IntervalKept, clocks
  <1>7. QED
    BY <1>4, <1>6 DEF SchedulerInv

(* A check starts only jobs that are in the table and whose time has passed.  *)
LEMMA CheckKeepsInv ==
  ASSUME SchedulerInv, NEW r \in Runners, Check(r)
  PROVE  SchedulerInv'
  <1>1. /\ UNCHANGED <<jobs, job, added, now, tick, running, starts>>
        /\ \A j \in Jobs : /\ Due(j) => started'[j] = started[j] + 1
                                         /\ active'[j] = active[j] + 1
                           /\ ~Due(j) => started'[j] = started[j]
                                          /\ active'[j] = active[j]
    BY DEF Check, table, clocks
  <1>2. SchedulerTypeOK'
    <2>1. active' \in [Jobs -> Nat] /\ started' \in [Jobs -> Nat]
      BY DEF Check, SchedulerInv, SchedulerTypeOK
    <2>2. \A j \in Jobs : active'[j] <= started'[j]
      BY <1>1 DEF SchedulerInv, SchedulerTypeOK
    <2>3. runner' \in [Runners ->
            [place : {"none", "loop", "select", "check", "gone"},
             ticker : 0..MaxStarts]]
      BY DEF Check, SchedulerInv, SchedulerTypeOK
    <2>4. QED
      BY <1>1, <2>1, <2>2, <2>3 DEF SchedulerInv, SchedulerTypeOK
  <1>3. \A j \in Jobs : Due(j) => j <= added
    BY SchedulerConstants DEF Due, Listed, SchedulerInv, SchedulerTypeOK, Jobs
  <1>4. FreshStructs'
    <2>1. \A j \in Jobs : j > added => ~Due(j)
      BY <1>3, SchedulerConstants DEF SchedulerInv, SchedulerTypeOK, Jobs
    <2>2. QED
      BY <1>1, <2>1 DEF SchedulerInv, JobsKept, FreshStructs
  <1>5. LastRunIsOwn'
    BY <1>1 DEF SchedulerInv, SchedulerTypeOK, JobsKept, LastRunIsOwn
  <1>6. OnceStartedLate'
    BY <1>1 DEF SchedulerInv, JobsKept, OnceStartedLate, OnceWaitsForAt, Due
  <1>7. OnceWaitsForAt' /\ OnceEnded' /\ IntervalKept'
    BY <1>1 DEF SchedulerInv, JobsKept, OnceWaitsForAt, OnceEnded, IntervalKept
  <1>8. QED
    BY <1>2, <1>4, <1>5, <1>6, <1>7 DEF SchedulerInv, JobsKept

LEMMA SchedulerStepInv ==
  SchedulerInv /\ [SchedulerNext]_schedulerVars => SchedulerInv'
  <1> SUFFICES ASSUME SchedulerInv, [SchedulerNext]_schedulerVars
               PROVE  SchedulerInv'
    OBVIOUS
  <1>now. now \in Nat /\ now <= now /\ now + 1 >= now /\ now + 1 \in Nat
    BY DEF SchedulerInv, SchedulerTypeOK
  <1>1. ASSUME NEW n \in Names, NEW type \in Schedules, AddJob(n, type)
        PROVE  SchedulerInv'
    BY <1>1, AddJobKeepsInv
  <1>2. ASSUME NEW n \in Names, RemoveJob(n) PROVE SchedulerInv'
    <2>1. SchedulerTypeOK'
      BY <1>2 DEF RemoveJob, SchedulerInv, SchedulerTypeOK, clocks, life
    <2>2. JobsKept'
      BY <1>2, <1>now, QuietStepKeepsJobs DEF RemoveJob, clocks
    <2>3. QED
      BY <2>1, <2>2 DEF SchedulerInv
  <1>3. ASSUME NEW n \in Names, PauseJob(n) PROVE SchedulerInv'
    BY <1>3, PauseJobKeepsInv
  <1>4. ASSUME NEW n \in Names, ResumeJob(n) PROVE SchedulerInv'
    BY <1>4, ResumeJobKeepsInv
  <1>5. CASE Start
    <2>1. SchedulerTypeOK'
      <3>1. /\ starts' = starts + 1 /\ starts' \in Runners
            /\ starts' \in 0..MaxStarts
        BY <1>5, SchedulerConstants
        DEF Start, SchedulerInv, SchedulerTypeOK, Runners
      <3>2. runner' \in [Runners ->
              [place : {"none", "loop", "select", "check", "gone"},
               ticker : 0..MaxStarts]]
        BY <1>5, <3>1 DEF Start, SchedulerInv, SchedulerTypeOK
      <3>3. tick' \in BOOLEAN /\ running' \in BOOLEAN
        BY <1>5, Zenon DEF Start
      <3>4. UNCHANGED <<jobs, job, added, active, now, started>>
        BY <1>5 DEF Start, table
      <3>5. QED
        BY <3>1, <3>2, <3>3, <3>4 DEF SchedulerInv, SchedulerTypeOK
    <2>2. JobsKept'
      BY <1>5, <1>now, QuietStepKeepsJobs DEF Start, table
    <2>3. QED
      BY <2>1, <2>2 DEF SchedulerInv
  <1>6. CASE Stop
    <2>1. SchedulerTypeOK'
      BY <1>6 DEF Stop, SchedulerInv, SchedulerTypeOK, table
    <2>2. JobsKept'
      BY <1>6, <1>now, QuietStepKeepsJobs DEF Stop, table
    <2>3. QED
      BY <2>1, <2>2 DEF SchedulerInv
  <1>7. ASSUME NEW r \in Runners, RunnerStep(r) PROVE SchedulerInv'
    <2>1. CASE Check(r)
      BY <2>1, CheckKeepsInv
    <2>2. CASE Look(r) \/ Receive(r) \/ Exit(r)
      <3>1. UNCHANGED <<jobs, job, added, active, now, running, starts, started>>
            /\ tick' \in BOOLEAN
        BY <2>2 DEF Look, Receive, Exit, table, clocks, SchedulerInv, SchedulerTypeOK
      <3>2. runner' \in [Runners ->
              [place : {"none", "loop", "select", "check", "gone"},
               ticker : 0..MaxStarts]]
        <4>1. CASE Look(r)
          <5>1. PICK k \in runner[r].ticker..starts :
                  runner' = [runner EXCEPT ![r] = [place |-> "select", ticker |-> k]]
            BY <4>1 DEF Look
          <5>2. k \in 0..MaxStarts
            BY SchedulerConstants DEF SchedulerInv, SchedulerTypeOK
          <5>3. QED
            BY <5>1, <5>2 DEF SchedulerInv, SchedulerTypeOK
        <4>2. CASE Receive(r)
          BY <4>2 DEF Receive, SchedulerInv, SchedulerTypeOK
        <4>3. CASE Exit(r)
          BY <4>3, SchedulerConstants DEF Exit, SchedulerInv, SchedulerTypeOK
        <4>4. QED
          BY <2>2, <4>1, <4>2, <4>3
      <3>3. SchedulerTypeOK'
        BY <3>1, <3>2 DEF SchedulerInv, SchedulerTypeOK
      <3>4. JobsKept'
        BY <3>1, <1>now, QuietStepKeepsJobs
      <3>5. QED
        BY <3>3, <3>4 DEF SchedulerInv
    <2>3. QED
      BY <1>7, <2>1, <2>2 DEF RunnerStep
  <1>8. ASSUME NEW j \in Jobs, Finish(j) PROVE SchedulerInv'
    BY <1>8, FinishKeepsInv
  <1>9. CASE Advance
    <2>1. SchedulerTypeOK'
      BY <1>9 DEF Advance, SchedulerInv, SchedulerTypeOK, table, life
    <2>2. JobsKept'
      BY <1>9, <1>now, QuietStepKeepsJobs DEF Advance, table
    <2>3. QED
      BY <2>1, <2>2 DEF SchedulerInv
  <1>10. CASE UNCHANGED schedulerVars
    <2>1. UNCHANGED <<jobs, job, added, active, now, tick,
                      running, starts, runner, started>>
      BY <1>10 DEF schedulerVars, table, clocks, life
    <2>2. SchedulerTypeOK'
      BY <2>1 DEF SchedulerInv, SchedulerTypeOK
    <2>3. JobsKept'
      BY <2>1, <1>now, QuietStepKeepsJobs
    <2>4. QED
      BY <2>2, <2>3 DEF SchedulerInv
  <1>11. QED
    BY <1>1, <1>2, <1>3, <1>4, <1>5, <1>6, <1>7, <1>8, <1>9, <1>10
    DEF SchedulerNext

-----------------------------------------------------------------------------
(* Types, and that every started execution is accounted for: for any number   *)
(* of names, jobs and restarts.                                               *)
THEOREM SchedulerTypeCorrect == SchedulerSpec => []SchedulerTypeOK
  <1>1. SchedulerInv => SchedulerTypeOK
    BY DEF SchedulerInv
  <1>2. QED
    BY <1>1, SchedulerInitInv, SchedulerStepInv, PTL DEF SchedulerSpec

(* An execution that ends writes only to the job it was started for, also     *)
(* when another job has taken its id: scheduler.go:180-187 keeps the pointer. *)
THEOREM LastRunIsOwnHolds == SchedulerSpec => []LastRunIsOwn
  <1>1. SchedulerInv => LastRunIsOwn
    BY DEF SchedulerInv, JobsKept
  <1>2. QED
    BY <1>1, SchedulerInitInv, SchedulerStepInv, PTL DEF SchedulerSpec

(* Only a check starts a job, and only one that is due.                       *)
LEMMA StartsAreDue ==
  ASSUME SchedulerInv, [SchedulerNext]_schedulerVars,
         NEW j \in Jobs, started'[j] > started[j]
  PROVE  Due(j)
  <1>1. started' # started
    BY DEF SchedulerInv, SchedulerTypeOK
  <1>2. PICK r \in Runners : Check(r)
    BY <1>1
    DEF SchedulerNext, schedulerVars, AddJob, RemoveJob, PauseJob, ResumeJob,
        Start, Stop, RunnerStep, Look, Receive, Exit, Finish, Advance
  <1>3. ~Due(j) => started'[j] = started[j]
    BY <1>2 DEF Check
  <1>4. QED
    BY <1>3 DEF SchedulerInv, SchedulerTypeOK

(* A once job is not started after an execution of it has ended, for any At   *)
(* and any number of executions that overlap.                                 *)
THEOREM OnceIsOverHolds == SchedulerSpec => OnceIsOver
  <1>1. SchedulerInv /\ [SchedulerNext]_schedulerVars
          => [\A j \in Jobs : started'[j] > started[j] /\ job[j].type = "once"
                => job[j].lastRun = 0]_schedulerVars
    BY StartsAreDue DEF SchedulerInv, JobsKept, OnceEnded, Due
  <1>2. QED
    BY <1>1, SchedulerInitInv, SchedulerStepInv, PTL DEF SchedulerSpec, OnceIsOver

(* An interval job is not started within Interval of the end of its last      *)
(* execution, for any Interval.                                               *)
THEOREM IntervalIsRespected == SchedulerSpec => IntervalRespected
  <1>1. SchedulerInv /\ [SchedulerNext]_schedulerVars
          => [\A j \in Jobs :
                started'[j] > started[j] /\ job[j].type = "interval"
                  /\ job[j].lastRun # 0
                  => now > job[j].lastRun + Interval]_schedulerVars
    BY StartsAreDue DEF SchedulerInv, JobsKept, IntervalKept, Due
  <1>2. QED
    BY <1>1, SchedulerInitInv, SchedulerStepInv, PTL
    DEF SchedulerSpec, IntervalRespected
=============================================================================
