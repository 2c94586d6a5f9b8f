SPECIFICATION FairSchedulerSpec
CONSTANTS
  Names = {a}
  Schedules = {"interval", "once", "cron"}
  Interval = 1
  At = 2
  CronTimes = {3}
  MaxJobs = 2
  MaxStarts = 2
  MaxTime = 4
INVARIANTS
  LastRunIsOwn
PROPERTIES
  
  
  DueJobsStart
  StoppedRunnersEnd
CHECK_DEADLOCK FALSE
