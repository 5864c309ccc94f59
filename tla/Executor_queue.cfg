\* Two threads, three jobs, one of which pushes another one.
SPECIFICATION FairSpec
CHECK_DEADLOCK FALSE
CONSTANTS
  Threads = {t1, t2}
  Worker = worker
  Jobs = {j1, j2, j3}
  First = j1
  Second = j2
  Follower <- FirstPushesSecond
  None = None
INVARIANTS
  NoLostWakeup
  PromiseSetOnce
  FlushWaitsForTakenJobs
  QuietAfterTerminate
PROPERTIES
  ImplementsService
  JobsAreRun
  CallsReturn
