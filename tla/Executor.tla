------------------------------ MODULE Executor ------------------------------
(***************************************************************************)
(* ExecutorWithDispatchQueueImpl (src/executor.cpp): a thread that runs    *)
(* the jobs other threads push, and the calls that flush and terminate it. *)
(*                                                                         *)
(* A critical section of _executorLock is one action, and so is every read *)
(* the code makes without it: the thread reads _shouldTerminate and        *)
(* _flushingJobs, and flush reads _jobs, with no lock held.  _enqueueLock  *)
(* is held from the first to the last step of a call.                      *)
(***************************************************************************)
EXTENDS Naturals, Sequences, Functions

CONSTANTS
  Threads,   \* the threads that use the executor
  Worker,    \* the thread of the executor
  Jobs,      \* the jobs, each pushed once
  Follower,  \* the job that a job pushes when it is run, or None
  None

ASSUME ConstantsAssumption ==
  /\ Worker \notin Threads
  /\ None \notin Jobs \cup Threads \cup {Worker}
  /\ Follower \in [Jobs -> Jobs \cup {None}]

VARIABLES
  shouldTerminate,  \* _shouldTerminate
  flushingJobs,     \* _flushingJobs
  flushedPromise,   \* _flushedPromise: "none", "pending" or "ready"
  jobs,             \* _jobs
  jobsToProcess,    \* the jobs the thread has taken
  enqueueLock,      \* the owner of _enqueueLock
  joinable,         \* the thread was not joined
  worker,           \* where the thread is
  caller,           \* where the call of each other thread is
  terminating,      \* the threads that flush on behalf of terminate
  \* What the properties need to know, and the code does not keep:
  accepted,         \* the jobs pushed, in order
  executed,         \* the jobs run, in order
  discarded,        \* the jobs given up, in order
  taken             \* the jobs the thread had taken when a flush was called

vars == <<shouldTerminate, flushingJobs, flushedPromise, jobs, jobsToProcess,
          enqueueLock, joinable, worker, caller, terminating, accepted,
          executed, discarded, taken>>

WorkerPlaces == {"test", "lock", "waiting", "process", "run", "jobPushes",
                 "jobEnds", "flushed", "notify", "clear", "exited"}
CallerPlaces == {"idle", "pushed", "flush", "flushNotify", "flushWait", "flushCheck",
                 "terminate", "terminateNotify", "join"}

TypeOK ==
  /\ shouldTerminate \in BOOLEAN
  /\ flushingJobs \in BOOLEAN
  /\ flushedPromise \in {"none", "pending", "ready"}
  /\ jobs \in Seq(Jobs)
  /\ jobsToProcess \in Seq(Jobs)
  /\ enqueueLock \in Threads \cup {None}
  /\ joinable \in BOOLEAN
  /\ worker \in WorkerPlaces
  /\ caller \in [Threads -> CallerPlaces]
  /\ terminating \in SUBSET Threads
  /\ accepted \in Seq(Jobs)
  /\ executed \in Seq(Jobs)
  /\ discarded \in Seq(Jobs)
  /\ taken \in [Threads -> SUBSET Jobs]

Init ==
  /\ shouldTerminate = FALSE
  /\ flushingJobs = FALSE
  /\ flushedPromise = "none"
  /\ jobs = <<>>
  /\ jobsToProcess = <<>>
  /\ enqueueLock = None
  /\ joinable = TRUE
  /\ worker = "test"
  /\ caller = [t \in Threads |-> "idle"]
  /\ terminating = {}
  /\ accepted = <<>>
  /\ executed = <<>>
  /\ discarded = <<>>
  /\ taken = [t \in Threads |-> {}]

-----------------------------------------------------------------------------
(* The thread of the executor                                               *)

TestTermination ==
  /\ worker = "test"
  /\ worker' = IF shouldTerminate THEN "clear" ELSE "lock"
  /\ UNCHANGED <<shouldTerminate, flushingJobs, flushedPromise, jobs, jobsToProcess,
                 enqueueLock, joinable, caller, terminating, accepted,
                 executed, discarded, taken>>

\* What the thread sleeps for.
HasWork_NoFlush == shouldTerminate \/ jobs # <<>>
HasWork == shouldTerminate \/ jobs # <<>> \/ flushingJobs

QueueTaken == <<>>

\* With _executorLock: go to sleep, or take all the jobs.
TakeJobs ==
  /\ worker = "lock"
  /\ \/ /\ ~HasWork
        /\ worker' = "waiting"
        /\ UNCHANGED <<jobs, jobsToProcess>>
     \/ /\ HasWork
        /\ worker' = "process"
        /\ IF shouldTerminate
           THEN UNCHANGED <<jobs, jobsToProcess>>
           ELSE jobsToProcess' = jobsToProcess \o jobs /\ jobs' = QueueTaken
  /\ UNCHANGED <<shouldTerminate, flushingJobs, flushedPromise, enqueueLock,
                 joinable, caller, terminating, accepted, executed, discarded,
                 taken>>

\* The jobs taken are run unless termination was requested meanwhile.
MustRun_UnlessFlushing == ~shouldTerminate /\ ~flushingJobs /\ jobsToProcess # <<>>
MustRun == ~shouldTerminate /\ jobsToProcess # <<>>

ProcessJobs ==
  /\ worker = "process"
  /\ worker' = IF MustRun THEN "run" ELSE "flushed"
  /\ UNCHANGED <<shouldTerminate, flushingJobs, flushedPromise, jobs, jobsToProcess,
                 enqueueLock, joinable, caller, terminating, accepted,
                 executed, discarded, taken>>

EndJob ==
  /\ executed' = Append(executed, Head(jobsToProcess))
  /\ jobsToProcess' = Tail(jobsToProcess)
  /\ worker' = IF Tail(jobsToProcess) = <<>> THEN "flushed" ELSE "run"

RunJob ==
  /\ worker = "run"
  /\ IF Follower[Head(jobsToProcess)] = None
     THEN EndJob
     ELSE worker' = "jobPushes" /\ UNCHANGED <<jobsToProcess, executed>>
  /\ UNCHANGED <<shouldTerminate, flushingJobs, flushedPromise, jobs, enqueueLock,
                 joinable, caller, terminating, accepted, discarded, taken>>

\* pushJob returns at once when the executor is terminated.
AcceptsJobs_Always == TRUE
AcceptsJobs == ~shouldTerminate

\* The lock is released on every path out of pushJob.
LockAfterPush == None

\* The job in progress calls pushJob.
JobPushes ==
  /\ worker = "jobPushes"
  /\ enqueueLock = None
  /\ worker' = "jobEnds"
  /\ LET j == Follower[Head(jobsToProcess)] IN
     IF ~AcceptsJobs \/ j \in Range(accepted)
     THEN UNCHANGED <<jobs, accepted>>
     ELSE jobs' = Append(jobs, j) /\ accepted' = Append(accepted, j)
  /\ enqueueLock' = LockAfterPush
  /\ UNCHANGED <<shouldTerminate, flushingJobs, flushedPromise, jobsToProcess,
                 joinable, caller, terminating, executed, discarded, taken>>

JobEnds ==
  /\ worker = "jobEnds"
  /\ EndJob
  /\ UNCHANGED <<shouldTerminate, flushingJobs, flushedPromise, jobs, enqueueLock,
                 joinable, caller, terminating, accepted, discarded, taken>>

TestFlushing ==
  /\ worker = "flushed"
  /\ worker' = IF flushingJobs THEN "notify" ELSE "test"
  /\ UNCHANGED <<shouldTerminate, flushingJobs, flushedPromise, jobs, jobsToProcess,
                 enqueueLock, joinable, caller, terminating, accepted,
                 executed, discarded, taken>>

NotifyFlushed ==
  /\ worker = "notify"
  /\ flushingJobs' = FALSE
  /\ flushedPromise' = "ready"
  /\ worker' = "test"
  /\ UNCHANGED <<shouldTerminate, jobs, jobsToProcess, enqueueLock, joinable,
                 caller, terminating, accepted, executed, discarded, taken>>

Exit ==
  /\ worker = "clear"
  /\ discarded' = jobsToProcess \o jobs \o discarded
  /\ jobs' = <<>>
  /\ jobsToProcess' = <<>>
  /\ worker' = "exited"
  /\ UNCHANGED <<shouldTerminate, flushingJobs, flushedPromise, enqueueLock,
                 joinable, caller, terminating, accepted, executed, taken>>

WorkerStep ==
  \/ TestTermination
  \/ TakeJobs
  \/ ProcessJobs
  \/ RunJob
  \/ JobPushes
  \/ JobEnds
  \/ TestFlushing
  \/ NotifyFlushed
  \/ Exit

SpuriousWakeup ==
  /\ worker = "waiting"
  /\ worker' = "lock"
  /\ UNCHANGED <<shouldTerminate, flushingJobs, flushedPromise, jobs, jobsToProcess,
                 enqueueLock, joinable, caller, terminating, accepted,
                 executed, discarded, taken>>

\* _executorCondVar.notify_one()
Notify_Nobody == UNCHANGED worker
Notify == worker' = IF worker = "waiting" THEN "lock" ELSE worker

-----------------------------------------------------------------------------
(* pushJob                                                                  *)

PushJob(t, j) ==
  /\ caller[t] = "idle"
  /\ enqueueLock = None
  /\ AcceptsJobs
  /\ j \notin Range(accepted)
  /\ jobs' = Append(jobs, j)
  /\ accepted' = Append(accepted, j)
  /\ enqueueLock' = t
  /\ caller' = [caller EXCEPT ![t] = "pushed"]
  /\ UNCHANGED <<shouldTerminate, flushingJobs, flushedPromise, jobsToProcess,
                 joinable, worker, terminating, executed, discarded, taken>>

NotifyPushed(t) ==
  /\ caller[t] = "pushed"
  /\ Notify
  /\ enqueueLock' = LockAfterPush
  /\ caller' = [caller EXCEPT ![t] = "idle"]
  /\ UNCHANGED <<shouldTerminate, flushingJobs, flushedPromise, jobs, jobsToProcess,
                 joinable, terminating, accepted, executed, discarded, taken>>

-----------------------------------------------------------------------------
(* flush                                                                    *)

Flush(t) ==
  /\ caller[t] = "idle"
  /\ enqueueLock = None
  /\ enqueueLock' = t
  /\ caller' = [caller EXCEPT ![t] = "flush"]
  /\ taken' = [taken EXCEPT ![t] = Range(jobsToProcess)]
  /\ UNCHANGED <<shouldTerminate, flushingJobs, flushedPromise, jobs, jobsToProcess,
                 joinable, worker, terminating, accepted, executed, discarded>>

NewPromise_Reused == IF flushedPromise = "none" THEN "pending" ELSE flushedPromise
NewPromise == "pending"

RequestFlush(t) ==
  /\ caller[t] = "flush"
  /\ flushingJobs' = TRUE
  /\ flushedPromise' = NewPromise
  /\ caller' = [caller EXCEPT ![t] = "flushNotify"]
  /\ UNCHANGED <<shouldTerminate, jobs, jobsToProcess, enqueueLock, joinable,
                 worker, terminating, accepted, executed, discarded, taken>>

NotifyFlush(t) ==
  /\ caller[t] = "flushNotify"
  /\ Notify
  /\ caller' = [caller EXCEPT ![t] = "flushWait"]
  /\ UNCHANGED <<shouldTerminate, flushingJobs, flushedPromise, jobs, jobsToProcess,
                 enqueueLock, joinable, terminating, accepted, executed,
                 discarded, taken>>

FlushAnswered(t) ==
  /\ caller[t] = "flushWait"
  /\ flushedPromise = "ready"
  /\ caller' = [caller EXCEPT ![t] = "flushCheck"]
  /\ UNCHANGED <<shouldTerminate, flushingJobs, flushedPromise, jobs, jobsToProcess,
                 enqueueLock, joinable, worker, terminating, accepted,
                 executed, discarded, taken>>

\* flush returns, to terminate or to its caller.
EndFlush(t) ==
  IF t \in terminating
  THEN caller' = [caller EXCEPT ![t] = "terminate"] /\ UNCHANGED enqueueLock
  ELSE caller' = [caller EXCEPT ![t] = "idle"] /\ enqueueLock' = None

\* _jobs is read without _executorLock.
CheckJobs(t) ==
  /\ caller[t] = "flushCheck"
  /\ IF jobs # <<>>
     THEN caller' = [caller EXCEPT ![t] = "flush"] /\ UNCHANGED enqueueLock
     ELSE EndFlush(t)
  /\ UNCHANGED <<shouldTerminate, flushingJobs, flushedPromise, jobs, jobsToProcess,
                 joinable, worker, terminating, accepted, executed, discarded,
                 taken>>

\* The flush waits 30 seconds.  A job that runs takes less: the wait ends this
\* way only if the thread can do nothing before flush returns.
FlushTimesOut(t) ==
  /\ caller[t] = "flushWait"
  /\ flushedPromise = "pending"
  /\ worker \in {"jobPushes", "exited"}
  /\ EndFlush(t)
  /\ UNCHANGED <<shouldTerminate, flushingJobs, flushedPromise, jobs, jobsToProcess,
                 joinable, worker, terminating, accepted, executed, discarded,
                 taken>>

-----------------------------------------------------------------------------
(* terminate, which the destructor calls with flushJobs                     *)

Terminate(t, flushJobs) ==
  /\ caller[t] = "idle"
  /\ enqueueLock = None
  /\ enqueueLock' = t
  /\ terminating' = terminating \cup {t}
  /\ caller' = [caller EXCEPT ![t] = IF flushJobs THEN "flush" ELSE "terminate"]
  /\ taken' = [taken EXCEPT ![t] = Range(jobsToProcess)]
  /\ UNCHANGED <<shouldTerminate, flushingJobs, flushedPromise, jobs, jobsToProcess,
                 joinable, worker, accepted, executed, discarded>>

RequestTermination(t) ==
  /\ caller[t] = "terminate"
  /\ discarded' = jobs \o discarded
  /\ jobs' = <<>>
  /\ shouldTerminate' = TRUE
  /\ caller' = [caller EXCEPT ![t] = "terminateNotify"]
  /\ UNCHANGED <<flushingJobs, flushedPromise, jobsToProcess, enqueueLock, joinable,
                 worker, terminating, accepted, executed, taken>>

NotifyTermination(t) ==
  /\ caller[t] = "terminateNotify"
  /\ Notify
  /\ caller' = [caller EXCEPT ![t] = "join"]
  /\ UNCHANGED <<shouldTerminate, flushingJobs, flushedPromise, jobs, jobsToProcess,
                 enqueueLock, joinable, terminating, accepted, executed,
                 discarded, taken>>

ThreadJoined_Detached == TRUE
ThreadJoined == joinable => worker = "exited"

Join(t) ==
  /\ caller[t] = "join"
  /\ ThreadJoined
  /\ joinable' = FALSE
  /\ enqueueLock' = None
  /\ terminating' = terminating \ {t}
  /\ caller' = [caller EXCEPT ![t] = "idle"]
  /\ UNCHANGED <<shouldTerminate, flushingJobs, flushedPromise, jobs, jobsToProcess,
                 worker, accepted, executed, discarded, taken>>

CallerStep(t) ==
  \/ NotifyPushed(t)
  \/ RequestFlush(t)
  \/ NotifyFlush(t)
  \/ FlushAnswered(t)
  \/ CheckJobs(t)
  \/ FlushTimesOut(t)
  \/ RequestTermination(t)
  \/ NotifyTermination(t)
  \/ Join(t)

Next ==
  \/ WorkerStep
  \/ SpuriousWakeup
  \/ \E t \in Threads :
       \/ \E j \in Jobs : PushJob(t, j)
       \/ Flush(t)
       \/ \E flushJobs \in BOOLEAN : Terminate(t, flushJobs)
       \/ CallerStep(t)

Spec == Init /\ [][Next]_vars

\* Every thread that can take a step takes it; nobody has to call anything.  A
\* job that pushes gets the mutex although others keep taking it.
Fairness ==
  /\ WF_vars(WorkerStep)
  /\ SF_vars(JobPushes)
  /\ \A t \in Threads : WF_vars(CallerStep(t))

FairSpec == Spec /\ Fairness

-----------------------------------------------------------------------------
(* Safety                                                                   *)

\* Jobs are run once, in the order they were pushed, whatever pushes, flushes
\* and jobs that push others do to the two queues.  A job is lost only by a
\* termination, and then all those pushed after it are lost too.
JobsInOrder ==
  /\ executed \o jobsToProcess \o jobs \o discarded = accepted
  /\ discarded # <<>> => shouldTerminate

\* The thread never sleeps on something to do, unless the call that gave it
\* something to do has yet to wake it up.
NoLostWakeup ==
  worker = "waiting" /\ (jobs # <<>> \/ flushingJobs \/ shouldTerminate) =>
    \E t \in Threads : caller[t] \in {"pushed", "flushNotify", "terminateNotify"}

\* Setting a promise a second time throws, in a thread that catches nothing: a
\* flush that times out and one that follows it must not share a promise.
PromiseSetOnce == worker = "notify" => flushedPromise = "pending"

\* A flush that does not time out returns after the jobs the thread had taken
\* when it was called, whatever the promise it waits for was set by.
FlushWaitsForTakenJobs ==
  \A t \in Threads : caller[t] = "flushCheck" => taken[t] \subseteq Range(executed)

\* When terminate has returned, the thread is gone and its queue is empty, also
\* when another terminate found the thread joined already.
QuietAfterTerminate ==
  ~joinable => worker = "exited" /\ jobs = <<>> /\ jobsToProcess = <<>>

\* The executor is a queue of jobs run in order, seen through its two queues.
Service == INSTANCE ExecutorService WITH
             open <- ~shouldTerminate, pending <- jobsToProcess \o jobs
ImplementsService == Service!Spec

-----------------------------------------------------------------------------
(* Liveness                                                                 *)

\* Every job pushed is run, unless the executor is terminated.
JobsAreRun ==
  \A j \in Jobs : j \in Range(accepted) ~> (j \in Range(executed) \/ shouldTerminate)

\* Every call returns: no flush waits for a thread that sleeps, no terminate for
\* one that missed the flag.  There is one way for calls not to return: the job
\* in progress pushes while the executor is terminated, and each waits for the
\* other.
Embrace == worker = "jobPushes" /\ \E t \in Threads : caller[t] = "join"
CallsReturn == (\A t \in Threads : caller[t] # "idle" ~> caller[t] = "idle") \/ <>[]Embrace

=============================================================================
