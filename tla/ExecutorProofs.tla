--------------------------- MODULE ExecutorProofs ---------------------------
(***************************************************************************)
(* Proofs about Executor, for any number of threads and jobs, whichever    *)
(* jobs push others.                                                       *)
(***************************************************************************)
EXTENDS Executor, SequenceTheorems, TLAPS

-----------------------------------------------------------------------------
(* Typing                                                                   *)

\* The thread runs a job only if it has one, and pushes what that job pushes.
HasJob ==
  /\ worker \in {"run", "jobPushes", "jobEnds"} => jobsToProcess # <<>>
  /\ worker = "jobPushes" => Follower[Head(jobsToProcess)] # None

Typing == TypeOK /\ HasJob

LEMMA HeadAndTail ==
  ASSUME NEW S, NEW s \in Seq(S), s # <<>>
  PROVE  /\ Head(s) \in S /\ Tail(s) \in Seq(S)
         /\ s = <<Head(s)>> \o Tail(s)
<1>1. Head(s) \in S /\ Tail(s) \in Seq(S)
  BY HeadTailProperties
<1>2. <<Head(s)>> \in Seq(S)
  BY <1>1
<1>3. s = <<Head(s)>> \o Tail(s)
  BY <1>1, <1>2, HeadTailProperties, ConcatProperties, LenProperties, SeqEqual
<1>. QED  BY <1>1, <1>3

LEMMA TypingInit == Init => Typing
<1>1. <<>> \in Seq(Jobs)
  BY EmptySeq
<1>. QED  BY <1>1 DEF Init, Typing, TypeOK, HasJob, WorkerPlaces, CallerPlaces

LEMMA TypingNext == Typing /\ [Next]_vars => Typing'
<1>. SUFFICES ASSUME Typing, [Next]_vars PROVE Typing'
  OBVIOUS
<1>. USE DEF Typing, TypeOK, HasJob, WorkerPlaces, CallerPlaces
<1>job. ASSUME jobsToProcess # <<>>, EndJob
        PROVE  /\ executed' \in Seq(Jobs) /\ jobsToProcess' \in Seq(Jobs)
               /\ worker' \in {"flushed", "run"}
               /\ worker' = "run" => jobsToProcess' # <<>>
  BY <1>job, HeadAndTail DEF EndJob
<1>1. CASE TestTermination
  BY <1>1 DEF TestTermination
<1>2. CASE TakeJobs
  <2>1. <<>> \in Seq(Jobs) /\ jobsToProcess \o jobs \in Seq(Jobs)
    BY EmptySeq, ConcatProperties
  <2>. QED  BY <1>2, <2>1 DEF TakeJobs, QueueTaken
<1>3. CASE ProcessJobs
  BY <1>3 DEF ProcessJobs, MustRun
<1>4. CASE RunJob
  BY <1>4, <1>job DEF RunJob
<1>5. CASE JobPushes
  <2> DEFINE j == Follower[Head(jobsToProcess)]
  <2>1. Head(jobsToProcess) \in Jobs
    BY <1>5, HeadAndTail DEF JobPushes
  <2>2. worker' = "jobEnds" /\ jobsToProcess' = jobsToProcess
    BY <1>5 DEF JobPushes
  <2>3. jobs' \in Seq(Jobs) /\ accepted' \in Seq(Jobs)
    <3>1. j \in Jobs \cup {None}
      BY <2>1, ConstantsAssumption
    <3>2. CASE UNCHANGED <<jobs, accepted>>
      BY <3>2
    <3>3. CASE j # None /\ jobs' = Append(jobs, j) /\ accepted' = Append(accepted, j)
      BY <3>1, <3>3, AppendProperties
    <3>. QED  BY <1>5, <3>2, <3>3 DEF JobPushes
  <2>. QED  BY <1>5, <2>2, <2>3 DEF JobPushes, LockAfterPush
<1>6. CASE JobEnds
  BY <1>6, <1>job DEF JobEnds
<1>7. CASE TestFlushing
  BY <1>7 DEF TestFlushing
<1>8. CASE NotifyFlushed
  BY <1>8 DEF NotifyFlushed
<1>9. CASE Exit
  <2>1. <<>> \in Seq(Jobs) /\ jobsToProcess \o jobs \o discarded \in Seq(Jobs)
    BY EmptySeq, ConcatProperties
  <2>. QED  BY <1>9, <2>1 DEF Exit
<1>10. CASE SpuriousWakeup
  BY <1>10 DEF SpuriousWakeup
<1>11. ASSUME NEW t \in Threads, NEW j \in Jobs, PushJob(t, j) PROVE Typing'
  BY <1>11 DEF PushJob
<1>12. ASSUME NEW t \in Threads, Flush(t) PROVE Typing'
  BY <1>12, RangeOfSeq DEF Flush
<1>13. ASSUME NEW t \in Threads, NEW b \in BOOLEAN, Terminate(t, b) PROVE Typing'
  BY <1>13, RangeOfSeq DEF Terminate
<1>14. ASSUME NEW t \in Threads, CallerStep(t) PROVE Typing'
  <2>1. CASE NotifyPushed(t)
    BY <2>1 DEF NotifyPushed, Notify, LockAfterPush
  <2>2. CASE RequestFlush(t)
    BY <2>2 DEF RequestFlush, NewPromise
  <2>3. CASE NotifyFlush(t)
    BY <2>3 DEF NotifyFlush, Notify
  <2>4. CASE FlushAnswered(t)
    BY <2>4 DEF FlushAnswered
  <2>5. CASE CheckJobs(t)
    BY <2>5 DEF CheckJobs, EndFlush
  <2>6. CASE FlushTimesOut(t)
    BY <2>6 DEF FlushTimesOut, EndFlush
  <2>7. CASE RequestTermination(t)
    BY <2>7 DEF RequestTermination
  <2>8. CASE NotifyTermination(t)
    BY <2>8 DEF NotifyTermination, Notify
  <2>9. CASE Join(t)
    BY <2>9 DEF Join
  <2>. QED  BY <1>14, <2>1, <2>2, <2>3, <2>4, <2>5, <2>6, <2>7, <2>8, <2>9 DEF CallerStep
<1>15. CASE UNCHANGED vars
  BY <1>15 DEF vars
<1>. QED  BY <1>1, <1>2, <1>3, <1>4, <1>5, <1>6, <1>7, <1>8, <1>9, <1>10, <1>11, <1>12,
             <1>13, <1>14, <1>15 DEF Next, WorkerStep

\* Every variable keeps its type.
THEOREM TypeCorrect == Spec => []TypeOK
<1>1. Typing => TypeOK
  BY DEF Typing
<1>. QED  BY TypingInit, TypingNext, <1>1, PTL DEF Spec

-----------------------------------------------------------------------------
(* The order of the jobs                                                    *)

\* The thread ends only when termination was requested.
EndsOnRequest == worker \in {"clear", "exited"} => shouldTerminate

Order == JobsInOrder /\ EndsOnRequest

LEMMA RunFirst ==
  ASSUME NEW S, NEW e \in Seq(S), NEW s \in Seq(S), s # <<>>
  PROVE  Append(e, Head(s)) \o Tail(s) = e \o s
<1>1. Head(s) \in S /\ Tail(s) \in Seq(S) /\ s = <<Head(s)>> \o Tail(s)
  BY HeadAndTail
<1>2. Append(e, Head(s)) = e \o <<Head(s)>>
  BY <1>1, AppendIsConcat
<1>3. <<Head(s)>> \in Seq(S)
  BY <1>1
<1>4. (e \o <<Head(s)>>) \o Tail(s) = e \o (<<Head(s)>> \o Tail(s))
  BY <1>1, <1>3, ConcatAssociative
<1>. QED  BY <1>1, <1>2, <1>4

LEMMA PushLast ==
  ASSUME NEW S, NEW s \in Seq(S), NEW q \in Seq(S), NEW j \in S
  PROVE  s \o Append(q, j) = Append(s \o q, j)
<1>1. Append(q, j) = q \o <<j>> /\ Append(s \o q, j) = (s \o q) \o <<j>>
  BY AppendIsConcat, ConcatProperties
<1>. QED  BY <1>1, ConcatAssociative

\* Moving jobs from the queue (q) to those taken (p), or from either to those
\* discarded (d), keeps the order of all, those run (e) included.
LEMMA MoveTaken ==
  ASSUME NEW S, NEW e \in Seq(S), NEW p \in Seq(S), NEW q \in Seq(S), NEW d \in Seq(S)
  PROVE  e \o (p \o q) \o <<>> \o d = e \o p \o q \o d
<1>1. e \o (p \o q) = e \o p \o q
  BY ConcatAssociative
<1> DEFINE moved == e \o p \o q
<1>2. moved \in Seq(S)
  BY ConcatProperties
<1> HIDE DEF moved
<1>3. moved \o <<>> = moved
  BY <1>2, ConcatEmptySeq
<1>. QED  BY <1>1, <1>3 DEF moved

LEMMA SkipEmpty ==
  ASSUME NEW S, NEW s \in Seq(S), NEW q \in Seq(S), NEW d \in Seq(S)
  PROVE  s \o <<>> \o (q \o d) = s \o q \o d
<1>1. s \o <<>> = s
  BY ConcatEmptySeq
<1>2. s \o (q \o d) = s \o q \o d
  BY ConcatAssociative
<1>. QED  BY <1>1, <1>2

LEMMA MoveQueueDiscarded ==
  ASSUME NEW S, NEW e \in Seq(S), NEW p \in Seq(S), NEW q \in Seq(S), NEW d \in Seq(S)
  PROVE  e \o p \o <<>> \o (q \o d) = e \o p \o q \o d
<1>1. e \o p \in Seq(S)
  BY ConcatProperties
<1>. QED  BY <1>1, SkipEmpty, SMTT(30)

LEMMA SkipTwoEmpty ==
  ASSUME NEW S, NEW s \in Seq(S), NEW q \in Seq(S), NEW d \in Seq(S)
  PROVE  s \o <<>> \o <<>> \o (q \o d) = s \o q \o d
<1>1. s \o <<>> \o <<>> = s \o <<>>
  BY ConcatEmptySeq
<1>2. s \o <<>> \o (q \o d) = s \o q \o d
  BY SkipEmpty
<1>. QED  BY <1>1, <1>2

LEMMA MoveAllDiscarded ==
  ASSUME NEW S, NEW e \in Seq(S), NEW p \in Seq(S), NEW q \in Seq(S), NEW d \in Seq(S)
  PROVE  e \o <<>> \o <<>> \o (p \o q \o d) = e \o p \o q \o d
<1>1. p \o q \in Seq(S)
  BY ConcatProperties
<1>2. e \o <<>> \o <<>> \o (p \o q \o d) = e \o (p \o q) \o d
  BY <1>1, SkipTwoEmpty, SMTT(30)
<1>3. e \o (p \o q) = e \o p \o q
  BY ConcatAssociative
<1>. QED  BY <1>2, <1>3

LEMMA PushAll ==
  ASSUME NEW S, NEW e \in Seq(S), NEW p \in Seq(S), NEW q \in Seq(S), NEW j \in S
  PROVE  e \o p \o Append(q, j) \o <<>> = Append(e \o p \o q \o <<>>, j)
<1>1. e \o p \in Seq(S) /\ e \o p \o q \in Seq(S)
  BY ConcatProperties
<1>2. e \o p \o Append(q, j) = Append(e \o p \o q, j)
  BY <1>1, PushLast
<1>3. Append(e \o p \o q, j) \in Seq(S)
  BY <1>1, AppendProperties
<1>. QED  BY <1>1, <1>2, <1>3, ConcatEmptySeq

\* A job that ends leaves the jobs run and the jobs taken in the same order.
LEMMA EndJobOrder ==
  ASSUME Typing, jobsToProcess # <<>>, EndJob
  PROVE  executed' \o jobsToProcess' = executed \o jobsToProcess
BY RunFirst DEF Typing, TypeOK, EndJob

LEMMA OrderNext == Typing /\ Order /\ [Next]_vars => Order'
<1>. SUFFICES ASSUME Typing, Order, [Next]_vars PROVE Order'
  OBVIOUS
<1>types. /\ executed \in Seq(Jobs) /\ jobsToProcess \in Seq(Jobs)
          /\ jobs \in Seq(Jobs) /\ discarded \in Seq(Jobs)
  BY DEF Typing, TypeOK
<1>takeAll. executed \o (jobsToProcess \o jobs) \o <<>> \o discarded
              = executed \o jobsToProcess \o jobs \o discarded
  BY <1>types, MoveTaken, SMTT(60)
<1>clear. executed \o jobsToProcess \o <<>> \o (jobs \o discarded)
            = executed \o jobsToProcess \o jobs \o discarded
  BY <1>types, MoveQueueDiscarded, SMTT(60)
<1>clearAll. executed \o <<>> \o <<>> \o (jobsToProcess \o jobs \o discarded)
               = executed \o jobsToProcess \o jobs \o discarded
  BY <1>types, MoveAllDiscarded, SMTT(60)
<1>push. ASSUME NEW j \in Jobs
         PROVE  executed \o jobsToProcess \o Append(jobs, j) \o <<>>
                  = Append(executed \o jobsToProcess \o jobs \o <<>>, j)
  BY <1>types, PushAll, SMTT(60)
<1>. USE DEF Order, JobsInOrder, EndsOnRequest
<1>1. CASE TestTermination
  BY <1>1 DEF TestTermination
<1>2. CASE TakeJobs
  <2>1. CASE UNCHANGED <<jobs, jobsToProcess>>
    BY <1>2, <2>1 DEF TakeJobs
  <2>2. CASE jobsToProcess' = jobsToProcess \o jobs /\ jobs' = <<>>
    BY <1>2, <1>takeAll, <2>2 DEF TakeJobs
  <2>. QED  BY <1>2, <2>1, <2>2 DEF TakeJobs, QueueTaken
<1>3. CASE ProcessJobs
  BY <1>3 DEF ProcessJobs
<1>4. CASE RunJob
  <2>1. executed' \o jobsToProcess' = executed \o jobsToProcess
    BY <1>4, EndJobOrder DEF RunJob, Typing, HasJob
  <2>2. worker' \notin {"clear", "exited"}
    BY <1>4 DEF RunJob, EndJob
  <2>. QED  BY <1>4, <2>1, <2>2 DEF RunJob
<1>5. CASE JobPushes
  <2> DEFINE j == Follower[Head(jobsToProcess)]
  <2>1. j \in Jobs
    BY <1>5, HeadAndTail, ConstantsAssumption DEF JobPushes, Typing, TypeOK, HasJob
  <2>2. CASE UNCHANGED <<jobs, accepted>>
    BY <1>5, <2>2 DEF JobPushes
  <2>3. CASE ~shouldTerminate /\ jobs' = Append(jobs, j) /\ accepted' = Append(accepted, j)
    BY <1>5, <1>push, <2>1, <2>3 DEF JobPushes
  <2>. QED  BY <1>5, <2>2, <2>3 DEF JobPushes, AcceptsJobs
<1>6. CASE JobEnds
  <2>1. executed' \o jobsToProcess' = executed \o jobsToProcess
    BY <1>6, EndJobOrder DEF JobEnds, Typing, HasJob
  <2>. QED  BY <1>6, <2>1 DEF JobEnds, EndJob
<1>7. CASE TestFlushing
  BY <1>7 DEF TestFlushing
<1>8. CASE NotifyFlushed
  BY <1>8 DEF NotifyFlushed
<1>9. CASE Exit
  BY <1>9, <1>clearAll DEF Exit
<1>10. CASE SpuriousWakeup
  BY <1>10 DEF SpuriousWakeup
<1>11. ASSUME NEW t \in Threads, NEW j \in Jobs, PushJob(t, j) PROVE Order'
  BY <1>11, <1>push DEF PushJob, AcceptsJobs
<1>12. ASSUME NEW t \in Threads, Flush(t) PROVE Order'
  BY <1>12 DEF Flush
<1>13. ASSUME NEW t \in Threads, NEW b \in BOOLEAN, Terminate(t, b) PROVE Order'
  BY <1>13 DEF Terminate
<1>14. ASSUME NEW t \in Threads, CallerStep(t) PROVE Order'
  <2>1. CASE RequestTermination(t)
    BY <2>1, <1>clear DEF RequestTermination
  <2>2. CASE NotifyPushed(t) \/ NotifyFlush(t) \/ NotifyTermination(t)
    BY <2>2 DEF NotifyPushed, NotifyFlush, NotifyTermination, Notify
  <2>3. CASE RequestFlush(t) \/ FlushAnswered(t) \/ CheckJobs(t) \/ FlushTimesOut(t) \/ Join(t)
    BY <2>3 DEF RequestFlush, FlushAnswered, CheckJobs, FlushTimesOut, Join
  <2>. QED  BY <1>14, <2>1, <2>2, <2>3 DEF CallerStep
<1>15. CASE UNCHANGED vars
  BY <1>15 DEF vars
<1>. QED  BY <1>1, <1>2, <1>3, <1>4, <1>5, <1>6, <1>7, <1>8, <1>9, <1>10, <1>11, <1>12,
             <1>13, <1>14, <1>15 DEF Next, WorkerStep

\* Jobs are run once and in the order they were pushed; only a termination loses
\* some, and then every job pushed after one that is lost is lost too.
THEOREM JobsAlwaysInOrder == Spec => []JobsInOrder
<1>1. Init => Order
  BY ConcatEmptySeq, EmptySeq DEF Init, Order, JobsInOrder, EndsOnRequest
<1>2. Order => JobsInOrder
  BY DEF Order
<1>. QED  BY TypingInit, TypingNext, OrderNext, <1>1, <1>2, PTL DEF Spec

-----------------------------------------------------------------------------
(* Waking the thread up                                                     *)

Wakers == {"pushed", "flushNotify", "terminateNotify"}

\* A call that moves between two other places takes no wake-up away.
LEMMA OthersWake ==
  ASSUME Typing, NoLostWakeup, NEW t \in Threads, NEW place,
         caller[t] \notin Wakers, caller' = [caller EXCEPT ![t] = place],
         UNCHANGED <<worker, jobs, flushingJobs, shouldTerminate>>
  PROVE  NoLostWakeup'
BY DEF Typing, TypeOK, NoLostWakeup, Wakers

LEMMA WakeupNext == Typing /\ NoLostWakeup /\ [Next]_vars => NoLostWakeup'
<1>. SUFFICES ASSUME Typing, NoLostWakeup, [Next]_vars PROVE NoLostWakeup'
  OBVIOUS
<1>caller. caller \in [Threads -> CallerPlaces]
  BY DEF Typing, TypeOK
<1>awake. worker' # "waiting" => NoLostWakeup'
  BY DEF NoLostWakeup
<1>1. CASE TakeJobs
  BY <1>1, <1>awake DEF TakeJobs, HasWork, NoLostWakeup
<1>2. CASE WorkerStep /\ ~TakeJobs
  <2>1. worker' # "waiting"
    BY <1>2 DEF WorkerStep, TestTermination, ProcessJobs, RunJob, EndJob, JobPushes, JobEnds,
                TestFlushing, NotifyFlushed, Exit
  <2>. QED  BY <1>awake, <2>1
<1>3. CASE SpuriousWakeup
  BY <1>3, <1>awake DEF SpuriousWakeup
<1>4. ASSUME NEW t \in Threads, NEW j \in Jobs, PushJob(t, j) PROVE NoLostWakeup'
  BY <1>4, <1>caller DEF PushJob, NoLostWakeup
<1>5. ASSUME NEW t \in Threads,
             \/ Flush(t)
             \/ \E b \in BOOLEAN : Terminate(t, b)
             \/ FlushAnswered(t) \/ CheckJobs(t) \/ FlushTimesOut(t) \/ Join(t)
      PROVE  NoLostWakeup'
  <2>1. caller[t] \notin Wakers
    BY <1>5 DEF Flush, Terminate, FlushAnswered, CheckJobs, FlushTimesOut, Join, Wakers
  <2>2. \E place : caller' = [caller EXCEPT ![t] = place]
    BY <1>5 DEF Flush, Terminate, FlushAnswered, CheckJobs, FlushTimesOut, Join, EndFlush
  <2>3. UNCHANGED <<worker, jobs, flushingJobs, shouldTerminate>>
    BY <1>5 DEF Flush, Terminate, FlushAnswered, CheckJobs, FlushTimesOut, Join
  <2>. QED  BY <2>1, <2>2, <2>3, OthersWake
<1>6. ASSUME NEW t \in Threads, RequestFlush(t) PROVE NoLostWakeup'
  BY <1>6, <1>caller DEF RequestFlush, NoLostWakeup
<1>7. ASSUME NEW t \in Threads, RequestTermination(t) PROVE NoLostWakeup'
  BY <1>7, <1>caller DEF RequestTermination, NoLostWakeup
<1>8. ASSUME NEW t \in Threads, NotifyPushed(t) \/ NotifyFlush(t) \/ NotifyTermination(t)
      PROVE  NoLostWakeup'
  BY <1>8, <1>awake DEF NotifyPushed, NotifyFlush, NotifyTermination, Notify
<1>9. CASE UNCHANGED vars
  BY <1>9 DEF vars, NoLostWakeup
<1>. QED  BY <1>1, <1>2, <1>3, <1>4, <1>5, <1>6, <1>7, <1>8, <1>9 DEF Next, CallerStep

\* No interleaving of the thread with calls loses a wake-up, although no call
\* notifies with the lock held.
THEOREM WakeupsKept == Spec => []NoLostWakeup
<1>1. Init => NoLostWakeup
  BY DEF Init, NoLostWakeup
<1>. QED  BY TypingInit, TypingNext, WakeupNext, <1>1, PTL DEF Spec

-----------------------------------------------------------------------------
(* The promise of a flush                                                   *)

\* A flush is requested as long as its promise is pending, so that the thread, once
\* it has seen the request, still finds the promise to set.
Promised ==
  /\ flushingJobs <=> flushedPromise = "pending"
  /\ worker = "notify" => flushingJobs

LEMMA PromisedNext == Typing /\ Promised /\ [Next]_vars => Promised'
<1>. SUFFICES ASSUME Typing, Promised, [Next]_vars PROVE Promised'
  OBVIOUS
<1>. USE DEF Promised
<1>1. CASE TestFlushing
  BY <1>1 DEF TestFlushing, Typing, TypeOK
<1>2. CASE NotifyFlushed
  BY <1>2 DEF NotifyFlushed
<1>3. CASE WorkerStep /\ ~TestFlushing /\ ~NotifyFlushed
  <2>1. worker' # "notify" /\ UNCHANGED <<flushingJobs, flushedPromise>>
    BY <1>3 DEF WorkerStep, TestTermination, TakeJobs, ProcessJobs, RunJob, EndJob, JobPushes,
                JobEnds, Exit
  <2>. QED  BY <2>1
<1>4. CASE SpuriousWakeup
  BY <1>4 DEF SpuriousWakeup
<1>5. ASSUME NEW t \in Threads, RequestFlush(t) PROVE Promised'
  BY <1>5 DEF RequestFlush, NewPromise
<1>6. ASSUME NEW t \in Threads,
             \/ Flush(t)
             \/ \E j \in Jobs : PushJob(t, j)
             \/ \E b \in BOOLEAN : Terminate(t, b)
             \/ FlushAnswered(t) \/ CheckJobs(t) \/ FlushTimesOut(t)
             \/ RequestTermination(t) \/ Join(t)
      PROVE  Promised'
  <2>1. UNCHANGED <<worker, flushingJobs, flushedPromise>>
    BY <1>6 DEF Flush, PushJob, Terminate, FlushAnswered, CheckJobs, FlushTimesOut,
                RequestTermination, Join
  <2>. QED  BY <2>1
<1>7. ASSUME NEW t \in Threads, NotifyPushed(t) \/ NotifyFlush(t) \/ NotifyTermination(t)
      PROVE  Promised'
  BY <1>7 DEF NotifyPushed, NotifyFlush, NotifyTermination, Notify
<1>8. CASE UNCHANGED vars
  BY <1>8 DEF vars
<1>. QED  BY <1>1, <1>2, <1>3, <1>4, <1>5, <1>6, <1>7, <1>8 DEF Next, CallerStep

\* The thread never sets a promise that was set already, even after flushes that
\* timed out.
THEOREM PromisesSetOnce == Spec => []PromiseSetOnce
<1>1. Init => Promised
  BY DEF Init, Promised
<1>2. Promised => PromiseSetOnce
  BY DEF Promised, PromiseSetOnce
<1>. QED  BY TypingInit, TypingNext, PromisedNext, <1>1, <1>2, PTL DEF Spec

-----------------------------------------------------------------------------
(* The end of the thread                                                    *)

Ended ==
  /\ EndsOnRequest
  /\ ~joinable => worker = "exited"
  /\ worker = "exited" => jobs = <<>> /\ jobsToProcess = <<>>

LEMMA EndedNext == Ended /\ [Next]_vars => Ended'
<1>. SUFFICES ASSUME Ended, [Next]_vars PROVE Ended'
  OBVIOUS
<1>. USE DEF Ended, EndsOnRequest
<1>1. CASE TestTermination \/ Exit
  BY <1>1 DEF TestTermination, Exit
<1>2. CASE WorkerStep /\ ~TestTermination /\ ~Exit
  <2>1. worker # "exited" /\ worker' \notin {"clear", "exited"} /\ UNCHANGED joinable
    BY <1>2 DEF WorkerStep, TakeJobs, ProcessJobs, RunJob, EndJob, JobPushes, JobEnds,
                TestFlushing, NotifyFlushed
  <2>. QED  BY <2>1
<1>3. CASE SpuriousWakeup
  BY <1>3 DEF SpuriousWakeup
<1>4. ASSUME NEW t \in Threads, NEW j \in Jobs, PushJob(t, j) PROVE Ended'
  BY <1>4 DEF PushJob, AcceptsJobs
<1>5. ASSUME NEW t \in Threads, RequestTermination(t) \/ Join(t) PROVE Ended'
  BY <1>5 DEF RequestTermination, Join, ThreadJoined
<1>6. ASSUME NEW t \in Threads,
             \/ Flush(t)
             \/ \E b \in BOOLEAN : Terminate(t, b)
             \/ RequestFlush(t) \/ FlushAnswered(t) \/ CheckJobs(t) \/ FlushTimesOut(t)
      PROVE  Ended'
  <2>1. UNCHANGED <<worker, joinable, jobs, jobsToProcess, shouldTerminate>>
    BY <1>6 DEF Flush, Terminate, RequestFlush, FlushAnswered, CheckJobs, FlushTimesOut
  <2>. QED  BY <2>1
<1>7. ASSUME NEW t \in Threads, NotifyPushed(t) \/ NotifyFlush(t) \/ NotifyTermination(t)
      PROVE  Ended'
  BY <1>7 DEF NotifyPushed, NotifyFlush, NotifyTermination, Notify
<1>8. CASE UNCHANGED vars
  BY <1>8 DEF vars
<1>. QED  BY <1>1, <1>2, <1>3, <1>4, <1>5, <1>6, <1>7, <1>8 DEF Next, CallerStep

\* Once a terminate has returned, no thread, job taken or job in the queue is left.
THEOREM TerminationIsFinal == Spec => []QuietAfterTerminate
<1>1. Init => Ended
  BY DEF Init, Ended, EndsOnRequest
<1>2. Ended => QuietAfterTerminate
  BY DEF Ended, QuietAfterTerminate
<1>. QED  BY EndedNext, <1>1, <1>2, PTL DEF Spec
-----------------------------------------------------------------------------
(* What a flush waits for                                                   *)

Calling == {"pushed", "flush", "flushNotify", "flushWait", "flushCheck", "terminate",
            "terminateNotify", "join"}
Flushing == {"flush", "flushNotify", "flushWait", "flushCheck"}

\* One call at a time: _enqueueLock is held from its first to its last step.
OneCall == \A t \in Threads : caller[t] \in Calling <=> enqueueLock = t

\* The thread ends, or has ended, once termination was requested, and the terminate that
\* requested it joins it before another call begins.
Terminated == shouldTerminate =>
  \/ ~joinable
  \/ \E t \in Threads : caller[t] \in {"terminateNotify", "join"}

\* Between two rounds the thread has run all it had taken.
RoundEnded == worker \in {"test", "lock", "waiting", "flushed", "notify"} /\ ~shouldTerminate =>
                jobsToProcess = <<>>

\* The jobs that were taken when a flush was called are run before the promise that the
\* flush waits for is set.
TakenAreRun ==
  \A t \in Threads : caller[t] \in Flushing =>
    /\ taken[t] \subseteq Range(executed) \cup Range(jobsToProcess)
    /\ \/ caller[t] = "flushCheck"
       \/ caller[t] \in {"flushNotify", "flushWait"} /\ flushedPromise = "ready"
       => taken[t] \subseteq Range(executed)

Waits == OneCall /\ Terminated /\ RoundEnded /\ TakenAreRun

\* A flush that goes on keeps the executor alive.
LEMMA FlushHoldsOff ==
  ASSUME Ended, OneCall, Terminated, NEW t \in Threads, caller[t] \in Flushing, worker # "exited"
  PROVE  ~shouldTerminate
BY DEF Ended, OneCall, Terminated, Calling, Flushing

\* A job that ends leaves the jobs run and taken the same.
LEMMA EndJobRange ==
  ASSUME Typing, jobsToProcess # <<>>, EndJob
  PROVE  /\ Range(executed') \cup Range(jobsToProcess') = Range(executed) \cup Range(jobsToProcess)
         /\ Range(executed) \subseteq Range(executed')
<1>1. /\ executed \in Seq(Jobs) /\ jobsToProcess \in Seq(Jobs)
      /\ executed' \in Seq(Jobs) /\ jobsToProcess' \in Seq(Jobs)
  BY HeadAndTail DEF Typing, TypeOK, EndJob
<1>2. executed' \o jobsToProcess' = executed \o jobsToProcess
  BY EndJobOrder
<1>3. executed' = executed \o <<Head(jobsToProcess)>> /\ <<Head(jobsToProcess)>> \in Seq(Jobs)
  BY <1>1, HeadAndTail, AppendIsConcat DEF EndJob
<1>4. Range(executed' \o jobsToProcess') = Range(executed') \cup Range(jobsToProcess')
  BY <1>1, RangeConcatenation
<1>5. Range(executed \o jobsToProcess) = Range(executed) \cup Range(jobsToProcess)
  BY <1>1, RangeConcatenation
<1>6. Range(executed') = Range(executed) \cup Range(<<Head(jobsToProcess)>>)
  BY <1>1, <1>3, RangeConcatenation
<1>. QED  BY <1>2, <1>4, <1>5, <1>6

\* A step that touches no flush, nor what flushes wait for.
LEMMA TakenKept ==
  ASSUME TakenAreRun, UNCHANGED <<taken, executed, jobsToProcess>>,
         flushedPromise' = "ready" => flushedPromise = "ready",
         \A t \in Threads : \/ caller'[t] = caller[t]
                            \/ caller'[t] \notin Flushing
                            \/ caller[t] = "flushNotify" /\ caller'[t] = "flushWait"
  PROVE  TakenAreRun'
BY DEF TakenAreRun, Flushing

LEMMA WaitsNext == Typing /\ Ended /\ Waits /\ [Next]_vars => Waits'
<1>. SUFFICES ASSUME Typing, Ended, Waits, [Next]_vars PROVE Waits'
  OBVIOUS
<1>types. /\ caller \in [Threads -> CallerPlaces] /\ enqueueLock \in Threads \cup {None}
          /\ None \notin Threads /\ taken \in [Threads -> SUBSET Jobs]
          /\ executed \in Seq(Jobs) /\ jobsToProcess \in Seq(Jobs) /\ jobs \in Seq(Jobs)
  BY ConstantsAssumption DEF Typing, TypeOK
<1>empty. Range(<<>>) = {}
  BY DEF Range
<1>1. CASE TestTermination \/ ProcessJobs \/ TestFlushing
  <2>1. UNCHANGED <<enqueueLock, caller, joinable, shouldTerminate, taken, executed, jobsToProcess,
                    flushedPromise>>
    BY <1>1 DEF TestTermination, ProcessJobs, TestFlushing
  <2>2. RoundEnded'
    BY <1>1, <2>1 DEF TestTermination, ProcessJobs, TestFlushing, MustRun, Waits, RoundEnded
  <2>. QED  BY <2>1, <2>2, TakenKept DEF Waits, OneCall, Terminated
<1>2. CASE TakeJobs
  <2>1. UNCHANGED <<enqueueLock, caller, joinable, shouldTerminate, taken, executed, flushedPromise>>
    BY <1>2 DEF TakeJobs
  <2>2. RoundEnded'
    BY <1>2 DEF TakeJobs, Waits, RoundEnded
  <2>3. Range(jobsToProcess) \subseteq Range(jobsToProcess')
    <3>1. Range(jobsToProcess \o jobs) = Range(jobsToProcess) \cup Range(jobs)
      BY <1>types, RangeConcatenation
    <3>. QED  BY <1>2, <3>1 DEF TakeJobs
  <2>4. TakenAreRun'
    BY <2>1, <2>3 DEF Waits, TakenAreRun
  <2>. QED  BY <2>1, <2>2, <2>4 DEF Waits, OneCall, Terminated
<1>3. ASSUME jobsToProcess # <<>>, EndJob, worker \in {"run", "jobEnds"},
             UNCHANGED <<enqueueLock, caller, joinable, shouldTerminate, taken, flushedPromise>>
      PROVE  Waits'
  <2>1. RoundEnded'
    BY <1>3 DEF EndJob, RoundEnded
  <2>2. TakenAreRun'
    BY <1>3, EndJobRange DEF Waits, TakenAreRun
  <2>. QED  BY <1>3, <2>1, <2>2 DEF Waits, OneCall, Terminated
<1>4. CASE RunJob
  <2>1. CASE EndJob
    BY <1>3, <1>4, <2>1 DEF RunJob, Typing, HasJob
  <2>2. CASE worker' = "jobPushes" /\ UNCHANGED <<jobsToProcess, executed>>
    BY <1>4, <2>2, TakenKept DEF RunJob, Waits, OneCall, Terminated, RoundEnded
  <2>. QED  BY <1>4, <2>1, <2>2 DEF RunJob
<1>5. CASE JobPushes
  <2>1. UNCHANGED <<enqueueLock, caller, joinable, shouldTerminate, taken, executed, jobsToProcess,
                    flushedPromise>> /\ worker' = "jobEnds"
    BY <1>5 DEF JobPushes, LockAfterPush
  <2>. QED  BY <2>1, TakenKept DEF Waits, OneCall, Terminated, RoundEnded
<1>6. CASE JobEnds
  BY <1>3, <1>6 DEF JobEnds, Typing, HasJob
<1>7. CASE NotifyFlushed
  <2>1. UNCHANGED <<enqueueLock, caller, joinable, shouldTerminate, taken, executed, jobsToProcess>>
        /\ worker = "notify" /\ worker' = "test"
    BY <1>7 DEF NotifyFlushed
  <2>2. ASSUME NEW t \in Threads, caller[t] \in Flushing PROVE taken[t] \subseteq Range(executed)
    <3>1. jobsToProcess = <<>>
      BY <2>1, <2>2, FlushHoldsOff DEF Waits, RoundEnded
    <3>. QED  BY <2>2, <3>1, <1>empty DEF Waits, TakenAreRun
  <2>. QED  BY <2>1, <2>2 DEF Waits, OneCall, Terminated, RoundEnded, TakenAreRun
<1>8. CASE Exit
  <2>1. UNCHANGED <<enqueueLock, caller, joinable, shouldTerminate>> /\ worker = "clear"
        /\ shouldTerminate /\ worker' = "exited"
    BY <1>8 DEF Exit, Ended, EndsOnRequest
  <2>2. \A t \in Threads : caller[t] \notin Flushing
    BY <2>1, FlushHoldsOff DEF Waits
  <2>. QED  BY <2>1, <2>2 DEF Waits, OneCall, Terminated, RoundEnded, TakenAreRun
<1>9. CASE SpuriousWakeup
  <2>1. UNCHANGED <<enqueueLock, caller, joinable, shouldTerminate, taken, executed, jobsToProcess,
                    flushedPromise>> /\ worker = "waiting"
    BY <1>9 DEF SpuriousWakeup
  <2>. QED  BY <2>1, TakenKept DEF Waits, OneCall, Terminated, RoundEnded
\* A call that begins holds the lock.
<1>begin. ASSUME NEW t \in Threads, enqueueLock = None, enqueueLock' = t, NEW place \in Calling,
                 caller' = [caller EXCEPT ![t] = place]
          PROVE  OneCall' /\ \A u \in Threads : u # t => caller'[u] \notin Calling
  BY <1>begin, <1>types DEF Waits, OneCall
<1>10. ASSUME NEW t \in Threads, NEW j \in Jobs, PushJob(t, j) PROVE Waits'
  <2>1. OneCall'
    BY <1>10, <1>begin DEF PushJob, Calling
  <2>2. TakenAreRun'
    BY <1>10, <1>types, TakenKept DEF PushJob, Waits, Flushing
  <2>. QED  BY <1>10, <2>1, <2>2 DEF PushJob, AcceptsJobs, Waits, Terminated, RoundEnded
<1>11. ASSUME NEW t \in Threads, Flush(t) \/ (\E b \in BOOLEAN : Terminate(t, b)) PROVE Waits'
  <2>1. PICK place \in {"flush", "terminate"} : caller' = [caller EXCEPT ![t] = place]
    BY <1>11 DEF Flush, Terminate
  <2>2. /\ enqueueLock = None /\ enqueueLock' = t /\ taken' = [taken EXCEPT ![t] = Range(jobsToProcess)]
        /\ UNCHANGED <<shouldTerminate, joinable, worker, executed, jobsToProcess, flushedPromise>>
    BY <1>11 DEF Flush, Terminate
  <2>3. OneCall' /\ \A u \in Threads : u # t => caller'[u] \notin Calling
    BY <2>1, <2>2, <1>begin DEF Calling
  <2>4. TakenAreRun'
    BY <2>1, <2>2, <2>3, <1>types DEF TakenAreRun, Calling, Flushing
  <2>5. Terminated'
    BY <2>1, <2>2, <1>types DEF Waits, OneCall, Terminated, Calling
  <2>. QED  BY <2>2, <2>3, <2>4, <2>5 DEF Waits, RoundEnded
\* A call that goes on keeps the lock; one that ends releases it.
<1>goes. ASSUME NEW t \in Threads, caller[t] \in Calling, NEW place,
                caller' = [caller EXCEPT ![t] = place],
                \/ place \in Calling /\ UNCHANGED enqueueLock
                \/ place = "idle" /\ enqueueLock' = None
         PROVE  OneCall'
  BY <1>goes, <1>types DEF Waits, OneCall, Calling
<1>12. ASSUME NEW t \in Threads, NotifyPushed(t) \/ NotifyFlush(t) \/ NotifyTermination(t)
       PROVE  Waits'
  <2>1. OneCall'
    <3>1. CASE NotifyPushed(t)
      BY <3>1, <1>goes DEF NotifyPushed, LockAfterPush, Calling
    <3>2. CASE NotifyFlush(t)
      BY <3>2, <1>goes DEF NotifyFlush, Calling
    <3>3. CASE NotifyTermination(t)
      BY <3>3, <1>goes DEF NotifyTermination, Calling
    <3>. QED  BY <1>12, <3>1, <3>2, <3>3
  <2>2. /\ UNCHANGED <<shouldTerminate, joinable, taken, executed, jobsToProcess, flushedPromise>>
        /\ worker' = IF worker = "waiting" THEN "lock" ELSE worker
    BY <1>12 DEF NotifyPushed, NotifyFlush, NotifyTermination, Notify
  <2>3. TakenAreRun'
    BY <1>12, <1>types, <2>2, TakenKept
    DEF NotifyPushed, NotifyFlush, NotifyTermination, Waits, Flushing
  <2>4. Terminated'
    BY <1>12, <1>types, <2>2
    DEF NotifyPushed, NotifyFlush, NotifyTermination, Waits, Terminated
  <2>. QED  BY <2>1, <2>2, <2>3, <2>4 DEF Waits, RoundEnded
<1>13. ASSUME NEW t \in Threads, RequestFlush(t) PROVE Waits'
  <2>1. OneCall'
    BY <1>13, <1>goes DEF RequestFlush, Calling
  <2>2. TakenAreRun'
    BY <1>13, <1>types DEF RequestFlush, NewPromise, Waits, OneCall, TakenAreRun, Calling, Flushing
  <2>. QED  BY <1>13, <1>types, <2>1, <2>2 DEF RequestFlush, Waits, Terminated, RoundEnded
<1>14. ASSUME NEW t \in Threads, FlushAnswered(t) PROVE Waits'
  <2>1. OneCall'
    BY <1>14, <1>goes DEF FlushAnswered, Calling
  <2>2. TakenAreRun'
    BY <1>14, <1>types DEF FlushAnswered, Waits, TakenAreRun, Flushing
  <2>. QED  BY <1>14, <1>types, <2>1, <2>2 DEF FlushAnswered, Waits, Terminated, RoundEnded
<1>15. ASSUME NEW t \in Threads, CheckJobs(t) \/ FlushTimesOut(t) PROVE Waits'
  <2>1. PICK place \in {"flush", "terminate", "idle"} :
          /\ caller' = [caller EXCEPT ![t] = place]
          /\ \/ place \in Calling /\ UNCHANGED enqueueLock
             \/ place = "idle" /\ enqueueLock' = None
    BY <1>15 DEF CheckJobs, FlushTimesOut, EndFlush, Calling
  <2>2. /\ caller[t] \in {"flushWait", "flushCheck"}
        /\ UNCHANGED <<shouldTerminate, joinable, worker, taken, executed, jobsToProcess, flushedPromise>>
    BY <1>15 DEF CheckJobs, FlushTimesOut
  <2>3. OneCall'
    BY <2>1, <2>2, <1>goes DEF Calling
  <2>4. TakenAreRun'
    BY <2>1, <2>2, <1>types DEF Waits, TakenAreRun, Flushing
  <2>5. Terminated'
    BY <2>1, <2>2, <1>types DEF Waits, Terminated
  <2>. QED  BY <2>2, <2>3, <2>4, <2>5 DEF Waits, RoundEnded
<1>16. ASSUME NEW t \in Threads, RequestTermination(t) PROVE Waits'
  <2>1. OneCall'
    BY <1>16, <1>goes DEF RequestTermination, Calling
  <2>2. TakenAreRun'
    BY <1>16, <1>types, TakenKept DEF RequestTermination, Waits, Flushing
  <2>. QED  BY <1>16, <1>types, <2>1, <2>2 DEF RequestTermination, Waits, Terminated, RoundEnded
<1>17. ASSUME NEW t \in Threads, Join(t) PROVE Waits'
  <2>1. OneCall'
    BY <1>17, <1>goes DEF Join, Calling
  <2>2. TakenAreRun'
    BY <1>17, <1>types, TakenKept DEF Join, Waits, Flushing
  <2>. QED  BY <1>17, <2>1, <2>2 DEF Join, Waits, Terminated, RoundEnded
<1>18. CASE UNCHANGED vars
  BY <1>18, TakenKept DEF vars, Waits, OneCall, Terminated, RoundEnded
<1>. QED  BY <1>1, <1>2, <1>4, <1>5, <1>6, <1>7, <1>8, <1>9, <1>10, <1>11, <1>12, <1>13,
             <1>14, <1>15, <1>16, <1>17, <1>18 DEF Next, WorkerStep, CallerStep

\* A flush that does not time out returns only after the jobs the thread had taken when it
\* was called, however many flushes timed out before and left their promise to be set.
THEOREM FlushesWait == Spec => []FlushWaitsForTakenJobs
<1>1. Init => Ended /\ Waits
  BY ConstantsAssumption DEF Init, Ended, EndsOnRequest, Waits, OneCall, Terminated, RoundEnded, TakenAreRun,
         Calling, Flushing
<1>2. Waits => FlushWaitsForTakenJobs
  BY DEF Waits, TakenAreRun, Flushing, FlushWaitsForTakenJobs
<1>. QED  BY TypingInit, TypingNext, EndedNext, WaitsNext, <1>1, <1>2, PTL DEF Spec

-----------------------------------------------------------------------------
(* The executor implements the service                                      *)

LEMMA ConcatHeadTail ==
  ASSUME NEW S, NEW p \in Seq(S), NEW q \in Seq(S), p # <<>>
  PROVE  p \o q # <<>> /\ Head(p \o q) = Head(p) /\ Tail(p \o q) = Tail(p) \o q
<1>1. Head(p) \in S /\ Tail(p) \in Seq(S) /\ p = <<Head(p)>> \o Tail(p)
  BY HeadAndTail
<1>2. <<Head(p)>> \in Seq(S) /\ Tail(p) \o q \in Seq(S)
  BY <1>1, ConcatProperties
<1>3. p \o q = <<Head(p)>> \o (Tail(p) \o q)
  BY <1>1, <1>2, ConcatAssociative
<1> DEFINE r == Tail(p) \o q
<1>4. /\ <<Head(p)>> \o r \in Seq(S) /\ Len(<<Head(p)>> \o r) = 1 + Len(r)
      /\ (<<Head(p)>> \o r)[1] = Head(p)
      /\ \A i \in 1 .. Len(r) : (<<Head(p)>> \o r)[i + 1] = r[i]
  <2>1. Len(<<Head(p)>>) = 1 /\ <<Head(p)>>[1] = Head(p) /\ Len(r) \in Nat
    BY <1>2, LenProperties
  <2>2. /\ <<Head(p)>> \o r \in Seq(S) /\ Len(<<Head(p)>> \o r) = 1 + Len(r)
        /\ \A i \in 1 .. 1 + Len(r) : (<<Head(p)>> \o r)[i] =
             IF i <= 1 THEN <<Head(p)>>[i] ELSE r[i - 1]
    BY <1>2, <2>1, ConcatProperties
  <2>3. ASSUME NEW i \in 1 .. Len(r) PROVE (<<Head(p)>> \o r)[i + 1] = r[i]
    <3>1. i + 1 \in 1 .. 1 + Len(r) /\ ~(i + 1 <= 1) /\ (i + 1) - 1 = i
      BY <2>1
    <3>. QED  BY <2>2, <3>1
  <2>. QED  BY <2>1, <2>2, <2>3
<1>5. <<Head(p)>> \o r # <<>>
  BY <1>2, <1>4, LenProperties, EmptySeq
<1>6. /\ Tail(<<Head(p)>> \o r) \in Seq(S)
      /\ Len(Tail(<<Head(p)>> \o r)) = Len(r)
      /\ \A i \in 1 .. Len(r) : Tail(<<Head(p)>> \o r)[i] = r[i]
  BY <1>2, <1>4, <1>5, HeadTailProperties, LenProperties
<1>7. Tail(<<Head(p)>> \o r) = r
  BY <1>2, <1>6, SeqEqual
<1>8. Head(<<Head(p)>> \o r) = Head(p)
  BY <1>4, <1>5
<1>. QED  BY <1>3, <1>5, <1>7, <1>8

\* The service that the executor implements, step by step.
Pending == jobsToProcess \o jobs
Served == [Service!Next]_<<~shouldTerminate, Pending, executed>>

LEMMA EndJobRuns ==
  ASSUME Typing, jobsToProcess # <<>>, EndJob, UNCHANGED <<jobs, shouldTerminate>>
  PROVE  Service!Run
<1>1. Pending # <<>> /\ Head(Pending) = Head(jobsToProcess) /\ Tail(Pending) = Tail(jobsToProcess) \o jobs
  BY ConcatHeadTail DEF Typing, TypeOK, Pending
<1>. QED  BY <1>1 DEF EndJob, Service!Run, Pending

LEMMA PushServed ==
  ASSUME Typing, NEW j \in Jobs, ~shouldTerminate, jobs' = Append(jobs, j),
         UNCHANGED <<jobsToProcess, executed, shouldTerminate>>
  PROVE  Service!Push(j)
BY PushLast DEF Service!Push, Typing, TypeOK, Pending

LEMMA ServiceNext == Typing /\ EndsOnRequest /\ [Next]_vars => Served
<1>. SUFFICES ASSUME Typing, EndsOnRequest, [Next]_vars PROVE Served
  OBVIOUS
<1>types. /\ jobs \in Seq(Jobs) /\ jobsToProcess \in Seq(Jobs) /\ Pending \in Seq(Jobs)
          /\ <<>> \in Seq(Jobs) /\ Pending \o <<>> = Pending
          /\ Len(Pending) \in Nat /\ Len(jobsToProcess) \in Nat
  BY ConcatProperties, ConcatEmptySeq, EmptySeq, LenProperties DEF Typing, TypeOK, Pending
<1>same. ASSUME UNCHANGED <<shouldTerminate, jobs, jobsToProcess, executed>> PROVE Served
  BY <1>same DEF Served, Pending
<1>1. CASE TakeJobs
  BY <1>1, <1>types DEF TakeJobs, QueueTaken, Served, Pending
<1>2. CASE RunJob
  BY <1>2, <1>same, EndJobRuns DEF RunJob, Typing, HasJob, Served, Service!Next
<1>3. CASE JobEnds
  BY <1>3, EndJobRuns DEF JobEnds, Typing, HasJob, Served, Service!Next
<1>4. CASE JobPushes
  <2> DEFINE j == Follower[Head(jobsToProcess)]
  <2>1. j \in Jobs
    BY <1>4, HeadAndTail, ConstantsAssumption DEF JobPushes, Typing, TypeOK, HasJob
  <2>2. UNCHANGED <<jobsToProcess, executed, shouldTerminate>>
    BY <1>4 DEF JobPushes
  <2>3. CASE UNCHANGED jobs
    BY <1>same, <2>2, <2>3
  <2>4. CASE ~shouldTerminate /\ jobs' = Append(jobs, j)
    BY <2>1, <2>2, <2>4, PushServed DEF Served, Service!Next
  <2>. QED  BY <1>4, <2>3, <2>4 DEF JobPushes, AcceptsJobs
<1>5. CASE Exit
  <2>1. /\ jobs' = <<>> /\ jobsToProcess' = <<>> /\ shouldTerminate /\ shouldTerminate'
        /\ executed' = executed
    BY <1>5 DEF Exit, EndsOnRequest
  <2>2. Pending' = SubSeq(Pending, 1, 0)
    BY <2>1, SubSeqEmpty, ConcatEmptySeq, <1>types DEF Pending
  <2>3. 0 \in 0 .. Len(Pending)
    BY <1>types
  <2>4. Service!GiveUp(0)
    BY <2>1, <2>2 DEF Service!GiveUp, Pending
  <2>. QED  BY <2>3, <2>4 DEF Served, Service!Next, Pending
<1>6. ASSUME NEW t \in Threads, NEW j \in Jobs, PushJob(t, j) PROVE Served
  BY <1>6, PushServed DEF PushJob, AcceptsJobs, Served, Service!Next
<1>7. ASSUME NEW t \in Threads, RequestTermination(t) PROVE Served
  <2>1. jobs' = <<>> /\ shouldTerminate' /\ UNCHANGED <<jobsToProcess, executed>>
    BY <1>7 DEF RequestTermination
  <2>2. Len(jobsToProcess) \in 0 .. Len(Pending)
    BY <1>types, ConcatProperties, LenProperties DEF Pending
  <2>3. SubSeq(Pending, 1, Len(jobsToProcess)) = jobsToProcess
    <3>1. CASE jobsToProcess = <<>>
      BY <3>1, SubSeqEmpty, EmptySeq
    <3>2. CASE jobsToProcess # <<>>
      <4>1. 1 \in 1 .. Len(jobsToProcess) /\ Len(jobsToProcess) \in 1 .. Len(jobsToProcess)
        BY <1>types, <3>2, EmptySeq
      <4>2. SubSeq(Pending, 1, Len(jobsToProcess)) = SubSeq(jobsToProcess, 1, Len(jobsToProcess))
        BY <1>types, <4>1, SubSeqOfConcat1 DEF Pending
      <4>. QED  BY <1>types, <4>2, SubSeqFull
    <3>. QED  BY <3>1, <3>2
  <2>4. Pending' = jobsToProcess
    BY <2>1, <1>types, ConcatEmptySeq DEF Pending
  <2>5. Service!GiveUp(Len(jobsToProcess))
    BY <2>1, <2>3, <2>4 DEF Service!GiveUp, Pending
  <2>. QED  BY <2>2, <2>5 DEF Served, Service!Next, Pending
<1>8. CASE TestTermination \/ ProcessJobs \/ TestFlushing \/ NotifyFlushed \/ SpuriousWakeup
  BY <1>8, <1>same DEF TestTermination, ProcessJobs, TestFlushing, NotifyFlushed, SpuriousWakeup
<1>9. ASSUME NEW t \in Threads,
             \/ Flush(t) \/ (\E b \in BOOLEAN : Terminate(t, b))
             \/ NotifyPushed(t) \/ RequestFlush(t) \/ NotifyFlush(t) \/ FlushAnswered(t)
             \/ CheckJobs(t) \/ FlushTimesOut(t) \/ NotifyTermination(t) \/ Join(t)
      PROVE  Served
  BY <1>9, <1>same
  DEF Flush, Terminate, NotifyPushed, RequestFlush, NotifyFlush, FlushAnswered, CheckJobs,
      FlushTimesOut, NotifyTermination, Join
<1>10. CASE UNCHANGED vars
  BY <1>10, <1>same DEF vars
<1>. QED  BY <1>1, <1>2, <1>3, <1>4, <1>5, <1>6, <1>7, <1>8, <1>9, <1>10
          DEF Next, WorkerStep, CallerStep

\* The executor is the service it promises: its two queues, the thread that moves jobs from
\* one to the other while they are pushed, and the two places where a termination clears
\* them are one queue, run in order and given up from its end.
THEOREM ExecutorIsAService == Spec => ImplementsService
<1>1. Init => Service!Init
  BY ConcatEmptySeq, EmptySeq DEF Init, Service!Init
<1>2. Init => EndsOnRequest
  BY DEF Init, EndsOnRequest
<1>3. Init => Order
  BY <1>2, ConcatEmptySeq, EmptySeq DEF Init, Order, JobsInOrder
<1>4. Order => EndsOnRequest
  BY DEF Order
<1>5. Served => [Service!Next]_<<~shouldTerminate, jobsToProcess \o jobs, executed>>
  BY DEF Served, Pending
<1>6. Typing /\ Order /\ [Next]_vars => [Service!Next]_<<~shouldTerminate, jobsToProcess \o jobs, executed>>
  BY <1>4, <1>5, ServiceNext
<1>. QED  BY TypingInit, TypingNext, OrderNext, <1>1, <1>3, <1>6, PTL
          DEF Spec, ImplementsService, Service!Spec, Service!vars

=============================================================================
