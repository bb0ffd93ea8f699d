---------------------------- MODULE PrinterProofs ----------------------------
(***************************************************************************)
(* Theorems about Printer, for every number of handlers, every supply and  *)
(* every bound on the jobs.  A step of the program is at most one method   *)
(* of PrinterState (Method) plus the thread that runs it; the invariants   *)
(* over the printer's state are proved method by method, the one that      *)
(* concerns the threads (NoLostWakeup) action by action.                   *)
(***************************************************************************)
EXTENDS Printer, SequenceTheorems, TLAPS

Enqueue == \E source \in Sources, pages \in PageCounts : EnqueueJob(source, pages)

Refill ==
  \/ ChangePaper(0, status)
  \/ ChangePaper(MaxPaper, Refilled)
  \/ ChangeToner(0, status)
  \/ ChangeToner(FullToner, Refilled)
  \/ Ready
  \/ PublicStatus

Method == Offline \/ Refill \/ Enqueue \/ PrintHead \/ RefuseHead

\* Every step runs one PrinterState method or leaves the printer's state alone.
LEMMA StepIsMethod == [Next]_vars => Method \/ UNCHANGED state
<1> SUFFICES ASSUME Next PROVE Method \/ UNCHANGED state
  BY DEF vars
<1>1. CASE Worker
  BY <1>1 DEF Worker, WorkerWakes, WorkerClears, WorkerTests, WorkerPrints,
              WorkerRefused, Method
<1>2. ASSUME NEW h \in Handlers, Request(h) PROVE Method \/ UNCHANGED state
  BY <1>2 DEF Request, SetOffline, SetReady, EmptyPaper, RefillPaper, EmptyToner,
              ReplaceToner, CompleteJob, CompleteFails, GetStatus, RejectJob, AddJob,
              Method, Refill, Enqueue
<1>3. ASSUME NEW h \in Handlers, Continue(h) PROVE Method \/ UNCHANGED state
  BY <1>3 DEF Continue, CheckQueue, SetChanged, Reply, Method, Refill
<1> QED BY <1>1, <1>2, <1>3 DEF Next
-----------------------------------------------------------------------------
(* Helpers *)

\* A job needs one to three units of toner.
LEMMA TonerUsage == \A pages \in 1..15 : GetTonerUsage(pages) \in 1..3
BY DEF GetTonerUsage

LEMMA LevelType == \A amount, full : GetLevel(amount, full) \in Levels
BY DEF GetLevel, Levels

\* The head of a non-empty queue is a job with its pages in range.
LEMMA HeadIsJob ==
  ASSUME StateTypeOK, queue # <<>>
  PROVE  /\ Len(queue) \in Nat \ {0} /\ 1 \in DOMAIN queue
         /\ queue[1] \in Job
         /\ queue[1].pages \in 1..15
         /\ GetTonerUsage(queue[1].pages) \in 1..3
<1>1. Len(queue) \in Nat \ {0} /\ 1 \in DOMAIN queue
  BY EmptySeq, LenProperties DEF StateTypeOK
<1>2. queue[1] \in Job
  BY <1>1, ElementOfSeq DEF StateTypeOK
<1>3. queue[1].pages \in 1..15
  BY <1>2, PageAssumption DEF Job
<1> QED BY <1>1, <1>2, <1>3, TonerUsage

\* _update_state only produces its own statuses, messages and levels.
LEMMA UpdateType ==
  ASSUME NEW base \in Statuses, UpdateState(base)
  PROVE  /\ status' \in Statuses /\ message' \in Messages
         /\ paperLevel' \in Levels /\ tonerLevel' \in Levels
<1>1. Diagnosis(paper', toner', queue') \in Messages
  BY DEF Diagnosis, Messages, Complaints
<1> QED BY <1>1, LevelType DEF UpdateState, Statuses, Messages, Complaints
-----------------------------------------------------------------------------
(* Types *)

LEMMA MethodType == StateTypeOK /\ Method => StateTypeOK'
<1> SUFFICES ASSUME StateTypeOK, Method PROVE StateTypeOK'
  OBVIOUS
<1> USE SupplyAssumption
<1>1. CASE Offline
  BY <1>1 DEF Offline, StateTypeOK, Statuses, Messages, supplies, jobs
<1>2. CASE Refill
  <2>1. PICK base \in Statuses : UpdateState(base)
    BY <1>2 DEF Refill, ChangePaper, ChangeToner, Ready, PublicStatus, Refilled,
                Statuses, StateTypeOK
  <2>2. paper' \in 0..MaxPaper /\ toner' \in 0..FullToner /\ UNCHANGED jobs
    BY <1>2 DEF Refill, ChangePaper, ChangeToner, Ready, PublicStatus, StateTypeOK
  <2> QED BY <2>1, <2>2, UpdateType DEF StateTypeOK, jobs
<1>3. CASE Enqueue
  <2>1. PICK source \in Sources, pages \in PageCounts : EnqueueJob(source, pages)
    BY <1>3 DEF Enqueue
  <2> DEFINE job == [id |-> nextJobId, device |-> source, pages |-> pages, state |-> "queued"]
  <2>2. job \in Job
    BY <2>1 DEF EnqueueJob, Accepts, Job, StateTypeOK
  <2>3. queue' \in Seq(Job)
    BY <2>1, <2>2, AppendProperties DEF EnqueueJob, StateTypeOK
  <2>4. nextJobId' \in Nat
    BY <2>1 DEF EnqueueJob, StateTypeOK
  <2> QED BY <2>1, <2>3, <2>4 DEF EnqueueJob, StateTypeOK, supplies
<1>4. CASE PrintHead
  <2>1. queue # <<>> /\ Printable(queue[1]) /\ status \in Statuses
    BY <1>4 DEF PrintHead, CanPrint, StateTypeOK
  <2>2. paper' \in 0..MaxPaper /\ toner' \in 0..FullToner
    <3> DEFINE sheets == queue[1].pages
               units  == GetTonerUsage(queue[1].pages)
    <3>1. sheets \in 1..15 /\ units \in 1..3 /\ paper >= sheets /\ toner >= units
      BY <2>1, HeadIsJob DEF Printable
    <3>2. paper' = paper - sheets /\ toner' = toner - units
      BY <1>4 DEF PrintHead
    <3>3. paper \in 0..MaxPaper /\ toner \in 0..FullToner
      BY DEF StateTypeOK
    <3> HIDE DEF sheets, units
    <3> QED BY <3>1, <3>2, <3>3
  <2>3. queue' \in Seq(Job) /\ printed' \in Seq(Job)
    BY <1>4, <2>1, HeadIsJob, HeadTailProperties, AppendProperties DEF PrintHead, StateTypeOK
  <2>4. UpdateState(status) /\ UNCHANGED nextJobId
    BY <1>4 DEF PrintHead
  <2> QED BY <2>1, <2>2, <2>3, <2>4, UpdateType DEF StateTypeOK
<1>5. CASE RefuseHead
  <2>1. queue' \in Seq(Job)
    <3>1. CASE queue' = queue
      BY <3>1 DEF StateTypeOK
    <3>2. CASE queue # <<>> /\ queue' = [queue EXCEPT ![1].state = "failed"]
      <4>1. queue' = [queue EXCEPT ![1] = [queue[1] EXCEPT !.state = "failed"]]
        BY <3>2
      <4>2. [queue[1] EXCEPT !.state = "failed"] \in Job
        BY <3>2, HeadIsJob DEF Job
      <4> QED BY <3>2, <4>1, <4>2, HeadIsJob, ExceptSeq DEF StateTypeOK
    <3> QED BY <1>5, <3>1, <3>2 DEF RefuseHead
  <2> QED BY <1>5, <2>1 DEF RefuseHead, StateTypeOK, Statuses, Messages, Complaints, supplies
<1> QED BY <1>1, <1>2, <1>3, <1>4, <1>5 DEF Method

LEMMA ThreadType == ThreadTypeOK /\ [Next]_vars => ThreadTypeOK'
<1> SUFFICES ASSUME ThreadTypeOK, Next PROVE ThreadTypeOK'
  BY DEF vars, threads, ThreadTypeOK
<1>1. CASE Worker
  BY <1>1 DEF Worker, WorkerWakes, WorkerClears, WorkerTests, WorkerPrints,
              WorkerRefused, ThreadTypeOK
<1>2. ASSUME NEW h \in Handlers, Request(h) PROVE ThreadTypeOK'
  BY <1>2 DEF Request, SetOffline, SetReady, EmptyPaper, RefillPaper, EmptyToner,
              ReplaceToner, CompleteJob, CompleteFails, GetStatus, RejectJob, AddJob,
              Begin, Goto, ThreadTypeOK
<1>3. ASSUME NEW h \in Handlers, Continue(h) PROVE ThreadTypeOK'
  BY <1>3 DEF Continue, CheckQueue, SetChanged, Reply, Goto, ThreadTypeOK
<1> QED BY <1>1, <1>2, <1>3 DEF Next

\* Types hold in every reachable state; in particular no print, however the threads
\* interleave, takes a supply below zero.
THEOREM TypeCorrect == Spec => []TypeOK
<1>1. Init => TypeOK
  <2> SUFFICES ASSUME Init PROVE TypeOK
    OBVIOUS
  <2>1. queue \in Seq(Job) /\ printed \in Seq(Job)
    BY EmptySeq DEF Init
  <2>2. paper \in 0..MaxPaper /\ toner \in 0..FullToner /\ nextJobId \in Nat
    BY SupplyAssumption, JobIdAssumption DEF Init
  <2>3. ThreadTypeOK
    BY DEF Init, ThreadTypeOK
  <2> QED BY <2>1, <2>2, <2>3 DEF Init, TypeOK, StateTypeOK, Statuses, Messages, Levels
<1>2. TypeOK /\ [Next]_vars => TypeOK'
  <2>1. TypeOK /\ UNCHANGED state => StateTypeOK'
    BY DEF TypeOK, StateTypeOK, state, supplies, jobs
  <2> QED BY <2>1, StepIsMethod, MethodType, ThreadType DEF TypeOK
<1> QED BY <1>1, <1>2, PTL DEF Spec
-----------------------------------------------------------------------------
(* No lost wake-up *)

\* _update_state never changes whether the printer is offline.
LEMMA UpdateKeepsOffline ==
  ASSUME NEW base, UpdateState(base)
  PROVE  status' = "offline" <=> base = "offline"
BY DEF UpdateState

\* A refusal leaves behind a head that cannot be printed.
LEMMA RefusalBlocks == StateTypeOK /\ RefuseHead => ~CanPrint'
<1> SUFFICES ASSUME StateTypeOK, RefuseHead PROVE ~CanPrint'
  OBVIOUS
<1>1. ~CanPrint /\ UNCHANGED <<paper, toner>>
  BY DEF RefuseHead, supplies
<1>2. CASE UNCHANGED <<status, queue>>
  BY <1>1, <1>2 DEF CanPrint, Printable
<1>3. CASE /\ status # "offline" /\ queue # <<>>
           /\ queue' = [queue EXCEPT ![1].state = "failed"]
  <2>1. queue[1] \in Job /\ 1 \in DOMAIN queue
    BY <1>3, HeadIsJob DEF StateTypeOK
  <2>2. queue'[1].pages = queue[1].pages
    BY <1>3, <2>1 DEF Job
  <2>3. ~Printable(queue[1])
    BY <1>1, <1>3 DEF CanPrint
  <2> QED BY <1>1, <2>2, <2>3 DEF CanPrint, Printable
<1> QED BY <1>2, <1>3 DEF RefuseHead

\* Empty supplies print nothing.
LEMMA EmptyBlocks == StateTypeOK' /\ (paper' = 0 \/ toner' = 0) => ~CanPrint'
<1> SUFFICES ASSUME StateTypeOK', queue' # <<>>, Printable(queue[1])'
             PROVE  paper' # 0 /\ toner' # 0
  BY DEF CanPrint
<1>1. queue'[1] \in Job
  BY EmptySeq, LenProperties, ElementOfSeq DEF StateTypeOK
<1>2. queue'[1].pages \in 1..15
  BY <1>1, PageAssumption DEF Job
<1>3. GetTonerUsage(queue'[1].pages) \in 1..3
  BY <1>2, TonerUsage
<1>4. paper' \in Nat /\ toner' \in Nat
  BY SupplyAssumption DEF StateTypeOK
<1> QED BY <1>2, <1>3, <1>4 DEF Printable

LEMMA WakeupStep == TypeOK /\ TypeOK' /\ NoLostWakeup /\ [Next]_vars => NoLostWakeup'
<1> SUFFICES ASSUME TypeOK, TypeOK', NoLostWakeup, [Next]_vars,
                    CanPrint', worker' = "wait", ~changed'
             PROVE  \E h \in Handlers : handler'[h] \in {"check", "set"}
  BY DEF NoLostWakeup
<1>a. StateTypeOK /\ StateTypeOK' /\ ThreadTypeOK
  BY DEF TypeOK
\* What a step by h leaves to prove when it changes nothing the worker looks at:
\* the handler that was on its way is another one.
<1>b. ASSUME NEW h \in Handlers, NEW place, handler[h] \in {"idle", "reply"}, Goto(h, place),
             CanPrint, UNCHANGED <<changed, worker>>
      PROVE  \E k \in Handlers : handler'[k] \in {"check", "set"}
  <2>1. PICK k \in Handlers : handler[k] \in {"check", "set"}
    BY <1>b DEF NoLostWakeup
  <2>2. k # h
    BY <1>b, <2>1
  <2>3. handler'[k] = handler[k]
    BY <1>a, <1>b, <2>2 DEF Goto, ThreadTypeOK
  <2> QED BY <2>1, <2>3
<1>c. UNCHANGED state => CanPrint
  BY DEF state, supplies, jobs, CanPrint, Printable
<1>1. CASE UNCHANGED vars
  BY <1>1, <1>c DEF vars, threads, NoLostWakeup
<1>2. CASE Worker
  <2>1. CASE WorkerWakes \/ WorkerClears \/ WorkerPrints
    BY <2>1 DEF WorkerWakes, WorkerClears, WorkerPrints
  <2>2. CASE WorkerTests
    <3>1. CanPrint /\ queue # <<>>
      BY <2>2, <1>c DEF WorkerTests, CanPrint
    <3> QED BY <2>2, <3>1 DEF WorkerTests
  <2>3. CASE WorkerRefused
    BY <1>a, <2>3, RefusalBlocks DEF WorkerRefused
  <2> QED BY <1>2, <2>1, <2>2, <2>3 DEF Worker
<1>3. ASSUME NEW h \in Handlers, Request(h)
      PROVE  \E k \in Handlers : handler'[k] \in {"check", "set"}
  <2>1. CASE SetReady(h) \/ RefillPaper(h) \/ ReplaceToner(h) \/ CompleteJob(h)
    <3>1. handler'[h] = "check"
      BY <1>a, <2>1 DEF SetReady, RefillPaper, ReplaceToner, CompleteJob, Begin, Goto,
                        ThreadTypeOK
    <3> QED BY <3>1
  <2>2. CASE \E source \in Sources, pages \in PageCounts : AddJob(h, source, pages)
    <3>1. handler'[h] = "set"
      BY <1>a, <2>2 DEF AddJob, Goto, ThreadTypeOK
    <3> QED BY <3>1
  <2>3. CASE SetOffline(h)
    BY <2>3 DEF SetOffline, Offline, CanPrint
  <2>4. CASE EmptyPaper(h) \/ EmptyToner(h)
    BY <1>a, <2>4, EmptyBlocks DEF EmptyPaper, EmptyToner, ChangePaper, ChangeToner
  <2>5. CASE CompleteFails(h)
    BY <1>a, <2>5, RefusalBlocks DEF CompleteFails
  <2>6. CASE GetStatus(h) \/ \E source \in Sources : RejectJob(h, source)
    <3>1. CanPrint
      BY <2>6, <1>c DEF GetStatus, RejectJob
    <3>2. handler[h] = "idle" /\ Goto(h, "reply") /\ UNCHANGED <<changed, worker>>
      BY <2>6 DEF GetStatus, RejectJob, Begin
    <3> QED BY <1>b, <3>1, <3>2
  <2> QED BY <1>3, <2>1, <2>2, <2>3, <2>4, <2>5, <2>6 DEF Request
<1>4. ASSUME NEW h \in Handlers, Continue(h)
      PROVE  \E k \in Handlers : handler'[k] \in {"check", "set"}
  <2>1. CASE CheckQueue(h)
    <3>1. queue # <<>>
      BY <2>1, <1>c DEF CheckQueue, CanPrint
    <3>2. handler'[h] = "set"
      BY <1>a, <2>1, <3>1 DEF CheckQueue, Goto, ThreadTypeOK
    <3> QED BY <3>2
  <2>2. CASE SetChanged(h)
    BY <2>2 DEF SetChanged
  <2>3. CASE Reply(h)
    <3>1. CanPrint
      <4>1. status # "offline"
        BY <2>3, UpdateKeepsOffline DEF Reply, PublicStatus, CanPrint
      <4> QED BY <2>3, <4>1 DEF Reply, PublicStatus, CanPrint, Printable, jobs
    <3>2. handler[h] = "reply" /\ Goto(h, "idle") /\ UNCHANGED <<changed, worker>>
      BY <2>3 DEF Reply
    <3> QED BY <1>b, <3>1, <3>2
  <2> QED BY <1>4, <2>1, <2>2, <2>3 DEF Continue
<1> QED BY <1>1, <1>2, <1>3, <1>4 DEF Next

\* The worker never sleeps through a job it could print: the race between clear,
\* has_jobs and Event.set loses no wake-up, for any number of handler threads.
THEOREM WakeupNeverLost == Spec => []NoLostWakeup
<1>1. Init => NoLostWakeup
  BY DEF Init, NoLostWakeup, CanPrint
<1> QED BY <1>1, WakeupStep, TypeCorrect, PTL DEF Spec
-----------------------------------------------------------------------------
(* What the printer reports about itself *)

\* Appending keeps the jobs that wait and adds the new one at the end.
LEMMA EnqueueEffect ==
  ASSUME StateTypeOK, Enqueue
  PROVE  /\ Len(queue) \in Nat /\ Len(queue') = Len(queue) + 1
         /\ DOMAIN queue = 1..Len(queue) /\ DOMAIN queue' = 1..(Len(queue) + 1)
         /\ \A i \in 1..Len(queue) : queue'[i] = queue[i]
         /\ queue'[Len(queue) + 1].state = "queued"
         /\ queue'[Len(queue) + 1].id = nextJobId
         /\ nextJobId' = nextJobId + 1
         /\ UNCHANGED <<status, message, supplies, printed>>
<1>1. PICK source \in Sources, pages \in PageCounts : EnqueueJob(source, pages)
  BY DEF Enqueue
<1> DEFINE job == [id |-> nextJobId, device |-> source, pages |-> pages, state |-> "queued"]
<1>2. queue' = Append(queue, job) /\ job \in Job
  BY <1>1 DEF EnqueueJob, Accepts, Job, StateTypeOK
<1> HIDE DEF job
<1>3. Len(queue) \in Nat /\ DOMAIN queue = 1..Len(queue)
  BY LenProperties DEF StateTypeOK
<1>4. /\ queue' \in Seq(Job) /\ Len(queue') = Len(queue) + 1
      /\ \A i \in 1..Len(queue) : queue'[i] = queue[i]
      /\ queue'[Len(queue) + 1] = job
  BY <1>2, AppendProperties DEF StateTypeOK
<1>5. DOMAIN queue' = 1..(Len(queue) + 1)
  BY <1>4, LenProperties
<1>6. job.state = "queued" /\ job.id = nextJobId
  BY DEF job
<1> QED BY <1>1, <1>3, <1>4, <1>5, <1>6 DEF EnqueueJob

\* Printing moves the head to the end of the output; the others move up.
LEMMA PrintEffect ==
  ASSUME StateTypeOK, PrintHead
  PROVE  /\ Len(queue) \in Nat \ {0} /\ Len(printed) \in Nat
         /\ Len(queue') = Len(queue) - 1 /\ Len(printed') = Len(printed) + 1
         /\ DOMAIN queue = 1..Len(queue) /\ DOMAIN printed = 1..Len(printed)
         /\ DOMAIN queue' = 1..(Len(queue) - 1) /\ DOMAIN printed' = 1..(Len(printed) + 1)
         /\ \A i \in 1..(Len(queue) - 1) : queue'[i] = queue[i + 1]
         /\ \A i \in 1..Len(printed) : printed'[i] = printed[i]
         /\ printed'[Len(printed) + 1] = queue[1]
<1>1. /\ queue # <<>> /\ queue \in Seq(Job) /\ printed \in Seq(Job)
      /\ queue' = Tail(queue) /\ printed' = Append(printed, queue[1])
  BY DEF PrintHead, CanPrint, StateTypeOK
<1>2. Len(queue) \in Nat \ {0} /\ queue[1] \in Job
  BY <1>1, HeadIsJob
<1>3. Len(printed) \in Nat /\ DOMAIN queue = 1..Len(queue) /\ DOMAIN printed = 1..Len(printed)
  BY <1>1, LenProperties
<1>4. /\ queue' \in Seq(Job) /\ Len(queue') = Len(queue) - 1
      /\ \A i \in 1..(Len(queue) - 1) : queue'[i] = queue[i + 1]
  BY <1>1, <1>2, HeadTailProperties
<1>5. /\ printed' \in Seq(Job) /\ Len(printed') = Len(printed) + 1
      /\ \A i \in 1..Len(printed) : printed'[i] = printed[i]
      /\ printed'[Len(printed) + 1] = queue[1]
  BY <1>1, <1>2, AppendProperties
<1>6. DOMAIN queue' = 1..(Len(queue) - 1) /\ DOMAIN printed' = 1..(Len(printed) + 1)
  BY <1>4, <1>5, LenProperties
<1> QED BY <1>2, <1>3, <1>4, <1>5, <1>6

\* Refusing leaves everything but the state of the head job.
LEMMA RefuseEffect ==
  ASSUME StateTypeOK, RefuseHead
  PROVE  /\ DOMAIN queue' = DOMAIN queue /\ Len(queue') = Len(queue)
         /\ \A i \in DOMAIN queue : /\ queue'[i].id = queue[i].id
                                    /\ queue'[i].device = queue[i].device
                                    /\ queue'[i].pages = queue[i].pages
                                    /\ i # 1 => queue'[i] = queue[i]
         /\ UNCHANGED <<supplies, nextJobId, printed>>
<1>1. CASE UNCHANGED queue
  BY <1>1 DEF RefuseHead
<1>2. CASE queue # <<>> /\ queue' = [queue EXCEPT ![1].state = "failed"]
  <2>1. DOMAIN queue = 1..Len(queue) /\ \A i \in DOMAIN queue : queue[i] \in Job
    BY LenProperties, ElementOfSeq DEF StateTypeOK
  <2>2. DOMAIN queue' = DOMAIN queue
    BY <1>2
  <2>3. Len(queue') = Len(queue)
    BY <1>2, MethodType, LenProperties, <2>1, <2>2 DEF Method, StateTypeOK
  <2>4. \A i \in DOMAIN queue : /\ queue'[i].id = queue[i].id
                                /\ queue'[i].device = queue[i].device
                                /\ queue'[i].pages = queue[i].pages
                                /\ i # 1 => queue'[i] = queue[i]
    BY <1>2, <2>1 DEF Job
  <2>5. UNCHANGED <<supplies, nextJobId, printed>>
    BY DEF RefuseHead
  <2> QED BY <2>2, <2>3, <2>4, <2>5
<1>3. UNCHANGED queue \/ (queue # <<>> /\ queue' = [queue EXCEPT ![1].state = "failed"])
  BY DEF RefuseHead
<1> QED BY <1>1, <1>2, <1>3

LEMMA OnlyHeadStep == StateTypeOK /\ OnlyHeadFails /\ Method => OnlyHeadFails'
<1> SUFFICES ASSUME StateTypeOK, OnlyHeadFails, Method PROVE OnlyHeadFails'
  OBVIOUS
<1>1. CASE Offline \/ Refill
  BY <1>1 DEF Offline, Refill, ChangePaper, ChangeToner, Ready, PublicStatus, jobs,
              OnlyHeadFails
<1>2. CASE Enqueue
  <2>1. ASSUME NEW i \in DOMAIN queue', queue'[i].state = "failed" PROVE i = 1
    <3>1. i \in 1..Len(queue) /\ queue[i].state = "failed"
      BY <1>2, <2>1, EnqueueEffect
    <3> QED BY <1>2, <3>1, EnqueueEffect DEF OnlyHeadFails
  <2> QED BY <2>1 DEF OnlyHeadFails
<1>3. CASE PrintHead
  <2>1. ASSUME NEW i \in DOMAIN queue', queue'[i].state = "failed" PROVE FALSE
    <3>1. i \in 1..(Len(queue) - 1) /\ queue[i + 1].state = "failed" /\ i + 1 \in DOMAIN queue
      BY <1>3, <2>1, PrintEffect
    <3>2. i + 1 = 1
      BY <3>1 DEF OnlyHeadFails
    <3> QED BY <3>1, <3>2
  <2> QED BY <2>1 DEF OnlyHeadFails
<1>4. CASE RefuseHead
  BY <1>4, RefuseEffect DEF OnlyHeadFails
<1> QED BY <1>1, <1>2, <1>3, <1>4 DEF Method

LEMMA NumberStep == StateTypeOK /\ JobsAreNumbered /\ Method => JobsAreNumbered'
<1> SUFFICES ASSUME StateTypeOK, JobsAreNumbered, Method PROVE JobsAreNumbered'
  OBVIOUS
<1> USE JobIdAssumption
<1>0. Len(queue) \in Nat /\ Len(printed) \in Nat /\ nextJobId \in Nat
      /\ DOMAIN queue = 1..Len(queue) /\ DOMAIN printed = 1..Len(printed)
  BY LenProperties DEF StateTypeOK
<1>1. CASE Offline \/ Refill
  BY <1>1 DEF Offline, Refill, ChangePaper, ChangeToner, Ready, PublicStatus, jobs,
              JobsAreNumbered
<1>2. CASE Enqueue
  <2>1. nextJobId' = FirstJobId + Len(printed') + Len(queue')
    BY <1>0, <1>2, EnqueueEffect DEF JobsAreNumbered
  <2>2. ASSUME NEW i \in DOMAIN queue'
        PROVE  queue'[i].id = FirstJobId + Len(printed') + i - 1
    <3>1. CASE i \in 1..Len(queue)
      BY <1>0, <1>2, <3>1, EnqueueEffect DEF JobsAreNumbered
    <3>2. CASE i = Len(queue) + 1
      BY <1>0, <1>2, <3>2, EnqueueEffect DEF JobsAreNumbered
    <3> QED BY <1>0, <1>2, <3>1, <3>2, EnqueueEffect
  <2>3. UNCHANGED printed
    BY <1>2, EnqueueEffect
  <2> QED BY <2>1, <2>2, <2>3 DEF JobsAreNumbered
<1>3. CASE PrintHead
  <2>1. nextJobId' = FirstJobId + Len(printed') + Len(queue')
    BY <1>0, <1>3, PrintEffect DEF JobsAreNumbered, PrintHead
  <2>2. ASSUME NEW i \in DOMAIN queue'
        PROVE  queue'[i].id = FirstJobId + Len(printed') + i - 1
    <3>1. i \in 1..(Len(queue) - 1) /\ queue'[i] = queue[i + 1] /\ i + 1 \in DOMAIN queue
      BY <1>0, <1>3, PrintEffect
    <3>2. queue[i + 1].id = FirstJobId + Len(printed) + (i + 1) - 1
      BY <3>1 DEF JobsAreNumbered
    <3>3. Len(printed') = Len(printed) + 1 /\ i \in Nat
      BY <1>3, <3>1, PrintEffect
    <3>4. FirstJobId \in Nat
      OBVIOUS
    <3> QED BY <1>0, <3>1, <3>2, <3>3, <3>4
  <2>3. ASSUME NEW i \in DOMAIN printed'
        PROVE  printed'[i].id = FirstJobId + i - 1
    <3>1. CASE i \in 1..Len(printed)
      BY <1>0, <1>3, <3>1, PrintEffect DEF JobsAreNumbered
    <3>2. CASE i = Len(printed) + 1
      <4>1. 1 \in DOMAIN queue /\ printed'[i] = queue[1]
        BY <1>3, <3>2, PrintEffect
      <4>2. queue[1].id = FirstJobId + Len(printed) + 1 - 1
        BY <4>1 DEF JobsAreNumbered
      <4> QED BY <1>0, <3>2, <4>1, <4>2
    <3> QED BY <1>0, <1>3, <3>1, <3>2, PrintEffect
  <2> QED BY <2>1, <2>2, <2>3 DEF JobsAreNumbered
<1>4. CASE RefuseHead
  BY <1>4, RefuseEffect DEF JobsAreNumbered
<1> QED BY <1>1, <1>2, <1>3, <1>4 DEF Method

\* What each diagnosis says about the supplies and the head job.
LEMMA DiagnosisMeans ==
  ASSUME NEW p \in Nat, NEW t \in Nat, NEW q,
         q # <<>> => q[1].pages \in 1..15 /\ GetTonerUsage(q[1].pages) \in 1..3,
         NEW d, d = Diagnosis(p, t, q)
  PROVE  /\ d # "ready" <=>
              \/ p = 0
              \/ t = 0
              \/ /\ q # <<>> /\ q[1].state = "failed"
                 /\ ~(p >= q[1].pages /\ t >= GetTonerUsage(q[1].pages))
         /\ d # "offline"
         /\ d = "paper_empty" => p = 0
         /\ d = "toner_empty" => t = 0
         /\ d = "insufficient_paper" => q # <<>> /\ p < q[1].pages
         /\ d = "insufficient_toner" => q # <<>> /\ t < GetTonerUsage(q[1].pages)
<1>1. CASE p = 0
  <2>1. d = "paper_empty"
    BY <1>1 DEF Diagnosis
  <2> QED BY <1>1, <2>1
<1>2. CASE p # 0 /\ t = 0
  <2>1. d = "toner_empty"
    BY <1>2 DEF Diagnosis
  <2> QED BY <1>2, <2>1
<1>3. CASE p # 0 /\ t # 0 /\ ~(q # <<>> /\ q[1].state = "failed")
  <2>1. d = "ready"
    BY <1>3 DEF Diagnosis
  <2> QED BY <1>3, <2>1
<1>4. CASE p # 0 /\ t # 0 /\ q # <<>> /\ q[1].state = "failed"
  <2>1. CASE p < q[1].pages
    <3>1. d = "insufficient_paper"
      BY <1>4, <2>1 DEF Diagnosis
    <3>2. ~(p >= q[1].pages)
      BY <1>4, <2>1
    <3> QED BY <1>4, <2>1, <3>1, <3>2
  <2>2. CASE ~(p < q[1].pages) /\ t < GetTonerUsage(q[1].pages)
    <3>1. d = "insufficient_toner"
      BY <1>4, <2>2 DEF Diagnosis
    <3>2. ~(t >= GetTonerUsage(q[1].pages))
      BY <1>4, <2>2
    <3> QED BY <1>4, <2>2, <3>1, <3>2
  <2>3. CASE ~(p < q[1].pages) /\ ~(t < GetTonerUsage(q[1].pages))
    <3>1. d = "ready"
      BY <1>4, <2>3 DEF Diagnosis
    <3>2. p >= q[1].pages /\ t >= GetTonerUsage(q[1].pages)
      BY <1>4, <2>3
    <3> QED BY <1>4, <3>1, <3>2
  <2> QED BY <2>1, <2>2, <2>3
<1> QED BY <1>1, <1>2, <1>3, <1>4

\* Right after _update_state the status and the message are those of the supplies
\* and the head job.
LEMMA UpdateJustified ==
  ASSUME StateTypeOK', NEW base \in Statuses, UpdateState(base)
  PROVE  AttentionIsJustified' /\ MessageIsTrue' /\ LevelsAreCurrent'
<1>1. paper' \in Nat /\ toner' \in Nat
  BY SupplyAssumption DEF StateTypeOK
<1>2. queue' # <<>> => queue'[1].pages \in 1..15 /\ GetTonerUsage(queue'[1].pages) \in 1..3
  <2> SUFFICES ASSUME queue' # <<>>
               PROVE  queue'[1].pages \in 1..15 /\ GetTonerUsage(queue'[1].pages) \in 1..3
    OBVIOUS
  <2>1. queue'[1] \in Job
    BY EmptySeq, LenProperties, ElementOfSeq DEF StateTypeOK
  <2>2. queue'[1].pages \in 1..15
    BY <2>1, PageAssumption DEF Job
  <2> QED BY <2>2, TonerUsage
<1>3. LevelsAreCurrent'
  BY DEF UpdateState, LevelsAreCurrent
<1>4. CASE base = "offline"
  BY <1>3, <1>4 DEF UpdateState, AttentionIsJustified, MessageIsTrue
<1>5. CASE base # "offline"
  <2>1. message' = Diagnosis(paper', toner', queue')
    BY <1>5 DEF UpdateState
  <2>2. status' = IF message' = "ready" THEN "ready" ELSE "attention"
    BY <1>5 DEF UpdateState
  <2>3. /\ message' # "ready" <=>
             \/ paper' = 0
             \/ toner' = 0
             \/ /\ queue' # <<>> /\ queue'[1].state = "failed"
                /\ ~(paper' >= queue'[1].pages /\ toner' >= GetTonerUsage(queue'[1].pages))
        /\ message' # "offline"
        /\ message' = "paper_empty" => paper' = 0
        /\ message' = "toner_empty" => toner' = 0
        /\ message' = "insufficient_paper" => queue' # <<>> /\ paper' < queue'[1].pages
        /\ message' = "insufficient_toner" =>
             queue' # <<>> /\ toner' < GetTonerUsage(queue'[1].pages)
    BY <1>1, <1>2, <2>1, DiagnosisMeans
  <2>4. MessageIsTrue'
    BY <2>2, <2>3 DEF MessageIsTrue
  <2>5. AttentionIsJustified'
    BY <2>2, <2>3 DEF AttentionIsJustified, Printable
  <2> QED BY <1>3, <2>4, <2>5
<1> QED BY <1>4, <1>5

Report == AttentionIsJustified /\ MessageIsTrue /\ LevelsAreCurrent

LEMMA ReportStep == StateTypeOK /\ StateTypeOK' /\ Report /\ Method => Report'
<1> SUFFICES ASSUME StateTypeOK, StateTypeOK', Report, Method PROVE Report'
  OBVIOUS
<1> USE DEF Report
<1>1. CASE Offline
  BY <1>1 DEF Offline, supplies, AttentionIsJustified, MessageIsTrue, LevelsAreCurrent
<1>2. CASE Refill \/ PrintHead
  <2>1. PICK base \in Statuses : UpdateState(base)
    BY <1>2 DEF Refill, ChangePaper, ChangeToner, Ready, PublicStatus, Refilled, PrintHead,
                Statuses, StateTypeOK
  <2> QED BY <2>1, UpdateJustified
<1>3. CASE Enqueue
  <2>1. UNCHANGED <<status, message, supplies>>
    BY <1>3, EnqueueEffect
  <2>2. CASE queue = <<>>
    <3>1. queue'[1].state = "queued"
      BY <1>3, <2>2, EnqueueEffect, EmptySeq
    <3> QED BY <2>1, <2>2, <3>1 DEF supplies, AttentionIsJustified, MessageIsTrue,
                                    LevelsAreCurrent, Printable
  <2>3. CASE queue # <<>>
    <3>1. queue'[1] = queue[1] /\ queue' # <<>>
      BY <1>3, <2>3, HeadIsJob, EnqueueEffect, EmptySeq
    <3> QED BY <2>1, <2>3, <3>1 DEF supplies, AttentionIsJustified, MessageIsTrue,
                                    LevelsAreCurrent, Printable
  <2> QED BY <2>2, <2>3
<1>4. CASE RefuseHead
  <2>1. LevelsAreCurrent'
    BY <1>4 DEF RefuseHead, supplies, LevelsAreCurrent
  <2>2. CASE UNCHANGED <<status, message, queue>>
    BY <1>4, <2>1, <2>2 DEF RefuseHead, supplies, AttentionIsJustified, MessageIsTrue, Printable
  <2>3. CASE /\ status # "offline" /\ queue # <<>>
             /\ queue' = [queue EXCEPT ![1].state = "failed"]
             /\ status' = "attention"
             /\ message' = IF paper < queue[1].pages THEN "insufficient_paper"
                                                     ELSE "insufficient_toner"
    <3>1. /\ paper \in Nat /\ toner \in Nat /\ queue[1] \in Job /\ 1 \in DOMAIN queue
          /\ queue[1].pages \in 1..15 /\ GetTonerUsage(queue[1].pages) \in 1..3
      <4>1. paper \in Nat /\ toner \in Nat
        BY SupplyAssumption DEF StateTypeOK
      <4> QED BY <2>3, <4>1, HeadIsJob
    <3>2. ~Printable(queue[1]) /\ UNCHANGED <<paper, toner>>
      BY <1>4, <2>3 DEF RefuseHead, CanPrint, supplies
    <3>3. queue'[1].state = "failed" /\ queue'[1].pages = queue[1].pages /\ queue' # <<>>
      <4>1. DOMAIN queue' = DOMAIN queue
        BY <2>3
      <4>2. queue' # <<>>
        BY <3>1, <4>1, EmptySeq, LenProperties
      <4> QED BY <2>3, <3>1, <4>2 DEF Job
    <3>4. paper < queue[1].pages \/ toner < GetTonerUsage(queue[1].pages)
      BY <3>1, <3>2 DEF Printable
    <3>5. AttentionIsJustified'
      BY <2>3, <3>1, <3>2, <3>3 DEF AttentionIsJustified, Printable
    <3>6. MessageIsTrue'
      BY <2>3, <3>1, <3>2, <3>3, <3>4 DEF MessageIsTrue
    <3> QED BY <2>1, <3>5, <3>6
  <2> QED BY <1>4, <2>2, <2>3 DEF RefuseHead
<1> QED BY <1>1, <1>2, <1>3, <1>4 DEF Method

\* The initial supplies read "normal" and nothing is wrong.
LEMMA InitReport == Init => Report /\ OnlyHeadFails /\ JobsAreNumbered
<1> SUFFICES ASSUME Init PROVE Report /\ OnlyHeadFails /\ JobsAreNumbered
  OBVIOUS
<1>1. GetLevel(MaxPaper, MaxPaper) = "normal" /\ GetLevel(InitialToner, FullToner) = "normal"
  BY SupplyAssumption DEF GetLevel
<1>2. LevelsAreCurrent
  BY <1>1 DEF Init, LevelsAreCurrent
<1>3. AttentionIsJustified /\ MessageIsTrue
  BY SupplyAssumption DEF Init, AttentionIsJustified, MessageIsTrue
<1>4. Len(queue) = 0 /\ Len(printed) = 0 /\ DOMAIN queue = {} /\ DOMAIN printed = {}
  BY DEF Init
<1>5. JobsAreNumbered
  BY <1>4, JobIdAssumption DEF Init, JobsAreNumbered
<1> QED BY <1>2, <1>3, <1>4, <1>5 DEF Report, OnlyHeadFails

LEMMA UnchangedReport ==
  UNCHANGED state /\ Report /\ OnlyHeadFails /\ JobsAreNumbered
    => Report' /\ OnlyHeadFails' /\ JobsAreNumbered'
BY DEF state, supplies, jobs, Report, AttentionIsJustified, MessageIsTrue, LevelsAreCurrent,
       OnlyHeadFails, JobsAreNumbered, Printable

LEMMA StateInvariant == Spec => [](Report /\ OnlyHeadFails /\ JobsAreNumbered)
<1>1. TypeOK /\ TypeOK' /\ Report /\ OnlyHeadFails /\ JobsAreNumbered /\ [Next]_vars
        => Report' /\ OnlyHeadFails' /\ JobsAreNumbered'
  BY StepIsMethod, UnchangedReport, ReportStep, OnlyHeadStep, NumberStep DEF TypeOK
<1> QED BY <1>1, InitReport, TypeCorrect, PTL DEF Spec

\* Staff are sent to the printer exactly when something has to be done about it.
THEOREM AttentionAlwaysJustified == Spec => []AttentionIsJustified
BY StateInvariant, PTL DEF Report

\* The message names a complaint that is true, and the levels are those of the supplies.
THEOREM MessageAlwaysTrue == Spec => [](MessageIsTrue /\ LevelsAreCurrent)
BY StateInvariant, PTL DEF Report

\* A failed job keeps its place at the head, and no number is skipped or reused.
THEOREM QueueInOrder == Spec => [](OnlyHeadFails /\ JobsAreNumbered)
BY StateInvariant, PTL
-----------------------------------------------------------------------------
(* The printer implements the spool *)

\* The tickets of a sequence of jobs are a sequence of the same length.
LEMMA TicketsType ==
  ASSUME NEW s \in Seq(Job)
  PROVE  /\ Tickets(s) \in Seq(Spool!Ticket)
         /\ Len(Tickets(s)) = Len(s) /\ Len(s) \in Nat
         /\ \A i \in 1..Len(s) : Tickets(s)[i] = TicketOf(s[i])
<1>1. Len(s) \in Nat /\ DOMAIN s = 1..Len(s) /\ \A i \in 1..Len(s) : s[i] \in Job
  BY LenProperties, ElementOfSeq
<1>2. \A i \in 1..Len(s) : TicketOf(s[i]) \in Spool!Ticket
  BY <1>1 DEF TicketOf, Job, Spool!Ticket
<1>3. Tickets(s) \in [1..Len(s) -> Spool!Ticket]
  BY <1>1, <1>2 DEF Tickets
<1>4. Tickets(s) \in Seq(Spool!Ticket)
  BY <1>1, <1>3, SeqDef
<1>5. DOMAIN Tickets(s) = 1..Len(s) /\ DOMAIN Tickets(s) = 1..Len(Tickets(s))
      /\ Len(Tickets(s)) \in Nat
  BY <1>3, <1>4, LenProperties
<1>6. Len(Tickets(s)) = Len(s)
  BY <1>1, <1>5
<1> QED BY <1>1, <1>4, <1>6 DEF Tickets

\* Sequences of jobs that agree on their tickets have the same tickets.
LEMMA SameTickets ==
  ASSUME NEW s \in Seq(Job), NEW t \in Seq(Job), Len(s) = Len(t),
         \A i \in 1..Len(s) : TicketOf(s[i]) = TicketOf(t[i])
  PROVE  Tickets(s) = Tickets(t)
<1> DEFINE S == Tickets(s)
           T == Tickets(t)
<1>1. /\ S \in Seq(Spool!Ticket) /\ T \in Seq(Spool!Ticket)
      /\ Len(S) = Len(T)
      /\ \A i \in 1..Len(S) : S[i] = T[i]
  BY TicketsType
<1> HIDE DEF S, T
<1>2. S = T
  BY <1>1, SeqEqual
<1> QED BY <1>2 DEF S, T

LEMMA AppendTickets ==
  ASSUME NEW s \in Seq(Job), NEW job \in Job
  PROVE  Tickets(Append(s, job)) = Append(Tickets(s), TicketOf(job))
<1> DEFINE u == Append(s, job)
           S == Tickets(u)
           T == Append(Tickets(s), TicketOf(job))
<1>1. u \in Seq(Job) /\ Len(u) = Len(s) + 1 /\ u[Len(s) + 1] = job
      /\ \A i \in 1..Len(s) : u[i] = s[i]
  BY AppendProperties
<1>2. TicketOf(job) \in Spool!Ticket
  BY DEF TicketOf, Job, Spool!Ticket
<1>3. /\ T \in Seq(Spool!Ticket) /\ Len(T) = Len(s) + 1 /\ T[Len(s) + 1] = TicketOf(job)
      /\ \A i \in 1..Len(s) : T[i] = TicketOf(s[i])
  BY <1>2, TicketsType, AppendProperties
<1> HIDE DEF u
<1>4. S \in Seq(Spool!Ticket) /\ Len(S) = Len(s) + 1 /\ Len(s) \in Nat
      /\ \A i \in 1..(Len(s) + 1) : S[i] = TicketOf(u[i])
  BY <1>1, TicketsType
<1> HIDE DEF S, T
<1>5. \A i \in 1..(Len(s) + 1) : S[i] = T[i]
  BY <1>1, <1>3, <1>4
<1>6. S = T
  BY <1>3, <1>4, <1>5, SeqEqual
<1> QED BY <1>6 DEF S, T, u

LEMMA TailTickets ==
  ASSUME NEW s \in Seq(Job), s # <<>>
  PROVE  /\ Tickets(s) # <<>>
         /\ Head(Tickets(s)) = TicketOf(s[1])
         /\ Tail(Tickets(s)) = Tickets(Tail(s))
<1> DEFINE S == Tickets(s)
           T == Tickets(Tail(s))
<1>1. Len(s) \in Nat \ {0}
  BY EmptySeq
<1>2. /\ S \in Seq(Spool!Ticket) /\ Len(S) = Len(s)
      /\ \A i \in 1..Len(s) : S[i] = TicketOf(s[i])
  BY TicketsType
<1>3. /\ Tail(s) \in Seq(Job) /\ Len(Tail(s)) = Len(s) - 1
      /\ \A i \in 1..(Len(s) - 1) : Tail(s)[i] = s[i + 1]
  BY HeadTailProperties
<1>4. /\ T \in Seq(Spool!Ticket) /\ Len(T) = Len(s) - 1
      /\ \A i \in 1..(Len(s) - 1) : T[i] = TicketOf(Tail(s)[i])
  BY <1>3, TicketsType
<1> HIDE DEF S, T
<1>5. S # <<>>
  BY <1>1, <1>2, EmptySeq
<1>6. Head(S) = TicketOf(s[1])
  BY <1>1, <1>2, <1>5
<1>7. /\ Tail(S) \in Seq(Spool!Ticket) /\ Len(Tail(S)) = Len(s) - 1
      /\ \A i \in 1..(Len(s) - 1) : Tail(S)[i] = S[i + 1]
  BY <1>2, <1>5, HeadTailProperties
<1>8. \A i \in 1..(Len(s) - 1) : Tail(S)[i] = T[i]
  <2> TAKE i \in 1..(Len(s) - 1)
  <2>1. i + 1 \in 1..Len(s)
    BY <1>1
  <2> QED BY <2>1, <1>2, <1>3, <1>4, <1>7
<1>9. Tail(S) = T
  BY <1>4, <1>7, <1>8, SeqEqual
<1> QED BY <1>5, <1>6, <1>9 DEF S, T

LEMMA SpoolInit == Init => Spool!Init
<1> SUFFICES ASSUME Init PROVE Spool!Init
  OBVIOUS
<1>1. Tickets(<<>>) \in Seq(Spool!Ticket) /\ Len(Tickets(<<>>)) = 0
  BY TicketsType, EmptySeq
<1>2. Tickets(<<>>) = <<>>
  BY <1>1, EmptySeq
<1> QED BY <1>2 DEF Init, Spool!Init

LEMMA SpoolStep ==
  StateTypeOK /\ StateTypeOK' /\ JobsAreNumbered /\ Method => [Spool!Next]_(Spool!vars)
<1> SUFFICES ASSUME StateTypeOK, StateTypeOK', JobsAreNumbered, Method
             PROVE  [Spool!Next]_(Spool!vars)
  OBVIOUS
<1>0. /\ queue \in Seq(Job) /\ printed \in Seq(Job) /\ queue' \in Seq(Job)
  BY DEF StateTypeOK
<1>1. CASE Offline \/ Refill
  <2>1. UNCHANGED <<queue, printed>>
    BY <1>1 DEF Offline, Refill, ChangePaper, ChangeToner, Ready, PublicStatus, jobs
  <2> QED BY <2>1 DEF Spool!Next, Spool!Switch
<1>2. CASE Enqueue
  <2>1. PICK source \in Sources, pages \in PageCounts : EnqueueJob(source, pages)
    BY <1>2 DEF Enqueue
  <2> DEFINE job == [id |-> nextJobId, device |-> source, pages |-> pages, state |-> "queued"]
  <2>2. job \in Job /\ queue' = Append(queue, job) /\ source \in AllowedSources
        /\ UNCHANGED <<status, printed>> /\ status # "offline"
    BY <2>1 DEF EnqueueJob, Accepts, Job, StateTypeOK
  <2>3. nextJobId = FirstJobId + Len(Tickets(printed)) + Len(Tickets(queue))
    BY <1>0, TicketsType DEF JobsAreNumbered
  <2>4. TicketOf(job) = [id |-> FirstJobId + Len(Tickets(printed)) + Len(Tickets(queue)),
                         device |-> source, pages |-> pages]
    BY <2>3 DEF TicketOf
  <2> HIDE DEF job
  <2>5. Tickets(queue') = Append(Tickets(queue), TicketOf(job))
    BY <1>0, <2>2, AppendTickets
  <2>6. Spool!Accept(source, pages)
    BY <2>2, <2>4, <2>5 DEF Spool!Accept
  <2> QED BY <2>2, <2>6 DEF Spool!Next
<1>3. CASE PrintHead
  <2>1. /\ queue # <<>> /\ status # "offline" /\ status' # "offline"
        /\ queue' = Tail(queue) /\ printed' = Append(printed, queue[1])
    BY <1>3, UpdateKeepsOffline DEF PrintHead, CanPrint
  <2>2. queue[1] \in Job
    BY <2>1, HeadIsJob
  <2>3. /\ Tickets(queue) # <<>>
        /\ Tickets(queue') = Tail(Tickets(queue))
        /\ Tickets(printed') = Append(Tickets(printed), Head(Tickets(queue)))
    BY <1>0, <2>1, <2>2, TailTickets, AppendTickets
  <2> QED BY <2>1, <2>3 DEF Spool!Next, Spool!Deliver
<1>4. CASE RefuseHead
  <2>1. Tickets(queue') = Tickets(queue)
    <3>1. Len(queue) = Len(queue') /\ \A i \in 1..Len(queue) : TicketOf(queue[i]) = TicketOf(queue'[i])
      BY <1>0, <1>4, RefuseEffect, LenProperties DEF TicketOf
    <3> QED BY <1>0, <3>1, SameTickets
  <2>2. UNCHANGED printed /\ (status' # "offline" <=> status # "offline")
    BY <1>4 DEF RefuseHead
  <2> QED BY <2>1, <2>2 DEF Spool!vars
<1> QED BY <1>1, <1>2, <1>3, <1>4 DEF Method

\* A printer with its threads, its Event and its supplies behaves like the spool: each
\* accepted job is numbered in turn and comes out once, in order, and neither happens
\* while the printer is offline.
THEOREM PrinterIsSpool == Spec => SpoolSpec
<1>1. UNCHANGED state => UNCHANGED Spool!vars
  BY DEF state, jobs, Spool!vars
<1>2. TypeOK /\ TypeOK' /\ JobsAreNumbered /\ [Next]_vars => [Spool!Next]_(Spool!vars)
  BY <1>1, SpoolStep, StepIsMethod DEF TypeOK
<1> QED BY <1>2, SpoolInit, TypeCorrect, StateInvariant, PTL DEF Spec, SpoolSpec, Spool!Spec
=============================================================================
