------------------------------- MODULE Printer -------------------------------
(***************************************************************************)
(* One printer container: PrinterState (containers/printer/                *)
(* printer_service.py) with the HTTP handler threads and the queue worker  *)
(* of printer_api.py.                                                      *)
(*                                                                         *)
(* Every PrinterState method runs under one RLock, so a method is one step *)
(* of its thread.  A handler thread takes up to four steps: the method,    *)
(* has_jobs, Event.set and the public_status of the reply.  The worker     *)
(* waits on the Event, clears it and prints until the queue is empty or a  *)
(* job is refused.  Texts of messages and of last_event are left out;      *)
(* which of the messages is shown is kept.                                 *)
(***************************************************************************)
EXTENDS Integers, Sequences

CONSTANTS
  Handlers,        \* request slots of ThreadingHTTPServer
  Sources,         \* hostnames a client may claim
  AllowedSources,  \* PrinterConfig.allowed_sources
  PageCounts,      \* legal page counts (1..15 in the code)
  MaxPaper,        \* MAX_PAPER
  InitialToner,    \* INITIAL_TONER
  FullToner,       \* the level replace_toner restores
  FirstJobId,      \* 1001 in the code
  MaxJobs          \* bound: jobs one behaviour may accept

ASSUME SourcesAssumption == AllowedSources \subseteq Sources
ASSUME SupplyAssumption ==
  /\ MaxPaper \in Nat \ {0}
  /\ FullToner \in Nat \ {0}
  /\ InitialToner \in 1..FullToner
  /\ InitialToner * 100 > FullToner * 75
ASSUME PageAssumption == PageCounts \subseteq 1..15
ASSUME JobIdAssumption == FirstJobId \in Nat /\ MaxJobs \in Nat

VARIABLES
  status,      \* status_name
  message,     \* which message public_status shows
  paper, toner,
  paperLevel, tonerLevel,
  queue,       \* waiting jobs, the head is printed next
  nextJobId,
  printed,     \* history: the jobs that came out, in order
  changed,     \* the Event the worker waits on
  worker,      \* where the worker thread is
  handler      \* where each handler thread is

supplies == <<paper, toner, paperLevel, tonerLevel>>
jobs     == <<queue, nextJobId, printed>>
state    == <<status, message, supplies, jobs>>
threads  == <<changed, worker, handler>>
vars     == <<state, threads>>
-----------------------------------------------------------------------------
Levels     == {"empty", "very_low", "low", "notice", "normal"}
Statuses   == {"ready", "attention", "offline"}
Complaints == {"paper_empty", "toner_empty", "insufficient_paper", "insufficient_toner"}
Messages   == Complaints \cup {"ready", "offline"}

\* get_level of amount as a percentage of full.
GetLevel(amount, full) ==
  IF amount <= 0 THEN "empty"
  ELSE IF amount * 100 <= full * 25 THEN "very_low"
  ELSE IF amount * 100 <= full * 50 THEN "low"
  ELSE IF amount * 100 <= full * 75 THEN "notice"
  ELSE "normal"

GetTonerUsage(pages) == IF pages <= 5 THEN 1 ELSE IF pages <= 10 THEN 2 ELSE 3

Job == [id : Int, device : AllowedSources, pages : PageCounts,
        state : {"queued", "failed"}]

\* Mutant of Printable: the toner is not looked at.
PrintableByPaper(job) == paper >= job.pages

\* complete_next_job has the sheets and the toner the job needs.
Printable(job) == paper >= job.pages /\ toner >= GetTonerUsage(job.pages)

\* The message _update_state arrives at when the printer is not offline.
Diagnosis(p, t, q) ==
  LET refused == q # <<>> /\ q[1].state = "failed" IN
  IF p <= 0 THEN "paper_empty"
  ELSE IF t <= 0 THEN "toner_empty"
  ELSE IF refused /\ p < q[1].pages THEN "insufficient_paper"
  ELSE IF refused /\ t < GetTonerUsage(q[1].pages) THEN "insufficient_toner"
  ELSE "ready"

\* _update_state after the assignments of the step: base is the status_name it
\* starts from.
UpdateState(base) ==
  /\ paperLevel' = GetLevel(paper', MaxPaper)
  /\ tonerLevel' = GetLevel(toner', FullToner)
  /\ message' = IF base = "offline" THEN "offline" ELSE Diagnosis(paper', toner', queue')
  /\ status' = IF base = "offline" THEN "offline"
               ELSE IF message' = "ready" THEN "ready"
               ELSE "attention"

Init ==
  /\ status = "ready" /\ message = "ready"
  /\ paper = MaxPaper /\ toner = InitialToner
  /\ paperLevel = "normal" /\ tonerLevel = "normal"
  /\ queue = <<>> /\ nextJobId = FirstJobId /\ printed = <<>>
  /\ changed = FALSE
  /\ worker = "wait"
  /\ handler = [h \in Handlers |-> "idle"]
-----------------------------------------------------------------------------
(* PrinterState methods *)

Offline ==
  /\ status' = "offline" /\ message' = "offline"
  /\ UNCHANGED <<supplies, jobs>>

Ready ==
  /\ UNCHANGED <<paper, toner, jobs>>
  /\ UpdateState("ready")

\* Emptying keeps an offline printer offline; refilling first forgets the
\* attention status, which _update_state then decides anew.
ChangePaper(amount, base) ==
  /\ paper' = amount
  /\ UNCHANGED <<toner, jobs>>
  /\ UpdateState(base)

ChangeToner(amount, base) ==
  /\ toner' = amount
  /\ UNCHANGED <<paper, jobs>>
  /\ UpdateState(base)

Refilled == IF status = "offline" THEN "offline" ELSE "ready"

PublicStatus ==
  /\ UNCHANGED <<paper, toner, jobs>>
  /\ UpdateState(status)

\* Mutant of Accepts: an offline printer keeps taking jobs.
AcceptsOffline(source) == source \in AllowedSources

Accepts(source) == source \in AllowedSources /\ status # "offline"

\* Mutant of EnqueueJob: numbers jobs by the length of the queue.
EnqueueByLength(source, pages) ==
  /\ Accepts(source)
  /\ nextJobId < FirstJobId + MaxJobs
  /\ queue' = Append(queue, [id |-> FirstJobId + Len(queue), device |-> source,
                             pages |-> pages, state |-> "queued"])
  /\ nextJobId' = nextJobId + 1
  /\ UNCHANGED <<status, message, supplies, printed>>

EnqueueJob(source, pages) ==
  /\ Accepts(source)
  /\ nextJobId < FirstJobId + MaxJobs
  /\ queue' = Append(queue, [id |-> nextJobId, device |-> source, pages |-> pages,
                             state |-> "queued"])
  /\ nextJobId' = nextJobId + 1
  /\ UNCHANGED <<status, message, supplies, printed>>

CanPrint == status # "offline" /\ queue # <<>> /\ Printable(queue[1])

\* Mutant of PrintHead: prints without the closing _update_state.
PrintWithoutUpdate ==
  /\ CanPrint
  /\ paper' = paper - queue[1].pages
  /\ toner' = toner - GetTonerUsage(queue[1].pages)
  /\ queue' = Tail(queue)
  /\ printed' = Append(printed, queue[1])
  /\ UNCHANGED <<nextJobId, status, message, paperLevel, tonerLevel>>

\* complete_next_job when it returns the job.
PrintHead ==
  /\ CanPrint
  /\ paper' = paper - queue[1].pages
  /\ toner' = toner - GetTonerUsage(queue[1].pages)
  /\ queue' = Tail(queue)
  /\ printed' = Append(printed, queue[1])
  /\ UNCHANGED nextJobId
  /\ UpdateState(status)

\* Mutant of RefuseHead: every refusal blames the paper.
RefuseForPaper ==
  /\ ~CanPrint /\ status # "offline" /\ queue # <<>>
  /\ UNCHANGED <<supplies, nextJobId, printed>>
  /\ queue' = [queue EXCEPT ![1].state = "failed"]
  /\ status' = "attention" /\ message' = "insufficient_paper"

\* complete_next_job when it raises: offline and empty change nothing here, a
\* job short of paper or toner is marked and the printer asks for attention.
RefuseHead ==
  /\ ~CanPrint
  /\ UNCHANGED <<supplies, nextJobId, printed>>
  /\ \/ /\ status = "offline" \/ queue = <<>>
        /\ UNCHANGED <<status, message, queue>>
     \/ /\ status # "offline" /\ queue # <<>>
        /\ queue' = [queue EXCEPT ![1].state = "failed"]
        /\ status' = "attention"
        /\ message' = IF paper < queue[1].pages THEN "insufficient_paper"
                                                ELSE "insufficient_toner"
-----------------------------------------------------------------------------
(* PrinterHandler: one request of thread h *)

Goto(h, place) == handler' = [handler EXCEPT ![h] = place]

\* Mutant of Begin: no route wakes the worker.
BeginAsleep(h, wake) ==
  /\ handler[h] = "idle"
  /\ Goto(h, "reply")
  /\ UNCHANGED <<changed, worker>>

\* action(callback, wake) up to the end of the callback.
Begin(h, wake) ==
  /\ handler[h] = "idle"
  /\ Goto(h, IF wake THEN "check" ELSE "reply")
  /\ UNCHANGED <<changed, worker>>

SetOffline(h)   == Begin(h, FALSE) /\ Offline
SetReady(h)     == Begin(h, TRUE)  /\ Ready
EmptyPaper(h)   == Begin(h, FALSE) /\ ChangePaper(0, status)
RefillPaper(h)  == Begin(h, TRUE)  /\ ChangePaper(MaxPaper, Refilled)
EmptyToner(h)   == Begin(h, FALSE) /\ ChangeToner(0, status)
ReplaceToner(h) == Begin(h, TRUE)  /\ ChangeToner(FullToner, Refilled)
CompleteJob(h)  == Begin(h, TRUE)  /\ PrintHead
CompleteFails(h) == Begin(h, FALSE) /\ RefuseHead

\* GET /status, and a request refused before it reaches the printer's state
\* (no JSON object, no page count from 1 to 15).
GetStatus(h)    == Begin(h, FALSE) /\ UNCHANGED state

AddJob(h, source, pages) ==
  /\ handler[h] = "idle"
  /\ EnqueueJob(source, pages)
  /\ Goto(h, "set")
  /\ UNCHANGED <<changed, worker>>

RejectJob(h, source) ==
  /\ ~Accepts(source)
  /\ Begin(h, FALSE)
  /\ UNCHANGED state

\* if wake and printer.has_jobs()
CheckQueue(h) ==
  /\ handler[h] = "check"
  /\ Goto(h, IF queue # <<>> THEN "set" ELSE "reply")
  /\ UNCHANGED <<state, changed, worker>>

SetChanged(h) ==
  /\ handler[h] = "set"
  /\ changed' = TRUE
  /\ Goto(h, "reply")
  /\ UNCHANGED <<state, worker>>

Reply(h) ==
  /\ handler[h] = "reply"
  /\ PublicStatus
  /\ Goto(h, "idle")
  /\ UNCHANGED <<changed, worker>>

Continue(h) == CheckQueue(h) \/ SetChanged(h) \/ Reply(h)

Request(h) ==
  \/ SetOffline(h) \/ SetReady(h)
  \/ EmptyPaper(h) \/ RefillPaper(h)
  \/ EmptyToner(h) \/ ReplaceToner(h)
  \/ CompleteJob(h) \/ CompleteFails(h)
  \/ GetStatus(h)
  \/ \E source \in Sources :
       \/ RejectJob(h, source)
       \/ \E pages \in PageCounts : AddJob(h, source, pages)
-----------------------------------------------------------------------------
(* process_print_queue *)

WorkerWakes ==
  /\ worker = "wait" /\ changed
  /\ worker' = "clear"
  /\ UNCHANGED <<state, changed, handler>>

WorkerClears ==
  /\ worker = "clear"
  /\ changed' = FALSE
  /\ worker' = "test"
  /\ UNCHANGED <<state, handler>>

WorkerTests ==
  /\ worker = "test"
  /\ worker' = IF queue # <<>> THEN "print" ELSE "wait"
  /\ UNCHANGED <<state, changed, handler>>

\* Mutant of WorkerPrints: one job for each wake-up.
WorkerPrintsOne ==
  /\ worker = "print"
  /\ PrintHead
  /\ worker' = "wait"
  /\ UNCHANGED <<changed, handler>>

\* After time.sleep(2): the queue may have changed since WorkerTests.
WorkerPrints ==
  /\ worker = "print"
  /\ PrintHead
  /\ worker' = "test"
  /\ UNCHANGED <<changed, handler>>

WorkerRefused ==
  /\ worker = "print"
  /\ RefuseHead
  /\ worker' = "wait"
  /\ UNCHANGED <<changed, handler>>

Worker == WorkerWakes \/ WorkerClears \/ WorkerTests \/ WorkerPrints \/ WorkerRefused

Next == Worker \/ \E h \in Handlers : Request(h) \/ Continue(h)

Spec == Init /\ [][Next]_vars

\* Threads keep running: the worker and a handler that is in the middle of a
\* request take their next step.  Nobody is obliged to send a request.
Fairness == WF_vars(Worker) /\ \A h \in Handlers : WF_vars(Continue(h))

FairSpec == Spec /\ Fairness
-----------------------------------------------------------------------------
(* Properties *)

StateTypeOK ==
  /\ status \in Statuses
  /\ message \in Messages
  /\ paper \in 0..MaxPaper /\ toner \in 0..FullToner
  /\ paperLevel \in Levels /\ tonerLevel \in Levels
  /\ queue \in Seq(Job)
  /\ printed \in Seq(Job)
  /\ nextJobId \in Nat

ThreadTypeOK ==
  /\ changed \in BOOLEAN
  /\ worker \in {"wait", "clear", "test", "print"}
  /\ handler \in [Handlers -> {"idle", "check", "set", "reply"}]

\* Every variable keeps its type; supplies never go below zero or above full.
TypeOK == StateTypeOK /\ ThreadTypeOK

\* No lost wake-up: while the worker sleeps on an Event nobody has set, either
\* there is nothing it could print or some handler is still on its way to set
\* the Event (process_print_queue against action and add_job).
NoLostWakeup ==
  CanPrint /\ worker = "wait" /\ ~changed =>
    \E h \in Handlers : handler[h] \in {"check", "set"}

\* A printer that is not offline asks for attention exactly when a supply is out
\* or its head job has failed and still lacks paper or toner, whichever methods
\* ran before and although add_job and set_offline skip _update_state.
AttentionIsJustified ==
  status # "offline" =>
    (status = "attention" <=>
      \/ paper = 0
      \/ toner = 0
      \/ queue # <<>> /\ queue[1].state = "failed" /\ ~Printable(queue[1]))

\* The message always names a complaint that is true now.
MessageIsTrue ==
  /\ message = "offline" <=> status = "offline"
  /\ message = "ready" <=> status = "ready"
  /\ message = "paper_empty" => paper = 0
  /\ message = "toner_empty" => toner = 0
  /\ message = "insufficient_paper" => queue # <<>> /\ paper < queue[1].pages
  /\ message = "insufficient_toner" =>
       queue # <<>> /\ toner < GetTonerUsage(queue[1].pages)

\* The published levels are those of the present supplies, also while offline.
LevelsAreCurrent ==
  /\ paperLevel = GetLevel(paper, MaxPaper)
  /\ tonerLevel = GetLevel(toner, FullToner)

\* Only the job whose turn it is can have failed: a refused job is never
\* overtaken, and no job behind it is marked.
OnlyHeadFails == \A i \in DOMAIN queue : queue[i].state = "failed" => i = 1

\* Job numbers are consecutive through the output and the queue: none is
\* skipped, lost or reused.
JobsAreNumbered ==
  /\ nextJobId = FirstJobId + Len(printed) + Len(queue)
  /\ \A i \in DOMAIN printed : printed[i].id = FirstJobId + i - 1
  /\ \A i \in DOMAIN queue : queue[i].id = FirstJobId + Len(printed) + i - 1

\* The printer implements the spool it promises.
TicketOf(job) == [id |-> job.id, device |-> job.device, pages |-> job.pages]
Tickets(s) == [i \in DOMAIN s |-> TicketOf(s[i])]

Spool == INSTANCE PrintSpool WITH
  Sources <- AllowedSources,
  pending <- Tickets(queue),
  output  <- Tickets(printed),
  online  <- status # "offline"

SpoolSpec == Spool!Spec

\* A head job that stays printable does not wait for ever: it is printed, or the
\* printer goes offline, or its supplies are taken away.
HeadIsPrinted ==
  \A id \in FirstJobId..(FirstJobId + MaxJobs - 1) :
    (CanPrint /\ queue[1].id = id) ~> ~(CanPrint /\ queue[1].id = id)
=============================================================================
