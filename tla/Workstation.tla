----------------------------- MODULE Workstation -----------------------------
(***************************************************************************)
(* The workstations of one floor and their printer:                        *)
(* containers/workstation/workstation_api.py and workstation_service.py.   *)
(*                                                                         *)
(* Each workstation serves requests in threads.  A state request changes   *)
(* the kernel's interface, then its route, then the online flag, with      *)
(* nothing to keep two requests apart; a print request checks the flag,    *)
(* posts the job to the printer and takes the last job of the reply for    *)
(* its own.  The printer is the spool it implements (PrintSpool): a post   *)
(* reaches it some time after it was sent, even if the interface has gone  *)
(* down or the request given up since, and its reply may never arrive.     *)
(***************************************************************************)
EXTENDS Integers, Sequences, FiniteSets

CONSTANTS
  Workstations, Handlers,   \* hostnames; request slots of each workstation
  PageCounts, FirstJobId,   \* of the printer
  Failures,                 \* how an ip command can fail: subset of {"refused", "lost"}
  MaxJobs, MaxRequests      \* bounds: jobs accepted, requests of all workstations

ASSUME BoundAssumption == FirstJobId \in Nat /\ MaxJobs \in Nat /\ MaxRequests \in Nat

VARIABLES
  pending, output, printerOnline,   \* the spool
  link,         \* [Workstations -> BOOLEAN]: eth1 is up
  route,        \* [Workstations -> BOOLEAN]: the office route is there
  online,       \* WorkstationState.online
  handler,      \* [Workstations -> [Handlers -> record]]: where each thread is
  late,         \* workstations with a post under way whose request gave up (one at most)
  requests,     \* state and print requests so far
  clean,        \* history: the last state request to end was alone and succeeded
  replies       \* history: successful submissions, [own, reported] job numbers

spool == <<pending, output, printerOnline>>
eth1  == <<link, route>>
vars  == <<spool, eth1, online, handler, late, requests, clean, replies>>

Spool == INSTANCE PrintSpool WITH Sources <- Workstations, online <- printerOnline
-----------------------------------------------------------------------------
Idle == [at |-> "idle"]

Init ==
  /\ Spool!Init
  /\ link = [w \in Workstations |-> TRUE] /\ route = link /\ online = link
  /\ handler = [w \in Workstations |-> [h \in Handlers |-> Idle]]
  /\ late = {} /\ requests = 0
  /\ clean = [w \in Workstations |-> TRUE]
  /\ replies = {}

At(w, h, place)  == handler[w][h].at = place
Goes(w, h, to)   == handler' = [handler EXCEPT ![w][h] = to]
Moves(w, h, place) == Goes(w, h, [handler[w][h] EXCEPT !.at = place])

StatePlaces == {"link", "route", "flag"}
Switching(w) == {h \in Handlers : handler[w][h].at \in StatePlaces}
-----------------------------------------------------------------------------
(* POST /state/offline and /state/online *)

\* alone is history: no other state request of the workstation has been in flight with
\* this one.
StateBegins(w, h, enabled) ==
  /\ At(w, h, "idle") /\ requests < MaxRequests
  /\ requests' = requests + 1
  /\ handler' = [handler EXCEPT ![w] = [k \in Handlers |->
       IF k = h THEN [at |-> "link", enabled |-> enabled, alone |-> Switching(w) = {}]
       ELSE IF k \in Switching(w) THEN [@[k] EXCEPT !.alone = FALSE] ELSE @[k]]]
  /\ UNCHANGED <<spool, eth1, online, late, clean, replies>>

\* One ip command with its 2 s timeout: a failed one ends the request with a 503.
Command(w, h, linked, routed, next) ==
  \E outcome \in {"done"} \cup Failures :
    /\ link'  = IF outcome = "refused" THEN link  ELSE [link  EXCEPT ![w] = linked]
    /\ route' = IF outcome = "refused" THEN route ELSE [route EXCEPT ![w] = routed]
    /\ IF outcome = "done" THEN Moves(w, h, next) /\ UNCHANGED clean
       ELSE Goes(w, h, Idle) /\ clean' = [clean EXCEPT ![w] = FALSE]

\* ip link set; the kernel drops the routes of an interface that goes down.
SetsLink(w, h) ==
  LET enabled == handler[w][h].enabled IN
  /\ At(w, h, "link")
  /\ Command(w, h, enabled, enabled /\ route[w], IF enabled THEN "route" ELSE "flag")
  /\ UNCHANGED <<spool, online, late, requests, replies>>

\* Mutant of SetsRoute: the route is left to the kernel.
ExpectsRoute(w, h) ==
  /\ At(w, h, "route")
  /\ Moves(w, h, "flag")
  /\ UNCHANGED <<spool, eth1, online, late, requests, clean, replies>>

\* ip route replace, impossible on an interface that another request took down.
SetsRoute(w, h) ==
  /\ At(w, h, "route")
  /\ IF link[w] THEN Command(w, h, TRUE, TRUE, "flag")
     ELSE Goes(w, h, Idle) /\ clean' = [clean EXCEPT ![w] = FALSE] /\ UNCHANGED eth1
  /\ UNCHANGED <<spool, online, late, requests, replies>>

\* set_online or set_offline under the lock.
SetsFlag(w, h) ==
  /\ At(w, h, "flag")
  /\ online' = [online EXCEPT ![w] = handler[w][h].enabled]
  /\ clean' = [clean EXCEPT ![w] = handler[w][h].alone]
  /\ Goes(w, h, Idle)
  /\ UNCHANGED <<spool, eth1, late, requests, replies>>
-----------------------------------------------------------------------------
(* submit_print_job *)

\* require_online, or a 409 at once.
SubmitBegins(w, h) ==
  /\ At(w, h, "idle") /\ online[w] /\ requests < MaxRequests
  /\ requests' = requests + 1
  /\ Goes(w, h, [at |-> "send"])
  /\ UNCHANGED <<spool, eth1, online, late, clean, replies>>

\* Mutant of Sends: the job is posted over the management interface.
SendsAnyway(w, h) ==
  /\ At(w, h, "send")
  /\ Moves(w, h, "sent")
  /\ UNCHANGED <<spool, eth1, online, late, requests, clean, replies>>

\* The job leaves the workstation, if that still reaches the printer.
Sends(w, h) ==
  /\ At(w, h, "send") /\ link[w]
  /\ Moves(w, h, "sent")
  /\ UNCHANGED <<spool, eth1, online, late, requests, clean, replies>>

PrinterAccepts(w) ==
  /\ Len(pending) + Len(output) < MaxJobs
  /\ \E pages \in PageCounts : Spool!Accept(w, pages)

\* The post reaches the printer, whatever became of the workstation's interface.
Arrives(w, h) ==
  /\ At(w, h, "sent") /\ PrinterAccepts(w)
  /\ Goes(w, h, [at |-> "reply", own |-> FirstJobId + Len(pending) + Len(output)])
  /\ UNCHANGED <<eth1, online, late, requests, clean, replies>>

ArrivesLate(w) ==
  /\ w \in late /\ PrinterAccepts(w)
  /\ late' = late \ {w}
  /\ UNCHANGED <<eth1, online, handler, requests, clean, replies>>

\* The printer rejects the job (409), or no reply comes in time (503): the printer accepted
\* the job, or never will, or accepts it later.
SubmitFails(w, h) ==
  /\ At(w, h, "send") \/ At(w, h, "sent") \/ At(w, h, "reply")
  /\ Goes(w, h, Idle)
  /\ late' \in {late} \cup (IF At(w, h, "sent") THEN {late \cup {w}} ELSE {})
  /\ UNCHANGED <<spool, eth1, online, requests, clean, replies>>

\* Mutants of Reported: the job at the head of the queue; its place in the queue.
FirstReported == pending[1].id
PlaceReported == Len(pending)

\* printer["jobs"][-1]["id"]
Reported == pending[Len(pending)].id

\* The reply lists the jobs that still wait when it is made.
Replies(w, h) ==
  /\ At(w, h, "reply") /\ link[w] /\ pending # <<>>
  /\ replies' = replies \cup {[own |-> handler[w][h].own, reported |-> Reported]}
  /\ Goes(w, h, Idle)
  /\ UNCHANGED <<spool, eth1, online, late, requests, clean>>

\* No job waits any more: IndexError, which nothing catches, ends the thread.
RepliesEmpty(w, h) ==
  /\ At(w, h, "reply") /\ link[w] /\ pending = <<>>
  /\ Goes(w, h, Idle)
  /\ UNCHANGED <<spool, eth1, online, late, requests, clean, replies>>
-----------------------------------------------------------------------------
\* The printer prints a job or is switched.
PrinterStep ==
  /\ Spool!Deliver \/ Spool!Switch
  /\ UNCHANGED <<eth1, online, handler, late, requests, clean, replies>>

Next ==
  \/ \E w \in Workstations, h \in Handlers :
       \/ \E enabled \in BOOLEAN : StateBegins(w, h, enabled)
       \/ SetsLink(w, h) \/ SetsRoute(w, h) \/ SetsFlag(w, h)
       \/ SubmitBegins(w, h) \/ Sends(w, h) \/ Arrives(w, h) \/ SubmitFails(w, h)
       \/ Replies(w, h) \/ RepliesEmpty(w, h)
  \/ (\E w \in Workstations : ArrivesLate(w)) \/ PrinterStep

Spec == Init /\ [][Next]_vars
-----------------------------------------------------------------------------
(* Properties *)

Accepted == FirstJobId..(FirstJobId + Len(pending) + Len(output) - 1)

ThreadType ==
  {Idle} \cup [at : {"send", "sent"}]
    \cup [at : {"reply"}, own : Accepted]
    \cup [at : StatePlaces, enabled : BOOLEAN, alone : BOOLEAN]

\* A thread carries the fields of its place, and replies name jobs that were accepted.
TypeOK ==
  /\ {link, route, online, clean} \subseteq [Workstations -> BOOLEAN]
  /\ late \subseteq Workstations /\ requests \in 0..MaxRequests
  /\ handler \in [Workstations -> [Handlers -> ThreadType]]
  /\ replies \subseteq [own : Accepted, reported : Accepted]

\* One state request that runs alone and succeeds heals whatever failures and races left
\* behind: the flag, the interface and the route agree until the next request.
CleanRequestHeals ==
  \A w \in Workstations : clean[w] /\ Switching(w) = {} =>
    /\ online[w] <=> link[w]
    /\ online[w] => route[w]

\* Until state requests race or fail, a workstation marked offline sends no job, not even
\* one whose online check came before; a job that was sent before may still be accepted.
OfflineSendsNothing ==
  [][\A w \in Workstations, h \in Handlers :
       ~At(w, h, "sent") /\ At(w, h, "sent")' /\ clean[w] /\ Switching(w) = {} => online[w]]_vars

\* The number a workstation reports for its job is its own, or one given out later: the
\* jobs of others that arrive before the reply are taken for its own, older ones never.
ReportedJobIsNotOlder == \A reply \in replies : reply.reported >= reply.own
=============================================================================
