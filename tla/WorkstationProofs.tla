-------------------------- MODULE WorkstationProofs --------------------------
(***************************************************************************)
(* Theorems about Workstation, for every number of workstations, threads,  *)
(* jobs and requests, and every way an ip command may fail.  The           *)
(* printer's side (Numbered) is proved over the steps of the spool; the    *)
(* workstation's side (Heals) workstation by workstation, as no step of    *)
(* one touches another.                                                    *)
(***************************************************************************)
EXTENDS Workstation, SequenceTheorems, TLAPS

\* The waiting jobs carry the next numbers after those of the printed ones.
Numbered ==
  /\ pending \in Seq(Spool!Ticket) /\ output \in Seq(Spool!Ticket)
  /\ \A i \in 1..Len(pending) : pending[i].id = FirstJobId + Len(output) + i - 1

\* The flag, the interface and the route agree.
Agree(w) == (online[w] <=> link[w]) /\ (online[w] => route[w])

\* A state request that is alone is the only one, and the commands it has been through
\* have taken effect.
Effective(w, h) ==
  handler[w][h].at \in StatePlaces /\ handler[w][h].alone =>
    /\ Switching(w) = {h}
    /\ handler[w][h].at = "route" => handler[w][h].enabled /\ link[w]
    /\ handler[w][h].at = "flag" => /\ link[w] <=> handler[w][h].enabled
                                    /\ handler[w][h].enabled => route[w]

Heals(w) ==
  /\ clean[w] /\ Switching(w) = {} => Agree(w)
  /\ \A h \in Handlers : Effective(w, h)

IInv ==
  /\ TypeOK /\ Numbered /\ ReportedJobIsNotOlder
  /\ \A w \in Workstations : Heals(w)
-----------------------------------------------------------------------------
(* Threads *)

StateThread == [at : StatePlaces, enabled : BOOLEAN, alone : BOOLEAN]
ReplyThread == [at : {"reply"}, own : Accepted]

\* What a thread carries follows from where it is.
LEMMA ThreadAt ==
  ASSUME NEW q \in ThreadType
  PROVE  /\ q.at \in StatePlaces => q \in StateThread
         /\ q.at = "reply" => q \in ReplyThread
         /\ q.at \in {"idle", "send", "sent", "reply"} => q.at \notin StatePlaces
BY DEF ThreadType, Idle, StateThread, ReplyThread, StatePlaces

LEMMA ThreadTypes ==
  /\ Idle \in ThreadType /\ [at : {"send", "sent"}] \subseteq ThreadType
  /\ StateThread \subseteq ThreadType /\ ReplyThread \subseteq ThreadType
  /\ Idle.at \notin StatePlaces /\ \A q \in [at : {"send", "sent"}] : q.at \notin StatePlaces
BY DEF ThreadType, Idle, StateThread, ReplyThread, StatePlaces

\* A thread that goes from one place to another: who is switching afterwards.
LEMMA GoesEffect ==
  ASSUME TypeOK, NEW w \in Workstations, NEW h \in Handlers, NEW to, Goes(w, h, to)
  PROVE  /\ handler'[w][h] = to
         /\ \A k \in Handlers : k # h => handler'[w][k] = handler[w][k]
         /\ \A x \in Workstations : x # w => handler'[x] = handler[x]
         /\ Switching(w)' = IF to.at \in StatePlaces THEN Switching(w) \cup {h}
                                                     ELSE Switching(w) \ {h}
<1>1. handler \in [Workstations -> [Handlers -> ThreadType]]
  BY DEF TypeOK
<1>2. /\ handler'[w][h] = to
      /\ \A k \in Handlers : k # h => handler'[w][k] = handler[w][k]
      /\ \A x \in Workstations : x # w => handler'[x] = handler[x]
  BY <1>1 DEF Goes
<1> QED BY <1>2 DEF Switching

LEMMA GoesType ==
  ASSUME TypeOK, Accepted \subseteq Accepted', NEW w \in Workstations, NEW h \in Handlers,
         NEW to \in ThreadType', Goes(w, h, to)
  PROVE  handler' \in [Workstations -> [Handlers -> ThreadType']]
<1>1. ThreadType \subseteq ThreadType'
  BY DEF ThreadType, Idle
<1>2. handler \in [Workstations -> [Handlers -> ThreadType']]
  BY <1>1 DEF TypeOK
<1> QED BY <1>2 DEF Goes
-----------------------------------------------------------------------------
(* The spool *)

\* A step that leaves the spool alone.
LEMMA SpoolKept == Numbered /\ UNCHANGED spool => Numbered' /\ Accepted' = Accepted
BY DEF Numbered, spool, Accepted

\* An accepted job has the number that follows all others.
LEMMA AcceptStep ==
  ASSUME Numbered, NEW w \in Workstations, NEW pages \in PageCounts, Spool!Accept(w, pages)
  PROVE  /\ Numbered' /\ Accepted \subseteq Accepted'
         /\ FirstJobId + Len(pending) + Len(output) \in Accepted'
         /\ Len(pending') > Len(pending) /\ pending'[Len(pending')].device = w
<1> DEFINE job == [id |-> FirstJobId + Len(output) + Len(pending), device |-> w, pages |-> pages]
<1> USE BoundAssumption
<1>1. Len(pending) \in Nat /\ Len(output) \in Nat
  BY LenProperties DEF Numbered
<1>2. /\ job \in Spool!Ticket /\ job.id = FirstJobId + Len(output) + Len(pending) /\ job.device = w
      /\ pending' = Append(pending, job) /\ output' = output
  BY <1>1 DEF Spool!Accept, Spool!Ticket
<1> HIDE DEF job
<1>3. /\ pending' \in Seq(Spool!Ticket) /\ Len(pending') = Len(pending) + 1
      /\ \A i \in 1..Len(pending) : pending'[i] = pending[i]
      /\ pending'[Len(pending) + 1] = job
  BY <1>2, AppendProperties DEF Numbered
<1>4. ASSUME NEW i \in 1..Len(pending') PROVE pending'[i].id = FirstJobId + Len(output') + i - 1
  <2>1. CASE i \in 1..Len(pending)
    BY <1>2, <1>3, <2>1 DEF Numbered
  <2>2. CASE i = Len(pending) + 1
    BY <1>1, <1>2, <1>3, <2>2
  <2> QED BY <1>1, <1>3, <2>1, <2>2
<1>5. Numbered'
  BY <1>2, <1>3, <1>4 DEF Numbered
<1>6. Accepted \subseteq Accepted' /\ FirstJobId + Len(pending) + Len(output) \in Accepted'
  BY <1>1, <1>2, <1>3 DEF Accepted
<1> QED BY <1>1, <1>2, <1>3, <1>5, <1>6

\* A printed job keeps its number and leaves the queue.
LEMMA DeliverStep ==
  ASSUME Numbered, Spool!Deliver
  PROVE  Numbered' /\ Accepted' = Accepted /\ Len(pending') < Len(pending)
<1> USE BoundAssumption
<1>1. /\ pending # <<>> /\ pending \in Seq(Spool!Ticket) /\ output \in Seq(Spool!Ticket)
      /\ output' = Append(output, Head(pending)) /\ pending' = Tail(pending)
  BY DEF Spool!Deliver, Numbered
<1>2. /\ Len(pending) \in Nat \ {0} /\ Len(output) \in Nat /\ Head(pending) \in Spool!Ticket
      /\ Tail(pending) \in Seq(Spool!Ticket) /\ Len(Tail(pending)) = Len(pending) - 1
      /\ \A i \in 1..Len(Tail(pending)) : Tail(pending)[i] = pending[i + 1]
  BY <1>1, EmptySeq, LenProperties, HeadTailProperties
<1>3. output' \in Seq(Spool!Ticket) /\ Len(output') = Len(output) + 1
  BY <1>1, <1>2, AppendProperties
<1>4. ASSUME NEW i \in 1..Len(pending') PROVE pending'[i].id = FirstJobId + Len(output') + i - 1
  <2>1. pending'[i] = pending[i + 1] /\ i + 1 \in 1..Len(pending)
    BY <1>1, <1>2
  <2>2. pending[i + 1].id = FirstJobId + Len(output) + (i + 1) - 1
    BY <2>1 DEF Numbered
  <2> QED BY <1>1, <1>2, <1>3, <2>1, <2>2
<1> QED BY <1>1, <1>2, <1>3, <1>4 DEF Numbered, Accepted

\* The last waiting job has the highest number given out so far.
LEMMA LastIsNewest ==
  ASSUME Numbered, pending # <<>>
  PROVE  Reported \in Accepted /\ \A own \in Accepted : Reported >= own
<1> USE BoundAssumption
<1>1. Len(pending) \in Nat \ {0} /\ Len(output) \in Nat
  BY EmptySeq, LenProperties DEF Numbered
<1>2. Reported = FirstJobId + Len(output) + Len(pending) - 1
  BY <1>1 DEF Numbered, Reported
<1> QED BY <1>1, <1>2 DEF Accepted
-----------------------------------------------------------------------------
(* A workstation *)

\* A step that does not concern workstation w.
LEMMA Elsewhere ==
  ASSUME NEW w \in Workstations, Heals(w), handler'[w] = handler[w], link'[w] = link[w],
         route'[w] = route[w], online'[w] = online[w], clean'[w] = clean[w]
  PROVE  Heals(w)'
BY DEF Heals, Effective, Agree, Switching

\* A print request moves on: no state request does.
LEMMA PrintMoves ==
  ASSUME TypeOK, NEW w \in Workstations, NEW h \in Handlers, Heals(w), h \notin Switching(w),
         NEW to, to.at \notin StatePlaces, Goes(w, h, to), UNCHANGED <<eth1, online, clean>>
  PROVE  Heals(w)'
<1>1. Switching(w)' = Switching(w)
  BY GoesEffect
<1>2. ASSUME NEW k \in Handlers PROVE Effective(w, k)'
  <2>1. CASE k = h
    BY <2>1, GoesEffect DEF Effective
  <2>2. CASE k # h
    BY <1>1, <2>2, GoesEffect DEF Effective, Heals, eth1
  <2> QED BY <2>1, <2>2
<1> QED BY <1>1, <1>2 DEF Heals, Agree, eth1

\* A state request ends without having been alone, or fails: nothing is promised.
LEMMA StateEnds ==
  ASSUME TypeOK, NEW w \in Workstations, NEW h \in Switching(w), Heals(w),
         Goes(w, h, Idle), ~clean'[w]
  PROVE  Heals(w)'
<1>1. h \in Handlers /\ handler[w][h].at \in StatePlaces
  BY DEF Switching
<1>2. ASSUME NEW k \in Handlers PROVE Effective(w, k)'
  <2>1. CASE k = h
    BY <2>1, ThreadTypes, GoesEffect DEF Effective
  <2>2. CASE k # h
    <3>1. handler'[w][k] = handler[w][k]
      BY <1>1, <2>2, GoesEffect
    <3> QED BY <2>2, <3>1 DEF Effective, Heals
  <2> QED BY <2>1, <2>2
<1> QED BY <1>2 DEF Heals

\* A state request goes on to its next command.
LEMMA StateGoesOn ==
  ASSUME TypeOK, NEW w \in Workstations, NEW h \in Switching(w), Heals(w),
         NEW next \in StatePlaces, Moves(w, h, next),
         handler[w][h].alone /\ next = "route" => handler[w][h].enabled /\ link'[w],
         handler[w][h].alone /\ next = "flag" =>
           (link'[w] <=> handler[w][h].enabled) /\ (handler[w][h].enabled => route'[w])
  PROVE  Heals(w)'
<1> DEFINE to == [handler[w][h] EXCEPT !.at = next]
<1>1. h \in Handlers /\ handler[w][h].at \in StatePlaces /\ handler[w][h] \in ThreadType
  BY DEF Switching, TypeOK
<1>2. handler[w][h] \in StateThread
  BY <1>1, ThreadAt
<1>3. to.at = next /\ to.enabled = handler[w][h].enabled /\ to.alone = handler[w][h].alone
  BY <1>2 DEF StateThread
<1>4. Goes(w, h, to)
  BY DEF Moves
<1> HIDE DEF to
<1>5. Switching(w)' = Switching(w)
  BY <1>1, <1>3, <1>4, GoesEffect
<1>6. handler'[w][h] = to /\ \A k \in Handlers : k # h => handler'[w][k] = handler[w][k]
  BY <1>1, <1>4, GoesEffect
<1>7. ASSUME NEW k \in Handlers PROVE Effective(w, k)'
  <2>1. CASE k = h
    BY <1>1, <1>3, <1>5, <1>6, <2>1 DEF Effective, Heals
  <2>2. CASE k # h
    BY <1>6, <2>2 DEF Effective, Heals
  <2> QED BY <2>1, <2>2
<1> QED BY <1>5, <1>7 DEF Heals

\* One ip command of a state request, done or failed.
LEMMA CommandHeals ==
  ASSUME TypeOK, NEW w \in Workstations, NEW h \in Switching(w), Heals(w),
         NEW linked \in BOOLEAN, NEW routed \in BOOLEAN, NEW next \in StatePlaces,
         Command(w, h, linked, routed, next),
         handler[w][h].alone /\ next = "route" => handler[w][h].enabled /\ linked,
         handler[w][h].alone /\ next = "flag" =>
           (linked <=> handler[w][h].enabled) /\ (handler[w][h].enabled => routed)
  PROVE  Heals(w)'
<1>1. PICK outcome \in {"done"} \cup Failures :
        /\ link'  = IF outcome = "refused" THEN link  ELSE [link  EXCEPT ![w] = linked]
        /\ route' = IF outcome = "refused" THEN route ELSE [route EXCEPT ![w] = routed]
        /\ IF outcome = "done" THEN Moves(w, h, next) /\ UNCHANGED clean
           ELSE Goes(w, h, Idle) /\ clean' = [clean EXCEPT ![w] = FALSE]
  BY DEF Command
<1>2. CASE outcome = "done"
  <2>1. link'[w] = linked /\ route'[w] = routed /\ Moves(w, h, next)
    BY <1>1, <1>2 DEF TypeOK
  <2> QED BY <2>1, StateGoesOn
<1>3. CASE outcome # "done"
  <2>1. Goes(w, h, Idle) /\ ~clean'[w]
    BY <1>1, <1>3 DEF TypeOK
  <2> QED BY <2>1, StateEnds
<1> QED BY <1>2, <1>3

\* What a command leaves alone: the other workstations, and the types.
LEMMA CommandFrame ==
  ASSUME TypeOK, NEW w \in Workstations, NEW h \in Switching(w),
         NEW linked \in BOOLEAN, NEW routed \in BOOLEAN, NEW next \in StatePlaces,
         Command(w, h, linked, routed, next), Accepted \subseteq Accepted'
  PROVE  /\ \A x \in Workstations : x # w =>
              /\ handler'[x] = handler[x] /\ link'[x] = link[x]
              /\ route'[x] = route[x] /\ clean'[x] = clean[x]
         /\ {link', route', clean'} \subseteq [Workstations -> BOOLEAN]
         /\ handler' \in [Workstations -> [Handlers -> ThreadType']]
<1>1. PICK outcome \in {"done"} \cup Failures :
        /\ link'  = IF outcome = "refused" THEN link  ELSE [link  EXCEPT ![w] = linked]
        /\ route' = IF outcome = "refused" THEN route ELSE [route EXCEPT ![w] = routed]
        /\ IF outcome = "done" THEN Moves(w, h, next) /\ UNCHANGED clean
           ELSE Goes(w, h, Idle) /\ clean' = [clean EXCEPT ![w] = FALSE]
  BY DEF Command
<1>2. /\ {link', route', clean'} \subseteq [Workstations -> BOOLEAN]
      /\ \A x \in Workstations : x # w =>
           link'[x] = link[x] /\ route'[x] = route[x] /\ clean'[x] = clean[x]
  BY <1>1 DEF TypeOK
<1>3. h \in Handlers /\ handler[w][h] \in StateThread
  BY ThreadAt DEF Switching, TypeOK
<1>4. [handler[w][h] EXCEPT !.at = next] \in StateThread
  BY <1>3 DEF StateThread
<1>5. StateThread \subseteq ThreadType' /\ Idle \in ThreadType'
  BY DEF ThreadType, StateThread
<1>6. PICK to \in ThreadType' : Goes(w, h, to)
  BY <1>1, <1>4, <1>5 DEF Moves
<1> QED BY <1>2, <1>3, <1>6, GoesEffect, GoesType

\* A state request begins: nobody is alone with it any more.
LEMMA BeginHeals ==
  ASSUME TypeOK, NEW w \in Workstations, NEW h \in Handlers, NEW enabled \in BOOLEAN,
         StateBegins(w, h, enabled), Heals(w)
  PROVE  /\ Heals(w)'
         /\ \A x \in Workstations : x # w => handler'[x] = handler[x]
         /\ handler' \in [Workstations -> [Handlers -> ThreadType]]
<1> DEFINE q == [at |-> "link", enabled |-> enabled, alone |-> Switching(w) = {}]
<1>1. handler \in [Workstations -> [Handlers -> ThreadType]]
  BY DEF TypeOK
<1>2. /\ handler'[w] = [k \in Handlers |-> IF k = h THEN q
                          ELSE IF k \in Switching(w) THEN [handler[w][k] EXCEPT !.alone = FALSE]
                          ELSE handler[w][k]]
      /\ \A x \in Workstations : x # w => handler'[x] = handler[x]
      /\ DOMAIN handler' = Workstations /\ handler' = [x \in Workstations |-> handler'[x]]
  BY <1>1 DEF StateBegins
<1>3. q \in StateThread /\ q.at = "link" /\ (q.alone <=> Switching(w) = {})
  BY DEF StateThread, StatePlaces
<1> HIDE DEF q
<1>4. ASSUME NEW k \in Switching(w)
      PROVE  LET p == [handler[w][k] EXCEPT !.alone = FALSE] IN
             p \in StateThread /\ p.at = handler[w][k].at /\ ~p.alone /\ k \in Handlers
  <2>1. handler[w][k] \in StateThread /\ k \in Handlers
    BY <1>1, ThreadAt DEF Switching
  <2> QED BY <2>1 DEF StateThread
<1>5. handler'[w] \in [Handlers -> ThreadType]
  BY <1>1, <1>2, <1>3, <1>4, ThreadTypes
<1>6. handler' \in [Workstations -> [Handlers -> ThreadType]]
  BY <1>1, <1>2, <1>5
<1>7. Switching(w)' = Switching(w) \cup {h}
  <2>1. q.at \in StatePlaces
    BY <1>3 DEF StatePlaces
  <2>2. \A k \in Handlers : handler'[w][k].at \in StatePlaces <=> k = h \/ k \in Switching(w)
    BY <1>2, <1>4, <2>1 DEF Switching
  <2> QED BY <2>2 DEF Switching
<1>8. ASSUME NEW k \in Handlers PROVE Effective(w, k)'
  <2>1. CASE k = h
    BY <1>2, <1>3, <1>7, <2>1 DEF Effective, StatePlaces
  <2>2. CASE k # h /\ k \in Switching(w)
    BY <1>2, <1>4, <2>2 DEF Effective
  <2>3. CASE k # h /\ k \notin Switching(w)
    BY <1>2, <2>3 DEF Effective, Switching
  <2> QED BY <2>1, <2>2, <2>3
<1> QED BY <1>2, <1>6, <1>7, <1>8 DEF Heals

\* The flag is set: of a request that was alone, the whole of it has taken effect.
LEMMA FlagHeals ==
  ASSUME TypeOK, NEW w \in Workstations, NEW h \in Handlers, SetsFlag(w, h), Heals(w)
  PROVE  Heals(w)'
<1>1. /\ h \in Switching(w) /\ handler[w][h].at = "flag" /\ Goes(w, h, Idle)
      /\ link' = link /\ route' = route
      /\ online'[w] = handler[w][h].enabled /\ clean'[w] = handler[w][h].alone
  BY DEF SetsFlag, At, Switching, StatePlaces, TypeOK, eth1
<1>2. CASE handler[w][h].alone
  <2>1. /\ Switching(w) = {h} /\ (link[w] <=> handler[w][h].enabled)
        /\ handler[w][h].enabled => route[w]
    BY <1>1, <1>2 DEF Heals, Effective, StatePlaces
  <2>2. Agree(w)'
    BY <1>1, <2>1 DEF Agree
  <2>3. \A k \in Handlers : handler'[w][k].at \notin StatePlaces
    BY <1>1, <2>1, GoesEffect, ThreadTypes DEF Switching
  <2> QED BY <2>2, <2>3 DEF Heals, Effective
<1>3. CASE ~handler[w][h].alone
  BY <1>1, <1>3, StateEnds
<1> QED BY <1>2, <1>3
-----------------------------------------------------------------------------
(* Steps *)

\* The state requests of workstation w, and the print requests.
StateStep(w, h) ==
  \/ \E enabled \in BOOLEAN : StateBegins(w, h, enabled)
  \/ SetsLink(w, h) \/ SetsRoute(w, h) \/ SetsFlag(w, h)

PrintStep(w, h) ==
  \/ SubmitBegins(w, h) \/ Sends(w, h) \/ Arrives(w, h) \/ SubmitFails(w, h)
  \/ Replies(w, h) \/ RepliesEmpty(w, h)

StateTypes ==
  /\ {link', route', online', clean'} \subseteq [Workstations -> BOOLEAN]
  /\ requests' \in 0..MaxRequests
  /\ handler' \in [Workstations -> [Handlers -> ThreadType]]

LEMMA StateStepSound ==
  ASSUME TypeOK, NEW w \in Workstations, NEW h \in Handlers, StateStep(w, h),
         \A x \in Workstations : Heals(x)
  PROVE  /\ \A x \in Workstations : Heals(x)'
         /\ StateTypes /\ UNCHANGED <<spool, late, replies>>
<1> USE BoundAssumption
<1>0. Heals(w) /\ UNCHANGED <<spool, late, replies>>
  BY DEF StateStep, StateBegins, SetsLink, SetsRoute, SetsFlag
<1>1. Accepted' = Accepted /\ ThreadType' = ThreadType
  BY <1>0 DEF Accepted, ThreadType, spool, Idle
<1>2. CASE \E enabled \in BOOLEAN : StateBegins(w, h, enabled)
  <2>1. PICK enabled \in BOOLEAN : StateBegins(w, h, enabled)
    BY <1>2
  <2>2. /\ Heals(w)' /\ handler' \in [Workstations -> [Handlers -> ThreadType]]
        /\ \A x \in Workstations : x # w => handler'[x] = handler[x]
    BY <1>0, <2>1, BeginHeals
  <2>3. UNCHANGED <<eth1, online, clean>> /\ requests' \in 0..MaxRequests
    BY <2>1 DEF StateBegins, TypeOK
  <2>4. \A x \in Workstations : x # w => Heals(x)'
    BY <2>2, <2>3, Elsewhere DEF eth1
  <2> QED BY <1>0, <2>2, <2>3, <2>4 DEF StateTypes, TypeOK, eth1
<1>3. ASSUME NEW linked \in BOOLEAN, NEW routed \in BOOLEAN, NEW next \in StatePlaces,
             h \in Switching(w), Command(w, h, linked, routed, next),
             UNCHANGED <<online, requests>>,
             handler[w][h].alone /\ next = "route" => handler[w][h].enabled /\ linked,
             handler[w][h].alone /\ next = "flag" =>
               (linked <=> handler[w][h].enabled) /\ (handler[w][h].enabled => routed)
      PROVE  (\A x \in Workstations : Heals(x)') /\ StateTypes
  <2>1. Heals(w)'
    BY <1>0, <1>3, CommandHeals
  <2>2. /\ \A x \in Workstations : x # w =>
             /\ handler'[x] = handler[x] /\ link'[x] = link[x]
             /\ route'[x] = route[x] /\ clean'[x] = clean[x]
        /\ {link', route', clean'} \subseteq [Workstations -> BOOLEAN]
        /\ handler' \in [Workstations -> [Handlers -> ThreadType]]
    BY <1>1, <1>3, CommandFrame
  <2>3. \A x \in Workstations : x # w => Heals(x)'
    BY <1>3, <2>2, Elsewhere
  <2> QED BY <1>3, <2>1, <2>2, <2>3 DEF StateTypes, TypeOK
<1>4. ASSUME At(w, h, "link") \/ At(w, h, "route") \/ At(w, h, "flag")
      PROVE  h \in Switching(w) /\ handler[w][h] \in StateThread /\ handler[w][h].enabled \in BOOLEAN
  <2>1. h \in Switching(w) /\ handler[w][h] \in ThreadType
    BY <1>4 DEF At, Switching, StatePlaces, TypeOK
  <2>2. handler[w][h] \in StateThread
    BY <2>1, ThreadAt DEF Switching
  <2> QED BY <2>1, <2>2 DEF StateThread
<1>5. CASE SetsLink(w, h)
  <2> DEFINE e == handler[w][h].enabled
             next == IF e THEN "route" ELSE "flag"
  <2>1. /\ h \in Switching(w) /\ e \in BOOLEAN /\ (e /\ route[w]) \in BOOLEAN
        /\ next \in StatePlaces /\ Command(w, h, e, e /\ route[w], next)
        /\ UNCHANGED <<online, requests>>
    BY <1>4, <1>5 DEF SetsLink, StatePlaces
  <2>2. /\ next = "route" => e /\ e
        /\ next = "flag" => (e <=> e) /\ (e => e /\ route[w])
    BY <2>1
  <2> HIDE DEF next
  <2> QED BY <1>0, <1>3, <2>1, <2>2
<1>6. CASE SetsRoute(w, h) /\ link[w]
  <2>1. /\ h \in Switching(w) /\ At(w, h, "route") /\ "flag" \in StatePlaces
        /\ Command(w, h, TRUE, TRUE, "flag") /\ UNCHANGED <<online, requests>>
    BY <1>4, <1>6 DEF SetsRoute, StatePlaces
  <2>2. handler[w][h].alone => handler[w][h].enabled
    BY <1>0, <2>1 DEF Heals, Effective, At, StatePlaces
  <2> QED BY <1>0, <1>3, <2>1, <2>2
<1>7. CASE SetsRoute(w, h) /\ ~link[w]
  <2>1. /\ h \in Switching(w) /\ Goes(w, h, Idle) /\ clean' = [clean EXCEPT ![w] = FALSE]
        /\ UNCHANGED <<eth1, online, requests>>
    BY <1>4, <1>7 DEF SetsRoute
  <2>2. Heals(w)'
    BY <1>0, <2>1, StateEnds DEF TypeOK
  <2>3. handler' \in [Workstations -> [Handlers -> ThreadType]]
    BY <1>1, <2>1, GoesType, ThreadTypes
  <2>4. ASSUME NEW x \in Workstations, x # w
        PROVE  Heals(x)'
    <3>1. handler'[x] = handler[x]
      BY <2>1, <2>4, GoesEffect
    <3>2. link'[x] = link[x] /\ route'[x] = route[x]
      BY <2>1 DEF eth1
    <3>3. online'[x] = online[x] /\ clean'[x] = clean[x]
      BY <2>1, <2>4 DEF TypeOK
    <3> QED BY <1>0, <3>1, <3>2, <3>3, Elsewhere
  <2> QED BY <1>0, <2>1, <2>2, <2>3, <2>4 DEF StateTypes, TypeOK, eth1
<1>8. CASE SetsFlag(w, h)
  <2>1. /\ Goes(w, h, Idle) /\ UNCHANGED <<eth1, requests>>
        /\ online' = [online EXCEPT ![w] = handler[w][h].enabled]
        /\ clean' = [clean EXCEPT ![w] = handler[w][h].alone]
        /\ handler[w][h].alone \in BOOLEAN /\ handler[w][h].enabled \in BOOLEAN
    BY <1>4, <1>8 DEF SetsFlag, StateThread
  <2>2. Heals(w)'
    BY <1>0, <1>8, FlagHeals
  <2>3. handler' \in [Workstations -> [Handlers -> ThreadType]]
    BY <1>1, <2>1, GoesType, ThreadTypes
  <2>4. ASSUME NEW x \in Workstations, x # w
        PROVE  Heals(x)'
    <3>1. handler'[x] = handler[x]
      BY <2>1, <2>4, GoesEffect
    <3>2. link'[x] = link[x] /\ route'[x] = route[x]
      BY <2>1 DEF eth1
    <3>3. online'[x] = online[x] /\ clean'[x] = clean[x]
      BY <2>1, <2>4 DEF TypeOK
    <3> QED BY <1>0, <3>1, <3>2, <3>3, Elsewhere
  <2> QED BY <1>0, <2>1, <2>2, <2>3, <2>4 DEF StateTypes, TypeOK, eth1
<1> QED BY <1>0, <1>2, <1>5, <1>6, <1>7, <1>8 DEF StateStep

LEMMA PrintStepSound ==
  ASSUME IInv, NEW w \in Workstations, NEW h \in Handlers, PrintStep(w, h)
  PROVE  IInv'
<1> USE BoundAssumption
<1>1. /\ TypeOK /\ Numbered /\ ReportedJobIsNotOlder /\ \A x \in Workstations : Heals(x)
      /\ UNCHANGED <<eth1, online, clean>>
  BY DEF IInv, PrintStep, SubmitBegins, Sends, Arrives, SubmitFails, Replies, RepliesEmpty
<1>0. late' \subseteq Workstations /\ requests' \in 0..MaxRequests
  <2>1. CASE SubmitBegins(w, h)
    BY <1>1, <2>1 DEF SubmitBegins, TypeOK
  <2>2. CASE SubmitFails(w, h)
    BY <1>1, <2>2 DEF SubmitFails, TypeOK
  <2>3. CASE Sends(w, h) \/ Arrives(w, h) \/ Replies(w, h) \/ RepliesEmpty(w, h)
    BY <1>1, <2>3 DEF Sends, Arrives, Replies, RepliesEmpty, TypeOK
  <2> QED BY <2>1, <2>2, <2>3 DEF PrintStep
<1>2. h \notin Switching(w)
  BY DEF PrintStep, SubmitBegins, Sends, Arrives, SubmitFails, Replies, RepliesEmpty, At,
         Switching, StatePlaces
<1>3. ASSUME NEW to \in ThreadType', to.at \notin StatePlaces, Goes(w, h, to),
             Numbered', Accepted \subseteq Accepted',
             replies' \subseteq [own : Accepted', reported : Accepted'], ReportedJobIsNotOlder'
      PROVE  IInv'
  <2>1. handler' \in [Workstations -> [Handlers -> ThreadType']]
    BY <1>1, <1>3, GoesType
  <2>2. TypeOK'
    BY <1>0, <1>1, <1>3, <2>1 DEF TypeOK, eth1
  <2>3. Heals(w)'
    BY <1>1, <1>2, <1>3, PrintMoves
  <2>4. \A x \in Workstations : x # w => Heals(x)'
    BY <1>1, <1>3, GoesEffect, Elsewhere DEF eth1
  <2> QED BY <1>3, <2>2, <2>3, <2>4 DEF IInv
<1>4. ASSUME UNCHANGED spool
      PROVE  /\ Numbered' /\ Accepted' = Accepted /\ ThreadType' = ThreadType
             /\ UNCHANGED replies =>
                  replies' \subseteq [own : Accepted', reported : Accepted'] /\ ReportedJobIsNotOlder'
  BY <1>1, <1>4, SpoolKept DEF ThreadType, Idle, TypeOK, ReportedJobIsNotOlder
<1>5. CASE SubmitBegins(w, h) \/ Sends(w, h)
  <2>1. PICK place \in {"send", "sent"} :
          Goes(w, h, [at |-> place]) /\ UNCHANGED <<spool, replies>>
    <3>1. CASE SubmitBegins(w, h)
      BY <3>1 DEF SubmitBegins
    <3>2. CASE Sends(w, h)
      <4>1. handler[w][h] \in ThreadType /\ handler[w][h].at = "send"
        BY <1>1, <3>2 DEF Sends, At, TypeOK
      <4>2. handler[w][h] \in [at : {"send", "sent"}]
        BY <4>1 DEF ThreadType, Idle, StatePlaces
      <4>3. [handler[w][h] EXCEPT !.at = "sent"] = [at |-> "sent"]
        BY <4>2
      <4> QED BY <3>2, <4>3 DEF Sends, Moves
    <3> QED BY <1>5, <3>1, <3>2
  <2>2. [at |-> place] \in [at : {"send", "sent"}]
    OBVIOUS
  <2>3. [at |-> place] \in ThreadType' /\ [at |-> place].at \notin StatePlaces
    BY <1>4, <2>1, <2>2, ThreadTypes
  <2> QED BY <1>3, <1>4, <2>1, <2>3
<1>6. CASE SubmitFails(w, h) \/ RepliesEmpty(w, h)
  BY <1>3, <1>4, <1>6, ThreadTypes DEF SubmitFails, RepliesEmpty
<1>7. CASE Arrives(w, h)
  <2> DEFINE own == FirstJobId + Len(pending) + Len(output)
             to == [at |-> "reply", own |-> own]
  <2>1. PICK pages \in PageCounts : Spool!Accept(w, pages)
    BY <1>7 DEF Arrives, PrinterAccepts
  <2>2. Numbered' /\ Accepted \subseteq Accepted' /\ own \in Accepted'
    BY <1>1, <2>1, AcceptStep
  <2> HIDE DEF own
  <2>3. to \in ThreadType' /\ to.at \notin StatePlaces
    BY <2>2 DEF ThreadType, StatePlaces
  <2>4. Goes(w, h, to) /\ UNCHANGED replies
    BY <1>7 DEF Arrives, own
  <2>5. replies' \subseteq [own : Accepted', reported : Accepted'] /\ ReportedJobIsNotOlder'
    BY <1>1, <2>2, <2>4 DEF TypeOK, ReportedJobIsNotOlder
  <2> QED BY <1>3, <2>2, <2>3, <2>4, <2>5
<1>8. CASE Replies(w, h)
  <2> DEFINE own == handler[w][h].own
             reply == [own |-> own, reported |-> Reported]
  <2>1. /\ handler[w][h].at = "reply" /\ pending # <<>> /\ Goes(w, h, Idle)
        /\ replies' = replies \cup {reply} /\ UNCHANGED spool
    BY <1>8 DEF Replies, At
  <2>2. own \in Accepted
    BY <1>1, <2>1, ThreadAt DEF TypeOK, ReplyThread
  <2>3. Reported \in Accepted /\ Reported >= own
    BY <1>1, <2>1, <2>2, LastIsNewest
  <2>4. /\ reply \in [own : Accepted, reported : Accepted] /\ reply.reported >= reply.own
    BY <2>2, <2>3
  <2> HIDE DEF reply
  <2>5. replies' \subseteq [own : Accepted', reported : Accepted'] /\ ReportedJobIsNotOlder'
    BY <1>1, <1>4, <2>1, <2>4 DEF TypeOK, ReportedJobIsNotOlder
  <2> QED BY <1>3, <1>4, <2>1, <2>5, ThreadTypes
<1> QED BY <1>5, <1>6, <1>7, <1>8 DEF PrintStep

\* A post arrives that no request waits for any more.
LEMMA ArrivesLateSound ==
  ASSUME IInv, NEW w \in Workstations, ArrivesLate(w)
  PROVE  IInv'
<1>1. UNCHANGED <<eth1, online, handler, requests, clean, replies>> /\ late' = late \ {w}
  BY DEF ArrivesLate
<1>2. PICK pages \in PageCounts : Spool!Accept(w, pages)
  BY DEF ArrivesLate, PrinterAccepts
<1>3. Numbered' /\ Accepted \subseteq Accepted'
  BY <1>2, AcceptStep DEF IInv
<1>4. TypeOK'
  <2>1. ThreadType \subseteq ThreadType'
    BY <1>3 DEF ThreadType, Idle
  <2>2. handler' \in [Workstations -> [Handlers -> ThreadType']]
    BY <1>1, <2>1 DEF IInv, TypeOK
  <2>3. replies' \subseteq [own : Accepted', reported : Accepted']
    BY <1>1, <1>3 DEF IInv, TypeOK
  <2>4. late' \subseteq Workstations
    BY <1>1 DEF IInv, TypeOK
  <2> QED BY <1>1, <2>2, <2>3, <2>4 DEF IInv, TypeOK, eth1
<1>5. \A x \in Workstations : Heals(x)'
  BY <1>1, Elsewhere DEF IInv, eth1
<1> QED BY <1>1, <1>3, <1>4, <1>5 DEF IInv, ReportedJobIsNotOlder

\* Of a printer's step and of no step the workstations see nothing.
LEMMA PrinterStepSound ==
  ASSUME IInv, PrinterStep \/ UNCHANGED vars
  PROVE  IInv'
<1>1. UNCHANGED <<eth1, online, handler, late, requests, clean, replies>>
  BY DEF PrinterStep, vars
<1>2. Numbered' /\ Accepted' = Accepted
  <2>1. CASE Spool!Deliver
    BY <2>1, DeliverStep DEF IInv
  <2>2. CASE UNCHANGED <<pending, output>>
    BY <2>2 DEF IInv, Numbered, Accepted
  <2> QED BY <2>1, <2>2 DEF PrinterStep, Spool!Switch, vars, spool
<1>3. TypeOK'
  BY <1>1, <1>2 DEF IInv, TypeOK, ThreadType, Idle, eth1
<1>4. \A w \in Workstations : Heals(w)'
  BY <1>1, Elsewhere DEF IInv, eth1
<1> QED BY <1>1, <1>2, <1>3, <1>4 DEF IInv, ReportedJobIsNotOlder

LEMMA InvInit == Init => IInv
<1> SUFFICES ASSUME Init PROVE IInv
  OBVIOUS
<1>1. handler = [w \in Workstations |-> [h \in Handlers |-> Idle]] /\ replies = {}
      /\ pending = <<>> /\ output = <<>>
  BY DEF Init, Spool!Init
<1>2. TypeOK
  <2>1. {link, route, online, clean} \subseteq [Workstations -> BOOLEAN]
    BY DEF Init
  <2>2. handler \in [Workstations -> [Handlers -> ThreadType]]
    BY <1>1, ThreadTypes
  <2>3. requests \in 0..MaxRequests /\ late \subseteq Workstations
    BY BoundAssumption DEF Init
  <2> QED BY <1>1, <2>1, <2>2, <2>3 DEF TypeOK
<1>3. Numbered
  BY <1>1, EmptySeq DEF Numbered
<1>4. ASSUME NEW w \in Workstations PROVE Heals(w)
  <2>1. \A h \in Handlers : handler[w][h].at \notin StatePlaces
    BY <1>1, ThreadTypes
  <2>2. Agree(w)
    BY DEF Init, Agree
  <2> QED BY <2>1, <2>2 DEF Heals, Effective
<1> QED BY <1>1, <1>2, <1>3, <1>4 DEF IInv, ReportedJobIsNotOlder

LEMMA InvNext == IInv /\ [Next]_vars => IInv'
<1> SUFFICES ASSUME IInv, [Next]_vars PROVE IInv'
  OBVIOUS
<1>1. CASE PrinterStep \/ UNCHANGED vars
  BY <1>1, PrinterStepSound
<1>2. ASSUME NEW w \in Workstations, NEW h \in Handlers, StateStep(w, h) PROVE IInv'
  <2>1. /\ \A x \in Workstations : Heals(x)'
        /\ StateTypes /\ UNCHANGED <<spool, late, replies>>
    BY <1>2, StateStepSound DEF IInv
  <2>2. Numbered' /\ Accepted' = Accepted
    BY <2>1, SpoolKept DEF IInv
  <2>3. TypeOK'
    BY <2>1, <2>2 DEF IInv, TypeOK, StateTypes, ThreadType, Idle
  <2> QED BY <2>1, <2>2, <2>3 DEF IInv, ReportedJobIsNotOlder
<1>3. ASSUME NEW w \in Workstations, NEW h \in Handlers, PrintStep(w, h) PROVE IInv'
  BY <1>3, PrintStepSound
<1>4. ASSUME NEW w \in Workstations, ArrivesLate(w) PROVE IInv'
  BY <1>4, ArrivesLateSound
<1> QED BY <1>1, <1>2, <1>3, <1>4 DEF Next, StateStep, PrintStep

LEMMA Invariant == Spec => []IInv
BY InvInit, InvNext, PTL DEF Spec
\* A state request sends no job.
LEMMA StateSendsNothing ==
  ASSUME TypeOK, NEW x \in Workstations, NEW k \in Handlers, StateStep(x, k),
         NEW w \in Workstations, NEW h \in Handlers, handler[w][h].at # "sent"
  PROVE  handler'[w][h].at # "sent"
<1>0. handler \in [Workstations -> [Handlers -> ThreadType]]
  BY DEF TypeOK
<1>1. ASSUME NEW to, to.at # "sent", Goes(x, k, to) PROVE handler'[w][h].at # "sent"
  BY <1>1, GoesEffect
<1>2. ASSUME NEW next \in {"route", "flag"}, handler[x][k].at \in StatePlaces, Moves(x, k, next)
      PROVE  handler'[w][h].at # "sent"
  <2>1. handler[x][k] \in StateThread
    BY <1>0, <1>2, ThreadAt
  <2>2. [handler[x][k] EXCEPT !.at = next].at # "sent"
    BY <2>1 DEF StateThread
  <2> QED BY <1>1, <1>2, <2>2 DEF Moves
<1>3. ASSUME Goes(x, k, Idle) PROVE handler'[w][h].at # "sent"
  BY <1>1, <1>3 DEF Idle
<1>4. ASSUME NEW linked, NEW routed, NEW next \in {"route", "flag"}, handler[x][k].at \in StatePlaces,
             Command(x, k, linked, routed, next)
      PROVE  handler'[w][h].at # "sent"
  BY <1>2, <1>3, <1>4 DEF Command
<1>5. CASE \E enabled \in BOOLEAN : StateBegins(x, k, enabled)
  <2>1. PICK enabled \in BOOLEAN : StateBegins(x, k, enabled)
    BY <1>5
  <2>2. CASE x # w
    BY <1>0, <2>1, <2>2 DEF StateBegins
  <2>3. CASE x = w
    <3>1. handler'[w][h] = IF h = k THEN [at |-> "link", enabled |-> enabled, alone |-> Switching(w) = {}]
                           ELSE IF h \in Switching(w) THEN [handler[w][h] EXCEPT !.alone = FALSE]
                           ELSE handler[w][h]
      BY <1>0, <2>1, <2>3 DEF StateBegins
    <3>2. h \in Switching(w) => [handler[w][h] EXCEPT !.alone = FALSE].at = handler[w][h].at
      <4> SUFFICES ASSUME h \in Switching(w)
                   PROVE  [handler[w][h] EXCEPT !.alone = FALSE].at = handler[w][h].at
        OBVIOUS
      <4>1. handler[w][h] \in StateThread
        BY <1>0, ThreadAt DEF Switching
      <4> QED BY <4>1 DEF StateThread
    <3> QED BY <3>1, <3>2
  <2> QED BY <2>2, <2>3
<1>6. CASE SetsLink(x, k)
  <2>1. (IF handler[x][k].enabled THEN "route" ELSE "flag") \in {"route", "flag"}
    OBVIOUS
  <2>2. handler[x][k].at \in StatePlaces
    BY <1>6 DEF SetsLink, At, StatePlaces
  <2> QED BY <1>4, <1>6, <2>1, <2>2 DEF SetsLink
<1>7. CASE SetsRoute(x, k)
  <2>1. handler[x][k].at \in StatePlaces
    BY <1>7 DEF SetsRoute, At, StatePlaces
  <2> QED BY <1>3, <1>4, <1>7, <2>1 DEF SetsRoute
<1>8. CASE SetsFlag(x, k)
  BY <1>3, <1>8 DEF SetsFlag
<1> QED BY <1>5, <1>6, <1>7, <1>8 DEF StateStep

\* Of the steps of a print request, Sends alone makes a job sent.
LEMMA PrintSends ==
  ASSUME TypeOK, NEW x \in Workstations, NEW k \in Handlers, PrintStep(x, k),
         NEW w \in Workstations, NEW h \in Handlers,
         handler[w][h].at # "sent", handler'[w][h].at = "sent"
  PROVE  Sends(x, k) /\ x = w
<1>1. ASSUME NEW to, to.at # "sent" PROVE ~Goes(x, k, to)
  BY <1>1, GoesEffect
<1>2. ~Goes(x, k, Idle) /\ ~Goes(x, k, [at |-> "send"])
  BY <1>1 DEF Idle
<1>3. ~Goes(x, k, [at |-> "reply", own |-> FirstJobId + Len(pending) + Len(output)])
  BY <1>1
<1>4. Sends(x, k)
  BY <1>2, <1>3 DEF PrintStep, SubmitBegins, Arrives, SubmitFails, Replies, RepliesEmpty
<1>5. PICK to : Goes(x, k, to)
  BY <1>4 DEF Sends, Moves
<1> QED BY <1>4, <1>5, GoesEffect

-----------------------------------------------------------------------------
(* Theorems *)

\* A thread carries the fields of its place, and replies name jobs that were accepted.
THEOREM TypeCorrect == Spec => []TypeOK
<1>1. IInv => TypeOK
  BY DEF IInv
<1> QED BY <1>1, Invariant, PTL

\* set_online, set_offline: one state request that runs alone and succeeds heals whatever
\* failures and races left behind: flag, interface and route agree until the next request.
THEOREM CleanHeals == Spec => []CleanRequestHeals
<1>1. IInv => CleanRequestHeals
  BY DEF IInv, Heals, Agree, CleanRequestHeals
<1> QED BY <1>1, Invariant, PTL

\* submit_print_job takes the last job of the printer's reply for its own: the number it
\* reports is its own or a later one, never an older one.
THEOREM NotOlder == Spec => []ReportedJobIsNotOlder
<1>1. IInv => ReportedJobIsNotOlder
  BY DEF IInv
<1> QED BY <1>1, Invariant, PTL

\* submit_print_job, require_online: until state requests race or fail, a workstation
\* marked offline sends no job, not even one whose online check came before.
THEOREM OfflineIsSilent == Spec => OfflineSendsNothing
<1> DEFINE Silent ==
      \A w \in Workstations, h \in Handlers :
        ~At(w, h, "sent") /\ At(w, h, "sent")' /\ clean[w] /\ Switching(w) = {} => online[w]
<1>1. ASSUME IInv, [Next]_vars PROVE [Silent]_vars
  <2> SUFFICES ASSUME NEW w \in Workstations, NEW h \in Handlers,
                      ~At(w, h, "sent"), At(w, h, "sent")', clean[w], Switching(w) = {}
               PROVE  online[w]
    OBVIOUS
  <2>1. TypeOK /\ handler[w][h].at # "sent" /\ handler'[w][h].at = "sent"
    BY <1>1 DEF IInv, At
  <2>2. ~PrinterStep /\ ~UNCHANGED vars /\ \A x \in Workstations : ~ArrivesLate(x)
    BY <2>1 DEF PrinterStep, vars, ArrivesLate
  <2>3. PICK x \in Workstations, k \in Handlers : StateStep(x, k) \/ PrintStep(x, k)
    BY <1>1, <2>2 DEF Next, StateStep, PrintStep
  <2>4. ~StateStep(x, k)
    BY <1>1, <2>1, <2>3, StateSendsNothing DEF IInv
  <2>5. Sends(x, k) /\ x = w
    BY <2>1, <2>3, <2>4, PrintSends
  <2>6. link[w]
    BY <2>5 DEF Sends
  <2> QED BY <1>1, <2>6 DEF IInv, Heals, Agree
<1>2. Spec => [][Silent]_vars
  BY <1>1, Invariant, PTL DEF Spec
<1> QED BY <1>2 DEF OfflineSendsNothing
=============================================================================
