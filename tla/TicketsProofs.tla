---------------------------- MODULE TicketsProofs ----------------------------
(***************************************************************************)
(* Theorems about Tickets, for all facts, scenarios and numbers of         *)
(* requests in flight.  A generate request that nobody disturbed has read  *)
(* locks that cover those of now, because locks go away and only           *)
(* CreatesTicket, which disturbs everybody else, adds to them; a resolve   *)
(* request is about a ticket that has been started, and knows when the lab *)
(* had recovered.  Both are stated of one request q, and of the tickets ts *)
(* and the lab known that it is judged by.                                 *)
(***************************************************************************)
EXTENDS Tickets, SequenceTheorems, TLAPS

Ticket == [number : Nat, status : {"Open", "In Progress", "Resolved"},
           by : Technicians \cup {"Unassigned"}, scenario : Scenarios]

Reading == [at : {"read"}, difficulty : {s.difficulty : s \in Scenarios},
            locked : SUBSET UNION {s.resources : s \in Scenarios},
            seen : SUBSET Facts, source : 1..(Len(Sources) + 1), alone : BOOLEAN]

Making == [at : {"apply", "undo"}, scenario : Scenarios, fault : Nat \ {0}, alone : BOOLEAN]

\* What open tickets hold.
Locks(ts) ==
  UNION {ts[i].scenario.resources : i \in {i \in DOMAIN ts : ts[i].status # "Resolved"}}

GeneratorSound(q, ts) ==
  \/ q = Idle
  \/ q \in Reading /\ (q.alone => Locks(ts) \subseteq q.locked)
  \/ /\ q \in Making
     /\ q.fault <= Len(q.scenario.faults) + 1
     /\ q.at = "undo" => q.scenario.undo /\ q.fault \in 2..Len(q.scenario.faults)
     /\ q.alone => q.scenario.tested \cap Locks(ts) = {}

Resolving == [at : {"check"}, ticket : Nat, by : Technicians, check : Nat \ {0},
              passed : BOOLEAN, together : BOOLEAN]

Back(checks, known) == \A n \in DOMAIN checks : Holds(checks[n], known)

ResolverSound(q, ts, known) ==
  \/ q = Idle
  \/ /\ q \in Resolving
     /\ q.ticket \in DOMAIN ts /\ ts[q.ticket].status # "Open"
     /\ Back(ts[q.ticket].scenario.checks, known) => q.together
     /\ Len(ts[q.ticket].scenario.checks) = 1 /\ q.check > 1 /\ q.passed => q.together

StateOK ==
  /\ facts \subseteq Facts /\ changes \in 0..MaxChanges
  /\ tickets \in Seq(Ticket) /\ nextNumber \in Nat

GeneratorsSound ==
  /\ generator = [g \in Generators |-> generator[g]]
  /\ \A g \in Generators : GeneratorSound(generator[g], tickets)

ResolversSound ==
  /\ resolver = [r \in Resolvers |-> resolver[r]]
  /\ \A r \in Resolvers : ResolverSound(resolver[r], tickets, facts)

IInv == StateOK /\ GeneratorsSound /\ ResolversSound
-----------------------------------------------------------------------------
(* The tickets *)

\* Tickets keep their scenario, and a ticket that was started stays started.
Follows(ts, us) ==
  /\ DOMAIN ts \subseteq DOMAIN us
  /\ \A i \in DOMAIN ts : /\ us[i].scenario = ts[i].scenario
                          /\ ts[i].status # "Open" => us[i].status # "Open"

LEMMA ResolverFollows ==
  ASSUME NEW q, NEW ts, NEW us, NEW known, ResolverSound(q, ts, known), Follows(ts, us)
  PROVE  ResolverSound(q, us, known)
BY DEF ResolverSound, Follows

LEMMA GeneratorShrinks ==
  ASSUME NEW q, NEW ts, NEW us, GeneratorSound(q, ts), Locks(us) \subseteq Locks(ts)
  PROVE  GeneratorSound(q, us)
BY DEF GeneratorSound

LEMMA TicketForm == \A ts \in Seq(Ticket) : \A i \in DOMAIN ts : ts[i] \in Ticket
<1> SUFFICES ASSUME NEW ts \in Seq(Ticket), NEW i \in DOMAIN ts PROVE ts[i] \in Ticket
  OBVIOUS
<1> QED BY LenProperties, ElementOfSeq

\* What start and resolve may make of a status.
Advances(from, to) == to \in {"In Progress", "Resolved"} /\ (from # "Resolved" \/ to = "Resolved")

\* The tickets after start or resolve has written ticket i.
Written(ts, i, status, technician) ==
  [ts EXCEPT ![i].status = status, ![i].by = technician]

\* The ticket is started, and goes on holding what it held or holds nothing any more.
LEMMA WrittenForm ==
  ASSUME NEW ts \in Seq(Ticket), NEW i \in DOMAIN ts, NEW technician \in Technicians,
         NEW status, Advances(ts[i].status, status), NEW us, us = Written(ts, i, status, technician)
  PROVE  /\ us \in Seq(Ticket) /\ DOMAIN us = DOMAIN ts
         /\ us[i].status = status
         /\ \A k \in DOMAIN ts : us[k].scenario = ts[k].scenario /\ (k # i => us[k] = ts[k])
         /\ Follows(ts, us) /\ Locks(us) \subseteq Locks(ts)
<1> DEFINE new == [ts[i] EXCEPT !.status = status, !.by = technician]
<1>1. /\ ts \in [1..Len(ts) -> Ticket] /\ Len(ts) \in Nat /\ DOMAIN ts = 1..Len(ts)
      /\ ts[i] \in Ticket
  BY LenProperties, ElementOfSeq
<1>2. new \in Ticket /\ new.status = status /\ new.scenario = ts[i].scenario
  BY <1>1 DEF Ticket, Advances
<1>3. us = [ts EXCEPT ![i] = new]
  BY DEF Written
<1> HIDE DEF new
<1>4. us \in [1..Len(ts) -> Ticket]
  BY <1>1, <1>2, <1>3
<1>5. us \in Seq(Ticket) /\ DOMAIN us = DOMAIN ts
  BY <1>1, <1>4, SeqDef
<1>6. /\ us[i].status = status
      /\ \A k \in DOMAIN ts : us[k].scenario = ts[k].scenario /\ (k # i => us[k] = ts[k])
  BY <1>1, <1>2, <1>3
<1>7. Follows(ts, us)
  BY <1>5, <1>6 DEF Follows, Advances
<1>8. ASSUME NEW k \in DOMAIN us, us[k].status # "Resolved"
      PROVE  k \in {j \in DOMAIN ts : ts[j].status # "Resolved"} /\ us[k].scenario = ts[k].scenario
  BY <1>5, <1>6, <1>8 DEF Advances
<1>9. Locks(us) \subseteq Locks(ts)
  <2>1. ASSUME NEW k \in DOMAIN us, us[k].status # "Resolved", NEW x \in us[k].scenario.resources
        PROVE  x \in Locks(ts)
    BY <1>8, <2>1 DEF Locks
  <2>2. ASSUME NEW x \in Locks(us)
        PROVE  \E k \in DOMAIN us : us[k].status # "Resolved" /\ x \in us[k].scenario.resources
    BY DEF Locks
  <2> QED BY <2>1, <2>2
<1> QED BY <1>5, <1>6, <1>7, <1>9
-----------------------------------------------------------------------------
(* The requests in flight *)

LEMMA IdleIsApart ==
  /\ Idle \notin Reading /\ Idle \notin Making /\ Idle \notin Resolving
  /\ Idle.at = "idle"
<1>1. \A q : q = Idle => q.at = "idle"
  BY DEF Idle
<1>2. (\A q \in Reading : q.at = "read") /\ (\A q \in Making : q.at \in {"apply", "undo"})
      /\ \A q \in Resolving : q.at = "check"
  BY DEF Reading, Making, Resolving
<1> QED BY <1>1, <1>2

\* Where a request is tells its shape.
LEMMA Shapes ==
  ASSUME IInv
  PROVE  /\ \A g \in Generators :
              /\ generator[g].at = "read" => generator[g] \in Reading
              /\ generator[g].at \in {"apply", "undo"} => generator[g] \in Making
              /\ generator[g].at \in {"idle", "read", "apply", "undo"}
         /\ \A r \in Resolvers :
              /\ resolver[r].at = "check" => resolver[r] \in Resolving
              /\ resolver[r].at \in {"idle", "check"}
<1>1. (\A q \in Reading : q.at = "read") /\ (\A q \in Making : q.at \in {"apply", "undo"})
      /\ \A q \in Resolving : q.at = "check"
  BY DEF Reading, Making, Resolving
<1>2. \A g \in Generators : generator[g] = Idle \/ generator[g] \in Reading \/ generator[g] \in Making
  BY DEF IInv, GeneratorsSound, GeneratorSound
<1>3. \A r \in Resolvers : resolver[r] = Idle \/ resolver[r] \in Resolving
  BY DEF IInv, ResolversSound, ResolverSound
<1> QED BY <1>1, <1>2, <1>3, IdleIsApart

\* A generate request that leaves the tickets alone.
LEMMA GeneratorMoves ==
  ASSUME GeneratorsSound, NEW g \in Generators, NEW q, GeneratorSound(q, tickets), Moves(g, q),
         tickets' = tickets
  PROVE  GeneratorsSound'
<1>1. /\ generator' = [generator EXCEPT ![g] = q]
      /\ generator = [k \in Generators |-> generator[k]]
  BY DEF Moves, GeneratorsSound
<1>2. generator' = [k \in Generators |-> IF k = g THEN q ELSE generator[k]]
  BY <1>1
<1>3. \A k \in Generators : GeneratorSound(generator'[k], tickets)
  BY <1>2 DEF GeneratorsSound
<1> QED BY <1>2, <1>3 DEF GeneratorsSound

\* A resolve request that leaves the tickets and the lab alone.
LEMMA ResolverMoves ==
  ASSUME ResolversSound, NEW r \in Resolvers, NEW q, ResolverSound(q, tickets, facts),
         resolver' = [resolver EXCEPT ![r] = q], UNCHANGED <<tickets, facts>>
  PROVE  ResolversSound'
<1>1. resolver = [k \in Resolvers |-> resolver[k]]
  BY DEF ResolversSound
<1>2. resolver' = [k \in Resolvers |-> IF k = r THEN q ELSE resolver[k]]
  BY <1>1
<1>3. \A k \in Resolvers : ResolverSound(resolver'[k], tickets, facts)
  BY <1>2 DEF ResolversSound
<1> QED BY <1>2, <1>3 DEF ResolversSound

Together(q) == [q EXCEPT !.together = TRUE]

\* The resolve requests take notice of whatever becomes of the lab.
LEMMA LabSound ==
  ASSUME IInv, NEW known, LabBecomes(known), tickets' = tickets
  PROVE  ResolversSound'
<1>1. /\ facts' = known
      /\ resolver' = [r \in Resolvers |->
           IF resolver[r].at = "check" /\ Recovered(resolver[r].ticket, known)
             THEN Together(resolver[r]) ELSE resolver[r]]
  BY DEF LabBecomes, Observe, Together
<1>2. ASSUME NEW r \in Resolvers PROVE ResolverSound(resolver'[r], tickets, known)
  <2> DEFINE q == resolver[r]
  <2>1. ResolverSound(q, tickets, facts)
    BY DEF IInv, ResolversSound
  <2>2. CASE q = Idle
    BY <1>1, <2>2, IdleIsApart DEF ResolverSound
  <2>3. CASE q \in Resolving
    <3>1. q.at = "check" /\ q # Idle
      BY <2>3, IdleIsApart DEF Resolving
    <3>2. Recovered(q.ticket, known) <=> Back(tickets[q.ticket].scenario.checks, known)
      BY DEF Recovered, Back
    <3>3. CASE Recovered(q.ticket, known)
      <4> DEFINE p == Together(q)
      <4>1. p \in Resolving /\ p.together /\ p.ticket = q.ticket
        BY <2>3 DEF Resolving, Together
      <4>2. resolver'[r] = p
        BY <1>1, <3>1, <3>3
      <4> HIDE DEF p
      <4> QED BY <2>1, <3>1, <4>1, <4>2 DEF ResolverSound
    <3>4. CASE ~Recovered(q.ticket, known)
      BY <1>1, <2>1, <3>1, <3>2, <3>4 DEF ResolverSound
    <3> QED BY <3>3, <3>4
  <2> QED BY <2>1, <2>2, <2>3 DEF ResolverSound
<1> QED BY <1>1, <1>2 DEF ResolversSound
-----------------------------------------------------------------------------
(* The steps *)

LEMMA OperatorInv ==
  ASSUME IInv, NEW fact \in Facts, OperatorChanges(fact) PROVE IInv'
<1>1. /\ changes' = changes + 1 /\ changes < MaxChanges
      /\ UNCHANGED <<tickets, nextNumber, generator>>
      /\ LabBecomes(IF fact \in facts THEN facts \ {fact} ELSE facts \cup {fact})
  BY DEF OperatorChanges, store
<1>2. StateOK'
  BY <1>1, NumberAssumption DEF IInv, StateOK, LabBecomes
<1>3. ResolversSound'
  BY <1>1, LabSound
<1> QED BY <1>1, <1>2, <1>3 DEF IInv, GeneratorsSound

\* A step of a generate request that stores nothing.
LEMMA GeneratingInv ==
  ASSUME IInv, NEW g \in Generators, NEW q, GeneratorSound(q, tickets), Moves(g, q),
         UNCHANGED <<changes, tickets, nextNumber>>,
         \/ UNCHANGED <<facts, resolver>>
         \/ \E known \in SUBSET Facts : LabBecomes(known)
  PROVE  IInv'
<1>1. GeneratorsSound'
  BY GeneratorMoves DEF IInv
<1>2. CASE UNCHANGED <<facts, resolver>>
  BY <1>1, <1>2 DEF IInv, StateOK, ResolversSound
<1>3. CASE \E known \in SUBSET Facts : LabBecomes(known)
  <2>1. PICK known \in SUBSET Facts : LabBecomes(known)
    BY <1>3
  <2>2. ResolversSound' /\ facts' = known
    BY <2>1, LabSound DEF LabBecomes
  <2> QED BY <1>1, <2>2 DEF IInv, StateOK
<1> QED BY <1>2, <1>3

\* What a request reads is true of the lab, and what it holds of the locks is not affected.
LEMMA ReadingInv ==
  ASSUME IInv, NEW g \in Generators,
         (\E s \in Scenarios : GenerateBegins(g, s.difficulty)) \/ GenerateReads(g) \/ ReadFails(g)
           \/ GenerateChooses(g)
  PROVE  IInv'
<1> DEFINE q == generator[g]
<1>0. /\ GeneratorSound(q, tickets) /\ GeneratorSound(Idle, tickets)
      /\ facts \subseteq Facts
  BY DEF IInv, GeneratorsSound, GeneratorSound, StateOK
<1>1. ASSUME NEW s \in Scenarios, GenerateBegins(g, s.difficulty) PROVE IInv'
  <2> DEFINE p == [at |-> "read", difficulty |-> s.difficulty, locked |-> LockedResources,
                   seen |-> {}, source |-> 1, alone |-> TRUE]
  <2>1. LockedResources = Locks(tickets)
    BY DEF LockedResources, Unresolved, Locks
  <2>2. LockedResources \subseteq UNION {k.resources : k \in Scenarios}
    <3>1. \A i \in DOMAIN tickets : tickets[i].scenario \in Scenarios
      BY TicketForm DEF IInv, StateOK, Ticket
    <3> QED BY <2>1, <3>1 DEF Locks
  <2>3. p \in Reading /\ Locks(tickets) \subseteq p.locked
    BY <2>1, <2>2 DEF Reading, Sources
  <2>4. Moves(g, p) /\ UNCHANGED <<facts, changes, tickets, nextNumber, resolver>>
    BY <1>1 DEF GenerateBegins, store
  <2> HIDE DEF p
  <2> QED BY <2>3, <2>4, GeneratingInv DEF GeneratorSound
<1>2. CASE GenerateReads(g)
  <2> DEFINE read == {fact \in facts : SourceOf[fact] = Sources[q.source]}
             p == [q EXCEPT !.seen = @ \cup read, !.source = @ + 1]
  <2>1. /\ Moves(g, p) /\ UNCHANGED <<facts, changes, tickets, nextNumber, resolver>>
        /\ q.at = "read" /\ q.source <= Len(Sources)
    BY <1>2 DEF GenerateReads, store
  <2>2. q \in Reading /\ (q.alone => Locks(tickets) \subseteq q.locked)
    BY <1>0, <2>1, IdleIsApart DEF GeneratorSound, Making
  <2>3. read \subseteq Facts
    BY <1>0
  <2> HIDE DEF read
  <2>4. p \in Reading /\ p.alone = q.alone /\ p.locked = q.locked
    <3>1. q.seen \cup read \in SUBSET Facts /\ q.source + 1 \in 1..(Len(Sources) + 1)
      BY <2>1, <2>2, <2>3 DEF Reading, Sources
    <3> QED BY <2>2, <3>1 DEF Reading
  <2> HIDE DEF p
  <2> QED BY <2>1, <2>2, <2>4, GeneratingInv DEF GeneratorSound
<1>3. CASE ReadFails(g)
  BY <1>0, <1>3, GeneratingInv DEF ReadFails, store
<1>4. CASE GenerateChooses(g)
  <2>1. CASE Moves(g, Idle)
    BY <1>0, <1>4, <2>1, GeneratingInv DEF GenerateChooses, store
  <2>2. ASSUME NEW s \in Candidates(q),
               Moves(g, [at |-> "apply", scenario |-> s, fault |-> 1, alone |-> q.alone])
        PROVE  IInv'
    <3> DEFINE p == [at |-> "apply", scenario |-> s, fault |-> 1, alone |-> q.alone]
    <3>1. s \in Scenarios /\ s.tested \cap q.locked = {} /\ q.at = "read"
      BY <1>4, <2>2 DEF Candidates, GenerateChooses
    <3>2. q \in Reading /\ (q.alone => Locks(tickets) \subseteq q.locked)
      BY <1>0, <3>1, IdleIsApart DEF GeneratorSound, Making
    <3>3. /\ p \in Making /\ p.at = "apply" /\ p.fault = 1 /\ p.scenario = s
          /\ p.alone => s.tested \cap Locks(tickets) = {}
      BY <3>1, <3>2 DEF Making, Reading
    <3>4. Len(s.faults) \in Nat
      BY <3>1, ScenarioAssumption, LenProperties
    <3> HIDE DEF p
    <3>5. GeneratorSound(p, tickets)
      BY <3>3, <3>4 DEF GeneratorSound
    <3> QED BY <1>4, <2>2, <3>5, GeneratingInv DEF GenerateChooses, store, p
  <2> QED BY <1>4, <2>1, <2>2 DEF GenerateChooses
<1> QED BY <1>1, <1>2, <1>3, <1>4

\* A fault, a failure and an undo change facts that the scenario names.
LEMMA MakingInv ==
  ASSUME IInv, NEW g \in Generators, AppliesFault(g) \/ FaultFails(g) \/ UndoesFault(g)
  PROVE  IInv'
<1> DEFINE q == generator[g]
           fault == q.scenario.faults[q.fault]
<1>0. /\ GeneratorSound(q, tickets) /\ GeneratorSound(Idle, tickets)
      /\ facts \subseteq Facts
  BY DEF IInv, GeneratorsSound, GeneratorSound, StateOK
<1>1. q \in Making /\ q.fault <= Len(q.scenario.faults) + 1
      /\ (q.at = "undo" => q.scenario.undo /\ q.fault \in 2..Len(q.scenario.faults))
      /\ (q.alone => q.scenario.tested \cap Locks(tickets) = {})
  BY <1>0, IdleIsApart DEF GeneratorSound, AppliesFault, FaultFails, UndoesFault, Applying, Reading
<1>2. /\ q.fault \in Nat \ {0} /\ q.scenario.faults \in Seq(Facts)
      /\ Len(q.scenario.faults) \in Nat
  BY <1>1, ScenarioAssumption, LenProperties DEF Making
<1>3. CASE AppliesFault(g)
  <2> DEFINE p == [q EXCEPT !.fault = @ + 1]
  <2>1. /\ Moves(g, p) /\ LabBecomes(facts \ {fault}) /\ UNCHANGED <<changes, tickets, nextNumber>>
        /\ q.at = "apply" /\ q.fault <= Len(q.scenario.faults)
    BY <1>3 DEF AppliesFault, Applying, store
  <2>2. /\ p \in Making /\ p.at = "apply" /\ p.scenario = q.scenario /\ p.alone = q.alone
        /\ p.fault = q.fault + 1
    BY <1>1, <2>1 DEF Making
  <2> HIDE DEF p
  <2>3. GeneratorSound(p, tickets)
    BY <1>1, <1>2, <2>1, <2>2 DEF GeneratorSound
  <2> QED BY <1>0, <2>1, <2>3, GeneratingInv
<1>4. CASE FaultFails(g)
  <2> DEFINE p == IF q.scenario.undo /\ q.fault > 1 THEN [q EXCEPT !.at = "undo"] ELSE Idle
  <2>1. /\ Moves(g, p) /\ UNCHANGED <<changes, tickets, nextNumber>>
        /\ \E known \in {facts, facts \ {fault}} : LabBecomes(known)
        /\ q.at = "apply" /\ q.fault <= Len(q.scenario.faults)
    BY <1>4 DEF FaultFails, Applying, store
  <2>2. GeneratorSound(p, tickets)
    <3>1. CASE q.scenario.undo /\ q.fault > 1
      <4> DEFINE u == [q EXCEPT !.at = "undo"]
      <4>1. /\ u \in Making /\ u.at = "undo" /\ u.scenario = q.scenario /\ u.alone = q.alone
            /\ u.fault = q.fault
        BY <1>1 DEF Making
      <4>2. p = u
        BY <3>1
      <4> HIDE DEF u, p
      <4> QED BY <1>1, <1>2, <2>1, <3>1, <4>1, <4>2 DEF GeneratorSound
    <3>2. CASE ~(q.scenario.undo /\ q.fault > 1)
      BY <1>0, <3>2
    <3> QED BY <3>1, <3>2
  <2> HIDE DEF p
  <2>3. \E known \in SUBSET Facts : LabBecomes(known)
    BY <1>0, <2>1
  <2> QED BY <2>1, <2>2, <2>3, GeneratingInv
<1>5. CASE UndoesFault(g)
  <2>1. /\ Moves(g, Idle) /\ UNCHANGED <<changes, tickets, nextNumber>> /\ q.at = "undo"
        /\ \E known \in {facts, facts \cup {q.scenario.faults[1]}} : LabBecomes(known)
    BY <1>5 DEF UndoesFault, store
  <2>2. q.scenario.faults[1] \in Facts
    BY <1>1, <1>2, <2>1, ElementOfSeq
  <2>3. \E known \in SUBSET Facts : LabBecomes(known)
    BY <1>0, <2>1, <2>2
  <2> QED BY <1>0, <2>1, <2>3, GeneratingInv
<1> QED BY <1>3, <1>4, <1>5

\* The new ticket disturbs every other generate request; its number is the next.
LEMMA CreatesForm ==
  ASSUME IInv, NEW g \in Generators, CreatesTicket(g)
  PROVE  \E new \in Ticket : tickets' = Append(tickets, new)
<1> DEFINE new == [number |-> nextNumber, status |-> "Open", by |-> "Unassigned",
                   scenario |-> generator[g].scenario]
<1>1. tickets' = Append(tickets, new) /\ generator[g].at = "apply"
  BY DEF CreatesTicket
<1>2. new \in Ticket
  BY <1>1, Shapes DEF IInv, StateOK, Ticket, Making
<1> QED BY <1>1, <1>2

LEMMA CreatesInv == ASSUME IInv, NEW g \in Generators, CreatesTicket(g) PROVE IInv'
<1> DEFINE q == generator[g]
<1>1. /\ nextNumber' = nextNumber + 1 /\ q.at = "apply"
      /\ UNCHANGED <<facts, changes, resolver>>
  BY DEF CreatesTicket
<1>2. PICK new \in Ticket :
        tickets' = Append(tickets, new) /\ tickets \in Seq(Ticket) /\ nextNumber \in Nat
  BY CreatesForm DEF IInv, StateOK
<1>3. /\ tickets' \in Seq(Ticket) /\ DOMAIN tickets' = DOMAIN tickets \cup {Len(tickets) + 1}
      /\ \A i \in DOMAIN tickets : tickets'[i] = tickets[i]
  BY <1>1, <1>2, AppendProperties, LenProperties
<1>4. StateOK' /\ Follows(tickets, tickets')
  BY <1>1, <1>2, <1>3 DEF IInv, StateOK, Follows
<1>5. ResolversSound'
  BY <1>1, <1>4, ResolverFollows DEF IInv, ResolversSound
<1>6. GeneratorsSound'
  <2>1. generator' = [k \in Generators |->
          IF k = g THEN Idle
          ELSE IF generator[k].at = "idle" THEN generator[k]
          ELSE [generator[k] EXCEPT !.alone = FALSE]]
    BY DEF CreatesTicket
  <2>2. ASSUME NEW k \in Generators PROVE GeneratorSound(generator'[k], tickets')
    <3> DEFINE o == generator[k]
               p == [o EXCEPT !.alone = FALSE]
    <3>1. GeneratorSound(o, tickets)
      BY DEF IInv, GeneratorsSound
    <3>2. CASE k = g \/ o = Idle
      BY <2>1, <3>2, IdleIsApart DEF GeneratorSound
    <3>3. CASE k # g /\ o \in Reading
      <4>1. p \in Reading /\ ~p.alone /\ o.at = "read"
        BY <3>3 DEF Reading
      <4>2. generator'[k] = p
        BY <2>1, <3>3, <4>1
      <4> HIDE DEF p
      <4> QED BY <4>1, <4>2 DEF GeneratorSound
    <3>4. CASE k # g /\ o \in Making
      <4>1. /\ p \in Making /\ ~p.alone /\ o.at \in {"apply", "undo"}
            /\ p.at = o.at /\ p.fault = o.fault /\ p.scenario = o.scenario
        BY <3>4 DEF Making
      <4>2. generator'[k] = p
        BY <2>1, <3>4, <4>1
      <4>3. o \notin Reading /\ o # Idle
        BY <4>1, IdleIsApart DEF Reading
      <4> HIDE DEF p
      <4> QED BY <3>1, <4>1, <4>2, <4>3 DEF GeneratorSound
    <3> QED BY <3>1, <3>2, <3>3, <3>4 DEF GeneratorSound
  <2> QED BY <2>1, <2>2 DEF GeneratorsSound
<1> QED BY <1>4, <1>5, <1>6 DEF IInv

LEMMA GenerateInv == ASSUME IInv, NEW g \in Generators, Generate(g) PROVE IInv'
BY ReadingInv, MakingInv, CreatesInv DEF Generate

\* A ticket that start or resolve writes.
LEMMA WritesInv ==
  ASSUME IInv, NEW i \in DOMAIN tickets, NEW technician \in Technicians,
         NEW status, Advances(tickets[i].status, status),
         tickets' = Written(tickets, i, status, technician),
         UNCHANGED <<facts, changes, nextNumber, generator>>
  PROVE  /\ StateOK' /\ GeneratorsSound'
         /\ \A q : ResolverSound(q, tickets, facts) => ResolverSound(q, tickets', facts')
<1>1. tickets \in Seq(Ticket)
  BY DEF IInv, StateOK
<1>2. tickets' \in Seq(Ticket) /\ Follows(tickets, tickets') /\ Locks(tickets') \subseteq Locks(tickets)
  BY <1>1, WrittenForm
<1>3. StateOK'
  BY <1>2 DEF IInv, StateOK
<1>4. GeneratorsSound'
  BY <1>2, GeneratorShrinks DEF IInv, GeneratorsSound
<1>5. \A q : ResolverSound(q, tickets, facts) => ResolverSound(q, tickets', facts')
  BY <1>2, ResolverFollows
<1> QED BY <1>3, <1>4, <1>5

LEMMA StartInv ==
  ASSUME IInv, NEW i \in DOMAIN tickets, NEW technician \in Technicians, Start(i, technician)
  PROVE  IInv'
<1>1. /\ Advances(tickets[i].status, "In Progress")
      /\ tickets' = Written(tickets, i, "In Progress", technician)
      /\ UNCHANGED <<facts, changes, nextNumber, generator, resolver>>
  BY DEF Start, Written, Advances
<1>2. /\ StateOK' /\ GeneratorsSound'
      /\ \A q : ResolverSound(q, tickets, facts) => ResolverSound(q, tickets', facts')
  BY <1>1, WritesInv
<1>3. ResolversSound'
  BY <1>1, <1>2 DEF IInv, ResolversSound
<1> QED BY <1>2, <1>3 DEF IInv

LEMMA ResolveInv == ASSUME IInv, NEW r \in Resolvers, Resolve(r) PROVE IInv'
<1> DEFINE q == resolver[r]
<1>0. /\ ResolverSound(q, tickets, facts) /\ ResolverSound(Idle, tickets, facts)
      /\ tickets \in Seq(Ticket)
  BY DEF IInv, ResolversSound, ResolverSound, StateOK
<1>1. ASSUME NEW p, ResolverSound(p, tickets, facts), resolver' = [resolver EXCEPT ![r] = p],
             UNCHANGED <<facts, changes, store, generator>>
      PROVE  IInv'
  BY <1>1, ResolverMoves DEF IInv, StateOK, GeneratorsSound, store
<1>2. ASSUME NEW i \in DOMAIN tickets, NEW technician \in Technicians, ResolveBegins(r, i, technician)
      PROVE  IInv'
  <2> DEFINE together == Recovered(i, facts)
             p == [at |-> "check", ticket |-> i, by |-> technician, check |-> 1, passed |-> TRUE,
                   together |-> together]
  <2>1. together \in BOOLEAN /\ (together <=> Back(tickets[i].scenario.checks, facts))
    BY DEF Recovered, Back
  <2>2. i \in Nat
    BY <1>0, LenProperties
  <2> HIDE DEF together
  <2>3. p \in Resolving /\ p.ticket = i /\ p.together = together /\ p.check = 1
    BY <2>1, <2>2 DEF Resolving
  <2>4. resolver' = [resolver EXCEPT ![r] = p] /\ tickets[i].status = "In Progress"
    BY <1>2 DEF ResolveBegins, together
  <2> HIDE DEF p
  <2>5. ResolverSound(p, tickets, facts)
    <3>1. ~(p.check > 1)
      BY <2>3
    <3>2. p.ticket \in DOMAIN tickets /\ tickets[p.ticket].status # "Open"
      BY <2>3, <2>4
    <3>3. Back(tickets[p.ticket].scenario.checks, facts) => p.together
      BY <2>1, <2>3
    <3> QED BY <2>3, <3>1, <3>2, <3>3 DEF ResolverSound
  <2> QED BY <1>1, <1>2, <2>4, <2>5 DEF ResolveBegins
<1>3. CASE ResolveChecks(r)
  <2> DEFINE checks == tickets[q.ticket].scenario.checks
             holds == Holds(checks[q.check], facts)
             passed == q.passed /\ holds
             p == [q EXCEPT !.passed = passed, !.check = @ + 1]
  <2>1. /\ resolver' = [resolver EXCEPT ![r] = p] /\ q.at = "check" /\ q.check <= Len(checks)
        /\ UNCHANGED <<facts, changes, store, generator>>
    BY <1>3 DEF ResolveChecks, Checks, ResolversSound, IInv
  <2>2. /\ q \in Resolving /\ q # Idle /\ q.ticket \in DOMAIN tickets
        /\ tickets[q.ticket].status # "Open"
        /\ Back(checks, facts) => q.together
        /\ Len(checks) = 1 /\ q.check > 1 /\ q.passed => q.together
    BY <1>0, <2>1, Shapes, IdleIsApart DEF ResolverSound
  <2>3. checks \in Seq(SUBSET Facts)
    BY <1>0, <2>2, TicketForm, ScenarioAssumption DEF Ticket
  <2> HIDE DEF holds
  <2>4. /\ p \in Resolving /\ p.ticket = q.ticket /\ p.together = q.together
        /\ p.check = q.check + 1 /\ (p.passed <=> q.passed /\ holds)
    <3>1. passed \in BOOLEAN /\ (passed <=> q.passed /\ holds)
      OBVIOUS
    <3> HIDE DEF passed
    <3>2. q.check + 1 \in Nat \ {0}
      BY <2>2 DEF Resolving
    <3>3. /\ p \in Resolving /\ p.ticket = q.ticket /\ p.together = q.together
          /\ p.check = q.check + 1 /\ p.passed = passed
      BY <2>2, <3>1, <3>2 DEF Resolving
    <3> QED BY <3>1, <3>3
  <2>5. Len(checks) = 1 /\ p.passed => p.together
    <3>1. SUFFICES ASSUME Len(checks) = 1, p.passed PROVE q.together
      BY <2>4
    <3>2. q.check = 1 /\ DOMAIN checks = {1}
      BY <2>1, <2>2, <2>3, <3>1, LenProperties DEF Resolving
    <3>3. Back(checks, facts)
      BY <2>4, <3>1, <3>2 DEF Back, holds
    <3> QED BY <2>2, <3>3
  <2> HIDE DEF p
  <2>6. ResolverSound(p, tickets, facts)
    BY <2>2, <2>4, <2>5 DEF ResolverSound
  <2> QED BY <1>1, <2>1, <2>6
<1>4. CASE CheckFails(r)
  BY <1>0, <1>1, <1>4 DEF CheckFails
<1>5. CASE ResolveEnds(r)
  <2>1. /\ q.at = "check" /\ resolver' = [resolver EXCEPT ![r] = Idle]
        /\ UNCHANGED <<facts, changes, nextNumber, generator>>
    BY <1>5 DEF ResolveEnds
  <2>2. q \in Resolving /\ q.ticket \in DOMAIN tickets /\ q.by \in Technicians
    BY <1>0, <2>1, IdleIsApart DEF ResolverSound, Resolving
  <2>3. CASE q.passed
    <3>1. /\ tickets' = Written(tickets, q.ticket, "Resolved", q.by)
          /\ Advances(tickets[q.ticket].status, "Resolved")
      BY <1>5, <2>3 DEF ResolveEnds, Written, Advances
    <3>2. /\ StateOK' /\ GeneratorsSound'
          /\ \A p : ResolverSound(p, tickets, facts) => ResolverSound(p, tickets', facts')
      BY <2>1, <2>2, <3>1, WritesInv
    <3>3. resolver' = [k \in Resolvers |-> IF k = r THEN Idle ELSE resolver[k]]
      BY <2>1 DEF IInv, ResolversSound
    <3>4. \A k \in Resolvers : ResolverSound(resolver'[k], tickets, facts)
      BY <1>0, <3>3 DEF IInv, ResolversSound
    <3>5. ResolversSound'
      BY <3>2, <3>3, <3>4 DEF ResolversSound
    <3> QED BY <3>2, <3>5 DEF IInv
  <2>4. CASE ~q.passed
    BY <1>0, <1>1, <1>5, <2>1, <2>4 DEF ResolveEnds, store
  <2> QED BY <2>3, <2>4
<1> QED BY <1>2, <1>3, <1>4, <1>5 DEF Resolve

LEMMA RestartInv == ASSUME IInv, Restart PROVE IInv'
<1>1. /\ generator' = [g \in Generators |-> Idle] /\ resolver' = [r \in Resolvers |-> Idle]
      /\ UNCHANGED <<facts, changes, tickets, nextNumber>>
  BY DEF Restart, store
<1> QED BY <1>1 DEF IInv, StateOK, GeneratorsSound, ResolversSound, GeneratorSound, ResolverSound

LEMMA InvInit == Init => IInv
<1> SUFFICES ASSUME Init PROVE IInv
  OBVIOUS
<1>1. StateOK
  BY NumberAssumption DEF Init, StateOK
<1>2. GeneratorsSound /\ ResolversSound
  BY DEF Init, GeneratorsSound, ResolversSound, GeneratorSound, ResolverSound
<1> QED BY <1>1, <1>2 DEF IInv

LEMMA InvNext == IInv /\ [Next]_vars => IInv'
<1> SUFFICES ASSUME IInv, [Next]_vars PROVE IInv'
  OBVIOUS
<1>1. CASE UNCHANGED vars
  BY <1>1 DEF vars, store, IInv, StateOK, GeneratorsSound, ResolversSound
<1>2. CASE Next
  BY <1>2, OperatorInv, GenerateInv, StartInv, ResolveInv, RestartInv DEF Next
<1> QED BY <1>1, <1>2

LEMMA Invariant == Spec => []IInv
BY InvInit, InvNext, PTL DEF Spec
-----------------------------------------------------------------------------
(* Theorems *)

\* Type correctness: requests keep to their scenario and their ticket.
THEOREM TypeCorrect == Spec => []TypeOK
<1>1. IInv => TypeOK
  <2> SUFFICES ASSUME IInv PROVE TypeOK
    OBVIOUS
  <2>1. \A i \in DOMAIN tickets : tickets[i] \in Ticket
    BY TicketForm DEF IInv, StateOK
  <2>2. ASSUME NEW g \in Generators, generator[g].at = "undo"
        PROVE  generator[g].scenario.undo /\ generator[g].fault > 1
    BY <2>2, IdleIsApart DEF IInv, GeneratorsSound, GeneratorSound, Reading, Making
  <2>3. ASSUME NEW r \in Resolvers, resolver[r].at = "check"
        PROVE  resolver[r].ticket \in DOMAIN tickets
    BY <2>3, IdleIsApart DEF IInv, ResolversSound, ResolverSound
  <2> QED BY <2>1, <2>2, <2>3, Shapes DEF TypeOK, IInv, StateOK, Ticket
<1> QED BY <1>1, Invariant, PTL

LEMMA WriteSteps ==
  ASSUME tickets \in Seq(Ticket), NEW k \in DOMAIN tickets, NEW technician \in Technicians,
         NEW status, Advances(tickets[k].status, status),
         tickets' = Written(tickets, k, status, technician), NEW i \in DOMAIN tickets
  PROVE  /\ DOMAIN tickets' = DOMAIN tickets /\ tickets'[k].status = status
         /\ i # k => tickets'[i] = tickets[i]
BY WrittenForm

\* The step of a ticket: it stays, or one request writes it.
LEMMA TicketSteps ==
  ASSUME IInv, Next, NEW i \in DOMAIN tickets
  PROVE  /\ i \in DOMAIN tickets'
         /\ \/ tickets'[i] = tickets[i]
            \/ tickets[i].status # "Resolved" /\ tickets'[i].status = "In Progress"
            \/ tickets[i].status # "Open" /\ tickets'[i].status = "Resolved"
<1>0. tickets \in Seq(Ticket)
  BY DEF IInv, StateOK
<1>1. CASE tickets' = tickets
  BY <1>1
<1>2. ASSUME NEW g \in Generators, CreatesTicket(g)
      PROVE  i \in DOMAIN tickets' /\ tickets'[i] = tickets[i]
  <2>1. PICK new : tickets' = Append(tickets, new) /\ new \in Ticket
    BY <1>2, CreatesForm
  <2> QED BY <1>0, <2>1, AppendProperties, LenProperties
<1>3. ASSUME NEW k \in DOMAIN tickets, NEW technician \in Technicians, Start(k, technician)
      PROVE  /\ i \in DOMAIN tickets'
             /\ \/ tickets'[i] = tickets[i]
                \/ tickets[i].status # "Resolved" /\ tickets'[i].status = "In Progress"
  <2>1. /\ tickets[k].status # "Resolved"
        /\ tickets' = Written(tickets, k, "In Progress", technician)
        /\ Advances(tickets[k].status, "In Progress")
    BY <1>3 DEF Start, Written, Advances
  <2>2. /\ DOMAIN tickets' = DOMAIN tickets /\ tickets'[k].status = "In Progress"
        /\ i # k => tickets'[i] = tickets[i]
    BY <1>0, <2>1, WriteSteps
  <2> QED BY <2>1, <2>2
<1>4. ASSUME NEW r \in Resolvers, ResolveEnds(r), tickets' # tickets
      PROVE  /\ i \in DOMAIN tickets'
             /\ \/ tickets'[i] = tickets[i]
                \/ tickets[i].status # "Open" /\ tickets'[i].status = "Resolved"
  <2> DEFINE k == resolver[r].ticket
  <2>1. /\ resolver[r].at = "check"
        /\ tickets' = Written(tickets, k, "Resolved", resolver[r].by)
        /\ Advances(tickets[k].status, "Resolved")
    BY <1>4 DEF ResolveEnds, Written, Advances
  <2>2. /\ k \in DOMAIN tickets /\ tickets[k].status # "Open"
        /\ resolver[r].by \in Technicians
    BY <2>1, IdleIsApart DEF IInv, ResolversSound, ResolverSound, Resolving
  <2>3. /\ DOMAIN tickets' = DOMAIN tickets /\ tickets'[k].status = "Resolved"
        /\ i # k => tickets'[i] = tickets[i]
    BY <1>0, <2>1, <2>2, WriteSteps
  <2> QED BY <2>2, <2>3
<1>5. \/ tickets' = tickets
      \/ \E g \in Generators : CreatesTicket(g)
      \/ \E k \in DOMAIN tickets, technician \in Technicians : Start(k, technician)
      \/ \E r \in Resolvers : ResolveEnds(r)
  BY DEF Next, OperatorChanges, Generate, GenerateBegins, GenerateReads, ReadFails, GenerateChooses,
         AppliesFault, FaultFails, UndoesFault, Resolve, ResolveBegins, ResolveChecks, CheckFails,
         Restart, store
<1> QED BY <1>1, <1>2, <1>3, <1>4, <1>5

LEMMA Differences ==
  /\ 0 - 0 \in {0, 1} /\ 1 - 0 \in {0, 1} /\ 1 - 1 \in {0, 1}
  /\ 2 - 1 \in {0, 1} /\ 2 - 2 \in {0, 1}
OBVIOUS

LEMMA RankSteps ==
  ASSUME NEW a \in {"Open", "In Progress", "Resolved"}, NEW b,
         b = a \/ (a # "Resolved" /\ b = "In Progress") \/ (a # "Open" /\ b = "Resolved")
  PROVE  Rank(b) - Rank(a) \in {0, 1}
<1>1. Rank("Open") = 0 /\ Rank("In Progress") = 1 /\ Rank("Resolved") = 2
  BY DEF Rank
<1>2. \/ Rank(a) = 0 /\ (Rank(b) = 0 \/ Rank(b) = 1)
      \/ Rank(a) = 1 /\ (Rank(b) = 1 \/ Rank(b) = 2)
      \/ Rank(a) = 2 /\ Rank(b) = 2
  BY <1>1, Zenon
<1> QED BY <1>2, Differences, Zenon

\* Tickets move from Open to In Progress to Resolved: whoever resolves found the ticket
\* started, and a ticket that was started does not become open again.
THEOREM MoveForward == Spec => TicketsMoveForward
<1>1. IInv /\ [Next]_vars =>
        [\A i \in DOMAIN tickets :
           /\ i \in DOMAIN tickets'
           /\ Rank(tickets'[i].status) - Rank(tickets[i].status) \in {0, 1}]_vars
  <2> SUFFICES ASSUME IInv, Next, NEW i \in DOMAIN tickets
               PROVE  /\ i \in DOMAIN tickets'
                      /\ Rank(tickets'[i].status) - Rank(tickets[i].status) \in {0, 1}
    BY DEF vars
  <2>1. tickets[i].status \in {"Open", "In Progress", "Resolved"}
    BY TicketForm DEF IInv, StateOK, Ticket
  <2>2. \/ tickets'[i].status = tickets[i].status
        \/ tickets[i].status # "Resolved" /\ tickets'[i].status = "In Progress"
        \/ tickets[i].status # "Open" /\ tickets'[i].status = "Resolved"
    BY TicketSteps
  <2>3. Rank(tickets'[i].status) - Rank(tickets[i].status) \in {0, 1}
    BY <2>1, <2>2, RankSteps
  <2> QED BY <2>3, TicketSteps
<1> QED BY <1>1, Invariant, PTL DEF Spec, TicketsMoveForward

\* A generate request that no ticket disturbed keeps apart: the locks it read are still
\* all that there are.
THEOREM UndisturbedGeneration == Spec => UndisturbedGenerationKeepsApart
<1>1. IInv /\ [Next]_vars =>
        [\A g \in Generators :
           CreatesTicket(g) /\ generator[g].alone
             => generator[g].scenario.tested \cap LockedResources = {}]_vars
  <2> SUFFICES ASSUME IInv, NEW g \in Generators, CreatesTicket(g), generator[g].alone
               PROVE  generator[g].scenario.tested \cap LockedResources = {}
    OBVIOUS
  <2>1. generator[g].at = "apply"
    BY DEF CreatesTicket
  <2>2. LockedResources = Locks(tickets)
    BY DEF LockedResources, Unresolved, Locks
  <2> QED BY <2>1, <2>2, IdleIsApart DEF IInv, GeneratorsSound, GeneratorSound, Reading
<1> QED BY <1>1, Invariant, PTL DEF Spec, UndisturbedGenerationKeepsApart

\* A ticket with one check is resolved only if the lab had recovered while the request ran.
THEOREM SingleCheck == Spec => SingleCheckResolvedAfterRecovery
<1>1. IInv /\ [Next]_vars =>
        [\A r \in Resolvers :
           ResolveEnds(r) /\ resolver[r].passed /\ Len(Checks(r)) = 1 => resolver[r].together]_vars
  <2> SUFFICES ASSUME IInv, NEW r \in Resolvers, ResolveEnds(r), resolver[r].passed,
                      Len(Checks(r)) = 1
               PROVE  resolver[r].together
    OBVIOUS
  <2>1. resolver[r].at = "check" /\ resolver[r].check > 1
    BY DEF ResolveEnds
  <2>2. Len(tickets[resolver[r].ticket].scenario.checks) = 1
    BY DEF Checks
  <2> QED BY <2>1, <2>2, IdleIsApart DEF IInv, ResolversSound, ResolverSound
<1> QED BY <1>1, Invariant, PTL DEF Spec, SingleCheckResolvedAfterRecovery
=============================================================================
