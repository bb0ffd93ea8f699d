------------------------------- MODULE Tickets -------------------------------
(***************************************************************************)
(* The incident workflow: TicketService (backend/app/services/tickets.py)  *)
(* under overlapping requests of one asyncio backend.                      *)
(*                                                                         *)
(* What runs between two awaits is one step.  generate remembers the       *)
(* resources held by open tickets, awaits three readings of the lab,       *)
(* applies the faults of the chosen scenario one await at a time and only  *)
(* then numbers, stores and saves the ticket; resolve awaits the checks of *)
(* the ticket one after the other before it writes the resolution.  The    *)
(* lab is a set of facts (an interface is up, a share is enabled, a user   *)
(* is in a group) that the scenarios break and operators change.  Every    *)
(* change of the tickets is saved in the step that makes it, so that a     *)
(* restart of the backend loses the requests in flight and nothing else.   *)
(***************************************************************************)
EXTENDS Integers, Sequences, FiniteSets

CONSTANTS
  Facts,        \* what can be true of the lab
  SourceOf,     \* [Facts -> Sources]: the reading that reports the fact
  Scenarios,    \* records: difficulty, requires, lacks, faults, undo, checks, tested,
                \* resources
  Generators, Resolvers,   \* requests that may be in flight together
  Technicians,
  FirstNumber,  \* 1001 in the code
  MaxTickets, MaxChanges   \* bounds: tickets, and changes made by operators

\* The order in which _candidates awaits its readings.
Sources == <<"devices", "files", "directory">>

\* requires / lacks: facts a candidate needs present / absent; faults: facts
\* _apply_scenario breaks, in order; undo: a failure of a later fault restores the
\* first one; checks: the facts each recovery check needs; resources: what the ticket holds;
\* tested: what of it _candidates looks up among the held ones.  offboard_employee looks up
\* the user only, and holds the workstation as well.
ASSUME ScenarioAssumption ==
  /\ SourceOf \in [Facts -> {Sources[i] : i \in DOMAIN Sources}]
  /\ \A s \in Scenarios :
       /\ s.requires \subseteq Facts /\ s.lacks \subseteq Facts
       /\ s.faults \in Seq(Facts) /\ s.checks \in Seq(SUBSET Facts)
       /\ s.undo \in BOOLEAN /\ s.tested \subseteq s.resources
ASSUME NumberAssumption == FirstNumber \in Nat /\ MaxTickets \in Nat /\ MaxChanges \in Nat

VARIABLES
  facts,       \* the facts that hold now
  changes,     \* operator changes so far
  tickets,     \* state["tickets"], also on disk
  nextNumber,  \* state["next_number"]
  generator,   \* each generate request: where it is and what it has read
  resolver     \* each resolve request, likewise

store == <<tickets, nextNumber>>
vars  == <<facts, changes, store, generator, resolver>>
-----------------------------------------------------------------------------
Idle == [at |-> "idle"]

Unresolved == {i \in DOMAIN tickets : tickets[i].status # "Resolved"}

\* _locked_resources
LockedResources == UNION {tickets[i].scenario.resources : i \in Unresolved}

Holds(check, known) == check \subseteq known

Recovered(i, known) ==
  \A n \in DOMAIN tickets[i].scenario.checks : Holds(tickets[i].scenario.checks[n], known)

\* History kept in a resolve request: at some moment since it began every check of its
\* ticket held at once.
Observe(known) ==
  resolver' = [r \in Resolvers |->
    IF resolver[r].at = "check" /\ Recovered(resolver[r].ticket, known)
      THEN [resolver[r] EXCEPT !.together = TRUE] ELSE resolver[r]]

LabBecomes(known) == facts' = known /\ Observe(known)

Init ==
  /\ facts = Facts \ UNION {s.lacks : s \in Scenarios}
  /\ changes = 0
  /\ tickets = <<>> /\ nextNumber = FirstNumber
  /\ generator = [g \in Generators |-> Idle]
  /\ resolver = [r \in Resolvers |-> Idle]
-----------------------------------------------------------------------------
(* Operators repair, complete a request, or break something else *)

OperatorChanges(fact) ==
  /\ changes < MaxChanges
  /\ changes' = changes + 1
  /\ LabBecomes(IF fact \in facts THEN facts \ {fact} ELSE facts \cup {fact})
  /\ UNCHANGED <<store, generator>>
-----------------------------------------------------------------------------
(* generate *)

Moves(g, request) == generator' = [generator EXCEPT ![g] = request]

InFlight == {g \in Generators : generator[g].at # "idle"}

\* alone is history: no ticket was created since the request read the locks.
GenerateBegins(g, difficulty) ==
  /\ generator[g].at = "idle"
  /\ Len(tickets) + Cardinality(InFlight) < MaxTickets
  /\ Moves(g, [at |-> "read", difficulty |-> difficulty, locked |-> LockedResources,
               seen |-> {}, source |-> 1, alone |-> TRUE])
  /\ UNCHANGED <<facts, changes, store, resolver>>

\* One of the three awaits: the facts of one source as they are now.
GenerateReads(g) ==
  /\ generator[g].at = "read" /\ generator[g].source <= Len(Sources)
  /\ Moves(g, [generator[g] EXCEPT
       !.seen = @ \cup {fact \in facts : SourceOf[fact] = Sources[generator[g].source]},
       !.source = @ + 1])
  /\ UNCHANGED <<facts, changes, store, resolver>>

\* A reading cannot be had (DC01 or FILE01 does not answer): the exception ends the request.
ReadFails(g) ==
  /\ generator[g].at = "read" /\ generator[g].source <= Len(Sources)
  /\ Moves(g, Idle)
  /\ UNCHANGED <<facts, changes, store, resolver>>

\* Mutant of Candidates: compatible with the lab, whoever holds the resources.
CandidatesUnlocked(request) ==
  {s \in Scenarios : /\ s.difficulty = request.difficulty
                     /\ s.requires \subseteq request.seen
                     /\ s.lacks \cap request.seen = {}}

\* _candidates: compatible with what was read, and no tested resource held by another ticket.
Candidates(request) ==
  {s \in Scenarios : /\ s.difficulty = request.difficulty
                     /\ s.requires \subseteq request.seen
                     /\ s.lacks \cap request.seen = {}
                     /\ s.tested \cap request.locked = {}}

GenerateChooses(g) ==
  /\ generator[g].at = "read" /\ generator[g].source > Len(Sources)
  /\ \/ \E s \in Candidates(generator[g]) :
          Moves(g, [at |-> "apply", scenario |-> s, fault |-> 1, alone |-> generator[g].alone])
     \/ Candidates(generator[g]) = {} /\ Moves(g, Idle)
  /\ UNCHANGED <<facts, changes, store, resolver>>

Applying(g) ==
  generator[g].at = "apply" /\ generator[g].fault <= Len(generator[g].scenario.faults)

AppliesFault(g) ==
  /\ Applying(g)
  /\ LabBecomes(facts \ {generator[g].scenario.faults[generator[g].fault]})
  /\ Moves(g, [generator[g] EXCEPT !.fault = @ + 1])
  /\ UNCHANGED <<changes, store>>

\* Mutant of FaultFails: every failure is answered by an undo.
FaultFailsAndUndoes(g) ==
  /\ Applying(g)
  /\ \E known \in {facts, facts \ {generator[g].scenario.faults[generator[g].fault]}} :
       LabBecomes(known)
  /\ Moves(g, [generator[g] EXCEPT !.at = "undo"])
  /\ UNCHANGED <<changes, store>>

\* The device rejects the fault or its answer is lost: the exception ends the request,
\* after file_service_and_share has awaited the restart of SMB.
FaultFails(g) ==
  /\ Applying(g)
  /\ \E known \in {facts, facts \ {generator[g].scenario.faults[generator[g].fault]}} :
       LabBecomes(known)
  /\ Moves(g, IF generator[g].scenario.undo /\ generator[g].fault > 1
                THEN [generator[g] EXCEPT !.at = "undo"] ELSE Idle)
  /\ UNCHANGED <<changes, store>>

\* The restart may fail as well.
UndoesFault(g) ==
  /\ generator[g].at = "undo"
  /\ \E known \in {facts, facts \cup {generator[g].scenario.faults[1]}} : LabBecomes(known)
  /\ Moves(g, Idle)
  /\ UNCHANGED <<changes, store>>

\* After the last await: number, append and save in one step.
CreatesTicket(g) ==
  /\ generator[g].at = "apply" /\ ~Applying(g)
  /\ tickets' = Append(tickets, [number |-> nextNumber, status |-> "Open", by |-> "Unassigned",
                                 scenario |-> generator[g].scenario])
  /\ nextNumber' = nextNumber + 1
  /\ generator' = [k \in Generators |->
       IF k = g THEN Idle
       ELSE IF generator[k].at = "idle" THEN generator[k]
       ELSE [generator[k] EXCEPT !.alone = FALSE]]
  /\ UNCHANGED <<facts, changes, resolver>>

Generate(g) ==
  \/ \E s \in Scenarios : GenerateBegins(g, s.difficulty)
  \/ GenerateReads(g) \/ ReadFails(g) \/ GenerateChooses(g)
  \/ AppliesFault(g) \/ FaultFails(g) \/ UndoesFault(g)
  \/ CreatesTicket(g)
-----------------------------------------------------------------------------
(* start and resolve *)

\* Mutant of Start: a resolved ticket can be started again.
StartAnyway(i, technician) ==
  /\ tickets' = [tickets EXCEPT ![i].status = "In Progress", ![i].by = technician]
  /\ UNCHANGED <<facts, changes, nextNumber, generator, resolver>>

Start(i, technician) ==
  /\ tickets[i].status # "Resolved"
  /\ tickets' = [tickets EXCEPT ![i].status = "In Progress", ![i].by = technician]
  /\ UNCHANGED <<facts, changes, nextNumber, generator, resolver>>

\* The status is looked at once, before the checks are awaited.
ResolveBegins(r, i, technician) ==
  /\ resolver[r].at = "idle"
  /\ tickets[i].status = "In Progress"
  /\ resolver' = [resolver EXCEPT ![r] =
       [at |-> "check", ticket |-> i, by |-> technician, check |-> 1, passed |-> TRUE,
        together |-> Recovered(i, facts)]]
  /\ UNCHANGED <<facts, changes, store, generator>>

Checks(r) == tickets[resolver[r].ticket].scenario.checks

\* Mutant of ResolveChecks: a failed check does not count against the ticket.
ResolveSkips(r) ==
  /\ resolver[r].at = "check" /\ resolver[r].check <= Len(Checks(r))
  /\ resolver' = [resolver EXCEPT ![r].check = @ + 1]
  /\ UNCHANGED <<facts, changes, store, generator>>

\* One await of the comprehension that collects the remaining checks.
ResolveChecks(r) ==
  /\ resolver[r].at = "check" /\ resolver[r].check <= Len(Checks(r))
  /\ resolver' = [resolver EXCEPT
       ![r].passed = @ /\ Holds(Checks(r)[resolver[r].check], facts),
       ![r].check = @ + 1]
  /\ UNCHANGED <<facts, changes, store, generator>>

\* A check raises: nothing is written.
CheckFails(r) ==
  /\ resolver[r].at = "check" /\ resolver[r].check <= Len(Checks(r))
  /\ resolver' = [resolver EXCEPT ![r] = Idle]
  /\ UNCHANGED <<facts, changes, store, generator>>

ResolveEnds(r) ==
  /\ resolver[r].at = "check" /\ resolver[r].check > Len(Checks(r))
  /\ tickets' = IF resolver[r].passed
                  THEN [tickets EXCEPT ![resolver[r].ticket].status = "Resolved",
                                       ![resolver[r].ticket].by = resolver[r].by]
                  ELSE tickets
  /\ resolver' = [resolver EXCEPT ![r] = Idle]
  /\ UNCHANGED <<facts, changes, nextNumber, generator>>

Resolve(r) ==
  \/ \E i \in DOMAIN tickets, technician \in Technicians : ResolveBegins(r, i, technician)
  \/ ResolveChecks(r) \/ CheckFails(r) \/ ResolveEnds(r)
-----------------------------------------------------------------------------
\* The backend restarts: _load reads the saved tickets, requests in flight are gone.
Restart ==
  /\ InFlight # {} \/ \E r \in Resolvers : resolver[r].at # "idle"
  /\ generator' = [g \in Generators |-> Idle]
  /\ resolver' = [r \in Resolvers |-> Idle]
  /\ UNCHANGED <<facts, changes, store>>

Next ==
  \/ \E fact \in Facts : OperatorChanges(fact)
  \/ \E g \in Generators : Generate(g)
  \/ \E i \in DOMAIN tickets, technician \in Technicians : Start(i, technician)
  \/ \E r \in Resolvers : Resolve(r)
  \/ Restart

Spec == Init /\ [][Next]_vars
-----------------------------------------------------------------------------
(* Properties *)

\* A request keeps to its scenario and its ticket: it only undoes a fault that a scenario
\* with an undo applied, and a resolve request points at a ticket that exists.
TypeOK ==
  /\ facts \subseteq Facts /\ changes \in 0..MaxChanges
  /\ \A i \in DOMAIN tickets :
       /\ tickets[i].status \in {"Open", "In Progress", "Resolved"}
       /\ tickets[i].by \in Technicians \cup {"Unassigned"}
       /\ tickets[i].scenario \in Scenarios
  /\ \A g \in Generators :
       /\ generator[g].at \in {"idle", "read", "apply", "undo"}
       /\ generator[g].at = "undo" => generator[g].scenario.undo /\ generator[g].fault > 1
  /\ \A r \in Resolvers : resolver[r].at = "check" => resolver[r].ticket \in DOMAIN tickets

\* A ticket moves from Open to In Progress to Resolved and never back, however start,
\* resolve and a restart overlap.
Rank(status) == CASE status = "Open" -> 0 [] status = "In Progress" -> 1 [] OTHER -> 2

TicketsMoveForward ==
  [][\A i \in DOMAIN tickets :
       /\ i \in DOMAIN tickets'
       /\ Rank(tickets'[i].status) - Rank(tickets[i].status) \in {0, 1}]_vars

\* A generator during which no other ticket was created holds none of the resources that
\* _candidates tests for its scenario together with another unresolved ticket.
UndisturbedGenerationKeepsApart ==
  [][\A g \in Generators :
       CreatesTicket(g) /\ generator[g].alone
         => generator[g].scenario.tested \cap LockedResources = {}]_vars

\* No two unresolved tickets hold the same resource.
ResourcesHeldOnce ==
  \A i, j \in Unresolved :
    i # j => tickets[i].scenario.resources \cap tickets[j].scenario.resources = {}

\* A ticket with one recovery check is resolved only if the lab had recovered at some
\* moment while the request ran.
SingleCheckResolvedAfterRecovery ==
  [][\A r \in Resolvers :
       ResolveEnds(r) /\ resolver[r].passed /\ Len(Checks(r)) = 1 => resolver[r].together]_vars
=============================================================================
