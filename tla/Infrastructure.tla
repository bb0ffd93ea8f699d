--------------------------- MODULE Infrastructure ---------------------------
(***************************************************************************)
(* Faults and restorations of network devices: infrastructure_action       *)
(* (backend/app/services/lab.py) over set_network_state and network_state  *)
(* (backend/app/services/runtime.py).                                      *)
(*                                                                         *)
(* A request changes the interfaces of its device one command at a time    *)
(* and then reads them back one at a time.  It runs in a thread, so that   *)
(* other requests run between two commands.  The restoration of an access  *)
(* switch first reads CORE01, and is refused while CORE01 is offline.      *)
(*                                                                         *)
(* Every command may be refused, or time out: a command that changes an    *)
(* interface may then still take effect at any later time, because only    *)
(* the docker client is given up.  A reading that is refused counts as     *)
(* "down", and one that cannot be parsed as up.  The kernel drops the      *)
(* static routes of an interface that goes down and does not bring them    *)
(* back.                                                                   *)
(***************************************************************************)
EXTENDS Integers, Sequences, FiniteSets, Functions

CONSTANTS
  Interfaces,    \* [devices -> sequence of interfaces]: network_interfaces
  Optional,      \* [devices -> interfaces its state does not depend on]
  StaticRoutes,  \* [devices -> interfaces its static routes run over]
  Core,          \* CORE01
  Switches,      \* access switches
  Requests,      \* requests that may be in flight together
  MaxLate        \* bound: commands given up that have still to take effect

Devices == DOMAIN Interfaces
Ports(d) == Range(Interfaces[d])

ASSUME DeviceAssumption ==
  /\ Core \in Devices /\ Switches \subseteq Devices \ {Core}
  /\ DOMAIN StaticRoutes = Devices
  /\ \A d \in Devices : /\ Interfaces[d] \in Seq(Ports(d)) /\ Interfaces[d] # <<>>
                        /\ Optional[d] \subseteq Ports(d) /\ Optional[d] # Ports(d)
                        /\ StaticRoutes[d] \subseteq Ports(d)

VARIABLES
  link,      \* [device -> [interface -> is up]]
  routes,    \* [device -> interfaces whose static routes are installed]
  late,      \* commands given up that may still take effect
  request    \* each request: where it is, its device and direction

vars == <<link, routes, late, request>>
-----------------------------------------------------------------------------
Idle == [at |-> "idle"]

Required(d)    == Ports(d) \ Optional[d]
Operational(d) == \A i \in Required(d) : link[d][i]
AllAre(d, up)  == \A i \in Ports(d) : link[d][i] = up

Init ==
  /\ link = [d \in Devices |-> [i \in Ports(d) |-> TRUE]]
  /\ routes = StaticRoutes
  /\ late = {}
  /\ request = [r \in Requests |-> Idle]

\* The device a request reads: CORE01 before a restoration, its own device afterwards.
Subject(r) == IF request[r].at = "check" THEN Core ELSE request[r].device

\* Mutant of ToSet: a restoration raises only the interfaces the state depends on.
RequiredOnly(r) ==
  LET d == request[r].device IN
    IF request[r].up THEN SelectSeq(Interfaces[d], LAMBDA i : i \in Required(d)) ELSE Interfaces[d]

\* The interfaces set_network_state goes through: all of them, in order.
ToSet(r) == Interfaces[request[r].device]
-----------------------------------------------------------------------------
\* Mutant of Begin: no restoration looks at CORE01.
BeginUnchecked(r, d, up) ==
  /\ request[r] = Idle
  /\ request' = [request EXCEPT ![r] =
       [at |-> "set", device |-> d, up |-> up, next |-> 1, dark |-> {}, misread |-> {},
        alone |-> TRUE, steady |-> TRUE]]
  /\ UNCHANGED <<link, routes, late>>

\* disable, and restore of anything but an access switch, set the interfaces at once.
\* alone and steady are history: nothing else changed the device, or CORE01, since.
\* misread is history: the required interfaces whose state the request was told wrongly.
Begin(r, d, up) ==
  /\ request[r] = Idle
  /\ request' = [request EXCEPT ![r] =
       [at |-> IF up /\ d \in Switches THEN "check" ELSE "set",
        device |-> d, up |-> up, next |-> 1, dark |-> {}, misread |-> {},
        alone |-> TRUE, steady |-> TRUE]]
  /\ UNCHANGED <<link, routes, late>>

Reading(r) == request[r].at \in {"check", "report"}

\* One command of network_state.  It answers with the state of the interface; or it is
\* refused, which leaves flags 0 and reads as down; or it prints no number, which is
\* "unknown" and counts as up.
ReadsInterface(r, up) ==
  LET d == Subject(r)
      i == Interfaces[d][request[r].next] IN
  /\ Reading(r) /\ request[r].next <= Len(Interfaces[d])
  /\ request' = [request EXCEPT
       ![r].next = @ + 1,
       ![r].dark = IF up THEN @ ELSE @ \cup {i},
       ![r].misread = IF link[d][i] = up \/ i \in Optional[d] THEN @ ELSE @ \cup {<<d, i>>}]
  /\ UNCHANGED <<link, routes, late>>

\* The container or the interface cannot be queried in time, or inspect reports that CORE01
\* does not run: the request ends.
ReadFails(r) ==
  /\ Reading(r)
  /\ request' = [request EXCEPT ![r] = Idle]
  /\ UNCHANGED <<link, routes, late>>

HasRead(r) == Reading(r) /\ request[r].next > Len(Interfaces[Subject(r)])

\* "operational" of network_state.
SeenUp(r) == request[r].dark \cap Required(Subject(r)) = {}

\* Mutant of CoreChecked: what was read of CORE01 is kept.
CoreCheckedKeeps(r) ==
  /\ HasRead(r) /\ request[r].at = "check"
  /\ request' = [request EXCEPT ![r] =
       IF SeenUp(r) THEN [@ EXCEPT !.at = "set", !.next = 1] ELSE Idle]
  /\ UNCHANGED <<link, routes, late>>

\* upstream_unavailable, or on to the switch.
CoreChecked(r) ==
  /\ HasRead(r) /\ request[r].at = "check"
  /\ request' = [request EXCEPT ![r] =
       IF SeenUp(r) THEN [@ EXCEPT !.at = "set", !.next = 1, !.dark = {}] ELSE Idle]
  /\ UNCHANGED <<link, routes, late>>

\* ip link set: routes over an interface that goes down are dropped.
TakesLink(d, i, up) ==
  /\ link' = [link EXCEPT ![d][i] = up]
  /\ routes' = [routes EXCEPT ![d] = IF up THEN @ ELSE @ \ {i}]

\* History of a request when something else changes device d.
Noticed(q, d) ==
  IF q = Idle THEN Idle ELSE [q EXCEPT !.alone = @ /\ q.device # d, !.steady = @ /\ d # Core]

\* Request r changes device d and goes on.
Notice(r, d, next) ==
  request' = [k \in Requests |-> IF k = r THEN next ELSE Noticed(request[k], d)]

\* One command of set_network_state; after the last the device is read back.
SetsInterface(r) ==
  LET d == request[r].device
      last == request[r].next = Len(ToSet(r)) IN
  /\ request[r].at = "set"
  /\ TakesLink(d, ToSet(r)[request[r].next], request[r].up)
  /\ Notice(r, d, IF last THEN [request[r] EXCEPT !.at = "report", !.next = 1]
                          ELSE [request[r] EXCEPT !.next = @ + 1])
  /\ UNCHANGED late

\* The command is refused, or done while its answer is lost, or given up while it may still
\* be done later: the rest is not attempted.
SetFails(r) ==
  LET d == request[r].device
      i == ToSet(r)[request[r].next] IN
  /\ request[r].at = "set"
  /\ \/ TakesLink(d, i, request[r].up) /\ Notice(r, d, Idle) /\ UNCHANGED late
     \/ /\ late' \in {late} \cup {late \cup {[device |-> d, port |-> i, up |-> request[r].up]}}
        /\ Cardinality(late') <= MaxLate
        /\ request' = [request EXCEPT ![r] = Idle]
        /\ UNCHANGED <<link, routes>>

\* A command that was given up takes effect; every request in flight is disturbed by it.
TakesEffectLate(c) ==
  /\ TakesLink(c.device, c.port, c.up)
  /\ late' = late \ {c}
  /\ request' = [r \in Requests |-> Noticed(request[r], c.device)]

Replies(r) ==
  /\ HasRead(r) /\ request[r].at = "report"
  /\ request' = [request EXCEPT ![r] = Idle]
  /\ UNCHANGED <<link, routes, late>>

InfrastructureAction(r) ==
  \/ \E d \in Devices, up \in BOOLEAN : Begin(r, d, up)
  \/ (\E up \in BOOLEAN : ReadsInterface(r, up)) \/ ReadFails(r) \/ CoreChecked(r)
  \/ SetsInterface(r) \/ SetFails(r) \/ Replies(r)

Next ==
  \/ \E r \in Requests : InfrastructureAction(r)
  \/ \E c \in late : TakesEffectLate(c)

Spec == Init /\ [][Next]_vars
-----------------------------------------------------------------------------
(* Properties *)

RequestType ==
  {Idle} \cup [at : {"check", "set", "report"}, device : Devices, up : BOOLEAN, next : Nat,
               dark : SUBSET UNION {Ports(d) : d \in Devices},
               misread : SUBSET (Devices \X UNION {Ports(d) : d \in Devices}),
               alone : BOOLEAN, steady : BOOLEAN]

\* Links and requests keep their types, a request holds readings of its subject only, what
\* is late is a command for an interface of its device, and no route runs over an interface
\* that is down.
TypeOK ==
  /\ DOMAIN link = Devices /\ \A d \in Devices : link[d] \in [Ports(d) -> BOOLEAN]
  /\ request \in [Requests -> RequestType]
  /\ \A r \in Requests : request[r] # Idle =>
       request[r].dark \subseteq Ports(Subject(r)) /\ request[r].next <= Len(Interfaces[Subject(r)]) + 1
  /\ \A c \in late : c.device \in Devices /\ c.port \in Ports(c.device) /\ c.up \in BOOLEAN
  /\ DOMAIN routes = Devices
  /\ \A d \in Devices : routes[d] \subseteq {i \in StaticRoutes[d] : link[d][i]}

Misread(r) == {i \in Ports(request[r].device) : <<request[r].device, i>> \in request[r].misread}

\* infrastructure_action: an action that nothing else disturbed has set every interface of
\* its device, whatever failed, overlapped or came late before.  Its reply may say otherwise
\* of a restoration only if one interface was read wrongly, and of a disabled device only if
\* all were.
UndisturbedActionTakesEffect ==
  \A r \in Requests : request[r].at = "report" /\ request[r].alone =>
    /\ AllAre(request[r].device, request[r].up)
    /\ HasRead(r) /\ request[r].up /\ ~SeenUp(r) => Misread(r) # {}
    /\ HasRead(r) /\ ~request[r].up /\ SeenUp(r) => Misread(r) = Required(request[r].device)

\* The order of recovery: while a switch is being restored, and when the request replies,
\* every interface CORE01 depends on is up, unless CORE01 itself was changed since the
\* request began, or the state of the interface could not be told from the answer.
RestoredUnderCore ==
  \A r \in Requests :
    request[r].at \in {"set", "report"} /\ request[r].up /\ request[r].device \in Switches
      /\ request[r].steady
        => \A i \in Required(Core) : link[Core][i] \/ <<Core, i>> \in request[r].misread

\* A device that is online, with nobody changing it, has the static routes of the topology.
RestoredIsRouted ==
  \A d \in Devices :
    (\A r \in Requests : request[r] = Idle) /\ late = {} /\ AllAre(d, TRUE)
      => routes[d] = StaticRoutes[d]
=============================================================================
