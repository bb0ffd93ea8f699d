------------------------------ MODULE Monitoring ------------------------------
(***************************************************************************)
(* The alert lifecycle: AlertTracker (backend/app/services/alerts.py) fed  *)
(* by overlapping GET /api/lab and GET /api/monitoring requests.           *)
(*                                                                         *)
(* A request ("poll") awaits the account health, then gathers the status   *)
(* of every device concurrently, and only then reconciles the tracker in   *)
(* one synchronous piece.  The status of one device takes several commands *)
(* itself: its container, then each interface its state depends on, or the *)
(* service of an endpoint.  The lab changes between any two of them, each  *)
(* may answer wrongly, and another poll may reconcile first.  The event    *)
(* feed, which nothing reads back, is left out.                            *)
(***************************************************************************)
EXTENDS Integers, Sequences, FiniteSets, Functions

CONSTANTS
  Devices,       \* hostnames of the current devices
  TypeOf,        \* [Devices -> device_type]
  Upstream,      \* [Devices -> SUBSET Devices]: the dependencies of all_device_statuses
  Links,         \* [Devices -> sequence]: the container, and the interfaces of
                 \* network_state that a device of the infrastructure depends on
  Outages,       \* [Devices -> sets of its links that can be down together]
  Reports,       \* [Devices -> set of [status, faults]] a device can report while these are up
  Issues,        \* <<user, issue>> pairs account_health can find
  Polls,         \* requests that may be in flight together
  HistoryLimit,  \* history_limit (100 in the code)
  MaxChanges     \* bound: how often the lab changes, or a read fails or errs, in one behaviour

Online      == [status |-> "online", faults |-> {}]
Offline     == [status |-> "offline", faults |-> {}]
Unavailable == [status |-> "unavailable", faults |-> {}]

\* endpoint_ports: the devices with a service that reports their status.
Endpoint(d) == TypeOf[d] \in {"printer", "workstation", "file_server"}

ASSUME HistoryAssumption == HistoryLimit \in Nat \ {0} /\ MaxChanges \in Nat
\* The lab is finite, and so is what can be wrong with it.
ASSUME LabAssumption ==
  /\ IsFiniteSet(Devices) /\ IsFiniteSet(Issues)
  /\ Upstream \in [Devices -> SUBSET Devices]
  /\ \A d \in Devices :
       /\ Links[d] \in Seq(Range(Links[d])) /\ Links[d] # <<>>
       /\ {} \in Outages[d] /\ Outages[d] \subseteq SUBSET Range(Links[d])
       /\ Online \in Reports[d]
       /\ \A report \in Reports[d] : IsFiniteSet(report.faults)
       /\ IF Endpoint(d) THEN Links[d] = <<"container">> ELSE Reports[d] = {Online}

VARIABLES
  device,     \* each device: its links that are down, and what it reports else
  issues,     \* what the directory would report now
  directory,  \* whether the directory answers
  changes,    \* changes of the lab, failed and wrong reads so far
  poll,       \* each request: where it is and what it has read
  alerts,     \* AlertTracker.alerts: id -> [key, status], newest HistoryLimit ids
  active,     \* active_by_condition: key -> id
  nextId,     \* next_id
  recovered   \* history: open ids whose condition has been absent since they opened, or whose
              \* impact has been relieved

lab     == <<device, issues, directory, changes>>
tracker == <<alerts, active, nextId>>
vars    == <<lab, poll, tracker, recovered>>
-----------------------------------------------------------------------------
Key(kind, subject, detail) == [kind |-> kind, subject |-> subject, detail |-> detail]

States(d) == [down : Outages[d], report : Reports[d]]

\* What a device would report if it were read at this moment.
Status(state)  == IF state.down = {} THEN state.report ELSE Offline
Reported(dev)  == [d \in Devices |-> Status(dev[d])]

Down(status) == status \in {"offline", "unavailable"}

\* Dependency impact as all_device_statuses derives it from one set of reads.
Impacted(seen, d) == \E u \in Upstream[d] : seen[u].status = "offline"

\* conditions_from_state: the keys of the conditions in one set of reads.
ConditionsFromState(seen, found, answered) ==
  LET downs == {d \in Devices : Down(seen[d].status)} IN
  UNION {
    {Key("availability", d, "") : d \in downs},
    {Key("dependency", d, "") : d \in {d \in Devices \ downs : Impacted(seen, d)}},
    {Key("attention", d, "") :
       d \in {d \in Devices : TypeOf[d] = "printer" /\ seen[d].status = "attention"}},
    UNION {{Key("service", d, fault) : fault \in seen[d].faults} :
       d \in {d \in Devices : TypeOf[d] = "file_server" /\ seen[d].status = "online"}},
    IF answered THEN {} ELSE {Key("directory", "DC01", "")},
    {Key("account", issue[1], issue[2]) : issue \in found} }

\* The conditions that hold in the lab at this moment, whoever can read them.
Conditions == ConditionsFromState(Reported(device), issues, directory)

IdlePoll == [at |-> "idle"]

Init ==
  /\ device = [d \in Devices |-> [down |-> {}, report |-> Online]]
  /\ issues = {} /\ directory = TRUE /\ changes = 0
  /\ poll = [p \in Polls |-> IdlePoll]
  /\ alerts = <<>> /\ active = <<>> /\ nextId = 1
  /\ recovered = {}
-----------------------------------------------------------------------------
(* The lab *)

\* An upstream that was offline has come back; another one may still be offline.
Relieved(key) ==
  key.kind = "dependency"
    /\ \E u \in Upstream[key.subject] :
         Status(device[u]).status = "offline" /\ Status(device'[u]).status # "offline"

LabChanges ==
  /\ changes < MaxChanges
  /\ changes' = changes + 1
  /\ recovered' = recovered \cup
       {active[key] : key \in {k \in DOMAIN active :
          k \notin ConditionsFromState(Reported(device'), issues', directory') \/ Relieved(k)}}
  /\ UNCHANGED tracker

\* The reading of device d has begun and is not finished.
Midway(q, d) == q.at = "gather" /\ q.asked[d] > 0 /\ d \notin DOMAIN q.seen

\* History of a poll: the reading of d no longer belongs to one moment, or had a wrong answer.
Blurs(q, d) == [q EXCEPT !.blurred = @ \cup {d}]

DeviceChanges(d) ==
  /\ \E state \in States(d) \ {device[d]} : device' = [device EXCEPT ![d] = state]
  /\ poll' = [p \in Polls |-> IF Midway(poll[p], d) THEN Blurs(poll[p], d) ELSE poll[p]]
  /\ UNCHANGED <<issues, directory>>
  /\ LabChanges

AccountChanges(issue) ==
  /\ directory
  /\ issues' = IF issue \in issues THEN issues \ {issue} ELSE issues \cup {issue}
  /\ UNCHANGED <<device, directory, poll>>
  /\ LabChanges

DirectoryChanges ==
  /\ directory' = ~directory
  /\ UNCHANGED <<device, issues, poll>>
  /\ LabChanges
-----------------------------------------------------------------------------
(* One request *)

\* await account_health(), or the "unavailable" summary when it raises; one answer
\* of the directory stands for the users it is asked for.  latest is history: no
\* other poll has reconciled since this one began.
ReadAccounts(p) ==
  /\ poll[p].at = "idle"
  /\ poll' = [poll EXCEPT ![p] =
       [at |-> "gather", answered |-> directory, found |-> IF directory THEN issues ELSE {},
        asked |-> [d \in Devices |-> 0], dark |-> {}, seen |-> <<>>,
        latest |-> TRUE, blurred |-> {}]]
  /\ UNCHANGED <<lab, tracker, recovered>>

\* The status of d is known to the poll.
Sees(q, d, status) ==
  [q EXCEPT !.seen = [e \in DOMAIN @ \cup {d} |-> IF e = d THEN status ELSE @[e]]]

\* The poll after the next link of d answered: one that is down makes the device offline,
\* and an endpoint whose container runs is asked for its status next.
Heard(q, d, up) ==
  LET heard == [q EXCEPT !.asked[d] = @ + 1, !.dark = IF up THEN @ ELSE @ \cup {d}] IN
    IF heard.asked[d] < Len(Links[d]) \/ (Endpoint(d) /\ d \notin heard.dark) THEN heard
    ELSE Sees(heard, d, IF d \in heard.dark THEN Offline ELSE Online)

Asking(q, d) == q.at = "gather" /\ q.asked[d] < Len(Links[d])
NextLink(q, d) == Links[d][q.asked[d] + 1]

\* An interface is asked for inside its container.
IsUp(d, i) == device[d].down \cap {"container", i} = {}

\* Mutant of ReadsLink: only the last link of a device counts.
ReadsLastLink(p, d) ==
  /\ Asking(poll[p], d)
  /\ poll' = [poll EXCEPT ![p] =
       Heard([poll[p] EXCEPT !.dark = {}], d, IsUp(d, NextLink(poll[p], d)))]
  /\ UNCHANGED <<lab, tracker, recovered>>

\* One command of device_status: docker inspect, or docker exec for an interface.
ReadsLink(p, d) ==
  /\ Asking(poll[p], d)
  /\ poll' = [poll EXCEPT ![p] = Heard(poll[p], d, IsUp(d, NextLink(poll[p], d)))]
  /\ UNCHANGED <<lab, tracker, recovered>>

AskingService(q, d) ==
  q.at = "gather" /\ Endpoint(d) /\ q.asked[d] = Len(Links[d]) /\ d \notin DOMAIN q.seen

\* request_endpoint: a second inspect and GET /status.
ReadsService(p, d) ==
  /\ AskingService(poll[p], d)
  /\ poll' = [poll EXCEPT ![p] =
       Sees(poll[p], d, IF device[d].down = {} THEN device[d].report ELSE Unavailable)]
  /\ UNCHANGED <<lab, tracker, recovered>>

\* A read that fails or errs counts as a change of the lab.
ReadErrs ==
  changes < MaxChanges /\ changes' = changes + 1
    /\ UNCHANGED <<device, issues, directory, tracker, recovered>>

\* A command that is refused reads as down (a container that does not run, or flags 0), and
\* flags that are no number read as up ("unknown").
MisreadsLink(p, d) ==
  /\ Asking(poll[p], d)
  /\ LET up == ~IsUp(d, NextLink(poll[p], d)) IN
       /\ up => NextLink(poll[p], d) # "container"
       /\ poll' = [poll EXCEPT ![p] = Blurs(Heard(poll[p], d, up), d)]
  /\ ReadErrs

\* The service does not answer in time.
ServiceFails(p, d) ==
  /\ AskingService(poll[p], d)
  /\ poll' = [poll EXCEPT ![p] = Blurs(Sees(poll[p], d, Unavailable), d)]
  /\ ReadErrs

\* Mutant of Numbering: the first number is skipped.
NumberingLate(new) ==
  CHOOSE number \in [new -> (nextId + 1)..(nextId + Cardinality(new))] : IsInjective(number)

\* New conditions get consecutive ids in the order of the snapshot.
Numbering(new) ==
  CHOOSE number \in [new -> nextId..(nextId + Cardinality(new) - 1)] : IsInjective(number)

\* Mutant of Resolve: forgets the condition but leaves its record open.
ForgetOnly(records, gone) == records

\* The records of conditions that are gone are marked resolved.
Resolve(records, gone) ==
  [id \in DOMAIN records |->
     IF records[id].key \in gone /\ active[records[id].key] = id
       THEN [records[id] EXCEPT !.status = "resolved"] ELSE records[id]]

\* del self.alerts[history_limit:] of a list whose newest record comes first.
Retained(ids) == {id \in ids : Cardinality({later \in ids : later > id}) < HistoryLimit}

New(conditions) == conditions \ DOMAIN active

\* Mutant of Gone: an account alert is not closed.
GoneDevices(conditions) == {key \in DOMAIN active \ conditions : key.kind # "account"}

Gone(conditions) == DOMAIN active \ conditions

\* AlertTracker.reconcile with the conditions of one snapshot.
Reconcile(conditions) ==
  LET number   == Numbering(New(conditions))
      opened   == [id \in Range(number) |->
                     [key |-> CHOOSE key \in New(conditions) : number[key] = id,
                      status |-> "active"]]
      resolved == Resolve(alerts, Gone(conditions))
      all      == DOMAIN resolved \cup DOMAIN opened
  IN /\ active' = [key \in (DOMAIN active \ Gone(conditions)) \cup New(conditions) |->
                     IF key \in New(conditions) THEN number[key] ELSE active[key]]
     /\ alerts' = [id \in Retained(all) |->
                     IF id \in DOMAIN opened THEN opened[id] ELSE resolved[id]]
     /\ nextId' = nextId + Cardinality(New(conditions))

\* Every device has answered: overview reconciles and the request ends.
Overview(p) ==
  /\ poll[p].at = "gather" /\ DOMAIN poll[p].seen = Devices
  /\ Reconcile(ConditionsFromState(poll[p].seen, poll[p].found, poll[p].answered))
  /\ poll' = [q \in Polls |->
       IF q = p THEN IdlePoll
       ELSE IF poll[q].at = "gather" THEN [poll[q] EXCEPT !.latest = FALSE] ELSE poll[q]]
  /\ recovered' = {active'[key] : key \in
       {k \in DOMAIN active' : k \notin Conditions \/ active'[k] \in recovered}}
  /\ UNCHANGED lab

\* The runtime cannot be queried for a device: device_status raises through the gather and
\* the request ends without reconciling.
PollFails(p) ==
  /\ poll[p].at = "gather" /\ DOMAIN poll[p].seen # Devices
  /\ poll' = [poll EXCEPT ![p] = IdlePoll]
  /\ ReadErrs

PollStep(p) ==
  \/ ReadAccounts(p) \/ Overview(p)
  \/ \E d \in Devices : ReadsLink(p, d) \/ ReadsService(p, d)

PollErrs(p) ==
  \/ PollFails(p)
  \/ \E d \in Devices : MisreadsLink(p, d) \/ ServiceFails(p, d)

Next ==
  \/ \E d \in Devices : DeviceChanges(d)
  \/ \E issue \in Issues : AccountChanges(issue)
  \/ DirectoryChanges
  \/ \E p \in Polls : PollStep(p) \/ PollErrs(p)

Spec == Init /\ [][Next]_vars

\* The pages poll every five seconds and every read has a timeout: each slot keeps
\* polling.  Nothing makes the lab change or a read fail or err.
FairSpec == Spec /\ \A p \in Polls : WF_vars(PollStep(p))
-----------------------------------------------------------------------------
(* Properties *)

Kinds == {"availability", "dependency", "attention", "service", "directory", "account"}

\* What the status of a device can turn out to be.
Outcomes(d) == Reports[d] \cup {Offline, Unavailable}

\* Reads stay partial views of the devices; records carry numbers already given out, and no
\* two open conditions carry the same.
TypeOK ==
  /\ \A d \in Devices : device[d] \in States(d)
  /\ issues \subseteq Issues /\ directory \in BOOLEAN /\ changes \in 0..MaxChanges
  /\ \A p \in Polls : poll[p].at = "gather" =>
       /\ DOMAIN poll[p].seen \subseteq Devices
       /\ \A d \in DOMAIN poll[p].seen : poll[p].seen[d] \in Outcomes(d)
       /\ \A d \in Devices : poll[p].asked[d] \in 0..Len(Links[d])
       /\ poll[p].dark \subseteq Devices /\ poll[p].blurred \subseteq Devices
  /\ DOMAIN alerts \subseteq 1..(nextId - 1)
  /\ \A id \in DOMAIN alerts : alerts[id].status \in {"active", "resolved"}
  /\ \A key \in DOMAIN active : key.kind \in Kinds /\ active[key] \in 1..(nextId - 1)
  /\ IsInjective(active)

ShownOpen == {id \in DOMAIN alerts : alerts[id].status = "active"}

\* A condition is never shown twice: whatever polls overlap, every record shown as
\* active is the one the tracker will resolve when its condition goes away.
ShownAlertsAreTracked ==
  \A id \in ShownOpen : alerts[id].key \in DOMAIN active /\ active[alerts[id].key] = id

\* Each active condition has its record among the alerts that are shown.
ActiveConditionsAreShown == {active[key] : key \in DOMAIN active} \subseteq DOMAIN alerts

Resolves(id) == id \in Range(active) /\ id \notin Range(active')

\* The devices whose reads decide a condition.
Readings(key) ==
  IF key.kind = "dependency" THEN {key.subject} \cup Upstream[key.subject]
  ELSE IF key.kind \in {"directory", "account"} THEN {} ELSE {key.subject}

\* A poll that nobody overtook and that the directory answered resolves an alert only
\* if its condition has really been absent since the alert was opened, although the
\* devices were read one after the other while the lab changed, unless a device that
\* decides the condition changed while it was being read itself, or answered wrongly.  The
\* impact on a device behind several others is the other exception: when one of these comes
\* back and another one goes offline, the poll may have seen both online and the impact gone,
\* which it never was.
LatestPollResolvesTruthfully ==
  [][\A p \in Polls :
       poll[p].at = "gather" /\ poll'[p].at = "idle" /\ poll[p].latest /\ poll[p].answered
         => \A key \in DOMAIN active : Resolves(active[key])
              => active[key] \in recovered \/ Readings(key) \cap poll[p].blurred # {}]_vars

\* Conditions the directory cannot report while it does not answer.
Readable == ConditionsFromState(Reported(device), IF directory THEN issues ELSE {}, directory)

\* Once the lab settles, the open conditions become and stay exactly those of the
\* lab: late polls with old reads do no lasting damage.
MonitoringConverges == <>[](DOMAIN active = Readable)
=============================================================================
