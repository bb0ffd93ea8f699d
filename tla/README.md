# Verification of netops-lab

TLA+ modules for the network operations lab: a FastAPI backend that watches and
operates a Containerlab of printers, workstations, switches, a file server and a
Samba domain controller. The modules are checked with TLC on small instances, and
TLAPS proves every safety property those runs check for every value of the constants
(four of them for requests that do not overlap).

## 1. The system

### Processes and shared state

| Component | Source | State it keeps | Operations |
|---|---|---|---|
| Printer container | `containers/printer/` | status, message, paper, toner, levels, queue, next job number; an Event | HTTP routes in threads, a queue worker |
| Workstation container | `containers/workstation/` | online flag; the kernel's `eth1` and route | go offline / online, submit a print job, status |
| File server container | `containers/file-server/` | disabled and read-only shares, the smbd process | faults and remediations, status |
| DC01 boot script | `containers/domain-controller/` | Samba database, migration marker | provision accounts, groups and computers once |
| Alert lifecycle | `backend/app/services/alerts.py` | alerts, open conditions, next number | `reconcile` a snapshot |
| Lab service | `backend/app/services/lab.py` | inventory, event feed, observed health | poll devices, device and switch actions |
| Docker runtime | `backend/app/services/runtime.py` | none | inspect, interfaces, commands of DC01 |
| Provisioning service | `backend/app/services/provisioning.py` | drafts; the extensions file | draft, apply, remove, create, assign, unassign |
| Active Directory service | `backend/app/services/active_directory.py` | user and group configurations in memory | users, groups, enable, disable, delete |
| File server service | `backend/app/services/fileserver.py` | none | faults, remediations, access |
| Ticket service | `backend/app/services/tickets.py` | tickets, next number, saved as JSON | generate, start, resolve, verify |
| Inventory | `containers/common/inventory.py` | devices | load, lookup |
| Frontend | `frontend/` | one page's copy of the overview | poll every five seconds, actions |

The backend is one asyncio process: what runs between two `await`s is atomic, and
every `await` lets other requests run. It calls containers over HTTP and DC01
through `docker exec`; each call may be refused, and each may take effect although
its answer is lost to a timeout. Containers serve requests in threads. The backend
keeps the extensions file (`lab_extensions.json`, the record of every runtime
change) and the tickets on disk; DC01 keeps its directory. Alerts, drafts and
everything else in the containers are in memory only.

### What is hard, and what makes each part correct

- **Printer**: clear / test of the worker against enqueue / set of the handlers;
  methods that do not refresh the status; a queue that changes during the two
  seconds of a print. Correct when no wake-up is lost, the published status and
  message are true, and jobs come out once and in order.
- **Workstation**: three steps without a lock (link, route, flag), each of which may
  fail; an online check that is stale when the job is sent; a job that arrives after
  its request gave up; the *last* job of a reply taken for the own one.
- **Alerts**: overlapping polls reconciled in any order, devices read command by
  command while the lab changes, refused commands taken for down, a directory that does
  not answer, a bounded history.
- **Tickets**: locks read before awaits and used after them, faults injected one
  await at a time, checks awaited one by one, restarts.
- **Provisioning**: one file, DC01, the lab and two caches to be kept in agreement
  across failures at every command; drafts that reserve nothing; cached extensions
  written back after an await.
- **File server**: two ip commands for one state, a process tested, started and
  stopped without a lock by threads that outlive the requests they serve, readings
  that are judged after other requests ran. Correct when a reply is true unless
  another request disturbed it, one smbd serves, and access is decided as it is
  listed.
- **Network devices**: one interface at a time, a check of CORE01 that is stale when
  used or rests on a wrong answer, commands done after they were given up, routes the
  kernel drops. Correct when an action takes effect whatever
  half-done state it finds, and recovery keeps its order.
- **DC01 boot**: a script interrupted anywhere and repeated from its first command, while
  operators change the same database, a marker that must stand for a complete baseline and
  protect later changes.

`PROJECT.json` lists these hazards at their lines with the properties for each.

## 2. Plan

Built, in this order: `Printer` with its abstract `PrintSpool` and `PrinterProofs`,
`Monitoring`, `Tickets`, `Provisioning`, `Workstation` (composed with `PrintSpool`,
which the printer implements), `Infrastructure`, `FileServer`, `DirectoryBoot`, and
in `Provisioning` the Former-Employees cascade and requests that overlap; then the
proofs, one `...Proofs` module beside each of the eight components, until every invariant
and action property of the passing runs was a theorem. To come:

1. Theorems beyond the properties that are run, like `UndisturbedDepartment` (section 5):
   what of the theorems about requests that do not overlap also holds of an undisturbed
   request among others.
2. In `Provisioning`, device requests that overlap with employee requests.
3. The frontend's forced refresh against a poll in flight.

## 3. Modules

All modules are parameterised by CONSTANTS with named assumptions and contain no
RECURSIVE operator: `Level` (FileServer) is a recursive function, and `Script`
(DirectoryBoot) is put together with `FlattenSeq`. An operator preceded by a comment
"Mutant of ..." is a plausible bug kept beside the definition it would replace; no
specification uses it, and replacing the definition by it makes TLC find one of the
properties violated.

### Printer, PrintSpool, PrinterProofs

`Printer` has the attributes of `PrinterState` as variables, plus the Event
(`changed`), the place of the worker (`wait`, `clear`, `test`, `print`) and of each
handler thread (`idle`, `check`, `set`, `reply`), and `printed`, a history of the jobs
that came out. Every method of `PrinterState` holds one RLock and is therefore one
step; `_update_state` is part of every step whose method calls it, and of none whose
method does not. A request is the method, then `has_jobs` (for the routes that wake),
then `Event.set`, then the `public_status` of the reply. `WorkerPrints` and
`WorkerRefused` come after the sleep, when the queue may be another. Page counts that
the client leaves out are random in the code and any page count in the model. Texts
and `last_event` are left out; which message is shown is kept, and a "getting low"
warning counts as the ready message. 404s and the page are left out.

`PrintSpool` is what the printer promises: jobs numbered in order of acceptance, each
delivered once and in that order, nothing accepted or delivered offline. `Printer`
implements it under the mapping `pending <- queue`, `output <- printed`,
`online <- status # "offline"` (`SpoolSpec`).

### Workstation

`link`, `route` and `online` per workstation, and the place of each request thread.
A state request is the `ip link` command, for going online the `ip route` command, and
the flag; each command may be refused or time out with its effect done, and the
request then ends with a 503. The kernel drops the route when the link goes down.
A print request checks the flag, and posts to the printer (`PrintSpool`, instantiated) in
steps: the post leaves, for which it needs the link; it arrives, whatever became of the
link meanwhile; the reply comes back, or does not. Of the reply it takes the last waiting
job for its own. A request that gives up on a post under way leaves it to arrive later
(`late`, one per workstation). `ThreadType` says which fields a
thread carries at each place. The printer is on the
workstation's own subnet, so that a job needs the link and not the route. `clean` (the
last state request to end was alone and succeeded) and `replies` are histories.

### Monitoring

`alerts` maps the numbers of the retained records to condition and status, `active` is
`active_by_condition`. A poll reads the accounts, then the devices side by side, then
reconciles in one step. A device is read command by command, as `device_status` does: of a
device of the infrastructure one link after the other (`Links`: its container and the
interfaces it depends on), of an endpoint the container and then its service
(`ReadsService`). The lab changes between any two commands (`Outages`: which links of a
device can be down together; `Reports`: what an endpoint says while they are up). A command
that is refused is taken for a link that is down, flags that are no number for one that is
up (`MisreadsLink`), and a service may not answer in time (`ServiceFails`). A poll's
`blurred` is a history of the devices whose reading belongs to no one moment or had a wrong
answer. Resolution, new numbers and the truncation of the history follow `reconcile` in
order. A runtime that cannot be queried ends the poll without reconciling. Device, account
and directory changes are the environment. `recovered` is a history: the numbers of the
alerts whose condition was absent at some moment since they were opened, or whose impact was
relieved (`Relieved`: one of the devices it depends on came back). `LabAssumption` says that
devices and what can be wrong with them are finite, which the `CHOOSE` of the next numbers
needs. Severities, texts and the event feed are left out: no step reads them back.

### Tickets

The lab is a set of facts. A scenario says which facts it needs, which it breaks and in what
order, what each recovery check needs, which resources it holds, and which of them
`_candidates` tests (`tested`): offboarding tests the employee only and holds the
workstation as well. The instances take five scenarios from `_candidates` and
`_apply_scenario`. `generate` is: locks, three readings, choice, one step per fault, ticket;
`resolve` is: status, one step per check, resolution. A fault may be refused or done with
its answer lost; the file-server scenario then awaits a restart that may fail as well.
Readings and checks may raise. Saves are assumed to succeed, so that memory and disk are
equal and a restart loses exactly the requests in flight. `alone` and `together` are
histories.

### Provisioning

`disk` is the extensions file, `inventory` and `accounts` are what the backend derived
from it at its last loads, `topology` and `running` the generated and the deployed lab,
`directory` DC01. The overrides are kept merged with the baseline they override.
Each command of DC01 is `done`, `refused` or `lost` (done, but answered by a timeout);
a save, the rendering that follows it (`Records`) and a deployment may fail; a restart may
come between any two steps. A draft avoids the hosts and numbers of memory and of disk. A lost
command is taken to have its effect when the timeout fires. `users()` asks for the
users in a fixed order. Profile overrides (department and floor of a user) are written
together with the workstation override and are left out. `unrecorded` is a history of
the users whose account and record a failure or a restart set apart.
`InventoryAssumption` is what the two configuration files and `users()` are: a sequence of
users, at most one holder for every workstation, and None no name of anything.

The Active Directory actions modelled here are those that the provisioning state
depends on: enable, disable, department memberships, deletion, and the move to
Former-Employees, which is a membership, the disabling of the account, a reading of the
groups and one command per group left, each of which may fail. `quiet` is a history of
the requests since whose begin nobody else changed the record, memory or the directory;
it is what the properties of overlapping requests speak of.

### Infrastructure

`link` has the interfaces of every network device, `routes` the interfaces over which
the static routes of the topology are installed. `infrastructure_action` is: for the
restoration of an access switch a reading of CORE01, one step per interface; one `ip
link` command per interface, in order; a reading back, one step per interface; the
reply. The commands run in a thread, so that other requests run between any two. A
command is done; or refused, done with its answer lost, or given up and done at any later
time (`late`), and the rest is then not attempted. A reading says up or down and may be
wrong, because a refused command leaves flags 0 and flags that are no number count as up; or
it times out. `alone`, `steady` and `misread` (what was read wrongly) are histories.
`DeviceAssumption`: CORE01 is no access switch, and every device has at least one interface
that its state depends on.
FILE01 and DC01 have one interface each like the router, and behave like it.

### FileServer

The container has `link`, `route`, `disabled`, `readOnly` and the smbd process. `action`
runs in a thread without a lock over its commands: going online is two steps, a stop is
the test, SIGTERM and the wait of three seconds, a start is the test and `Popen`. smbd may
also end by itself at any time, or at its start (`SmbdFails`). Where a
request gives up after two seconds its thread may end at any later time; since both are
one slot of `request`, a thread that nobody waits for is one whose reply nobody reads.
`smbd` is "owned" when the process that serves is `smb_process`, and "orphan" when it is
another: then `smb_running` is false, a stop does not stop it and a start starts a second
one, which ends at once.

`remediate` reads the status, decides and posts later; `access_check` reads the account,
the status and the share, one step each; `effective_access` lists the groups of a share
one step each, in any order, and computes the level of a user in the code's order. The
check of the workstation assignment in `access_check` and the wording of reasons are left
out. One user stands for all. `alone` and `halfway` are histories.

### DirectoryBoot

`Script` is the sequence of the commands of `provision.py`, each of which first asks
whether it is needed; `pc` is the next one, `fresh` is `is_new`. `dir` is the Samba
database, which survives, with its users, groups, memberships, disabled accounts and
computers; `marker` and `domain` (smb.conf) survive as well. A boot may find any
directory of `Existing`: users and groups of this or an earlier baseline, where members and
disabled users exist (`Consistent`), as samba keeps them. `Crash` is a crash, a failed
command (`check=True`) or a restart.

The backend runs `samba-tool` in the container, on the same database, so that operators
change memberships and accounts, delete users and create them again between any two commands
of the script as well as later (`Operate`). Commands of the script that need a user fail
when it was deleted, and the boot with them. A command that asks before it acts is one step:
an operator's command between the question and the act has the result it has before or after
both, or makes the act fail. `created` (users a boot created), `cut` (those whose turn was
interrupted after that) and `operated` (what an operator changed since the script last set
it; `Overruled` are the users whose account is in it) are histories. `dir.settings` says
that the account settings and the password policy were made, not that nobody changed them
later: password resets and unlocks are left out.

## 4. Runs

| Run | Instance and bounds | States | Shows |
|---|---|---|---|
| `printer` | 2 handlers, 1 allowed and 1 foreign source, 8 sheets, 3 toner, jobs of 2 and 6 pages, 3 jobs, fair | 0.46 M | status and message true; no lost wake-up; order; implements `PrintSpool`; a printable head job comes out |
| `workstation` | 2 workstations with 2 threads, 2 jobs, 5 requests; symmetric | 0.94 M | an undisturbed request heals; nothing leaves an offline workstation; a job number reported is not older than the own |
| `monitoring` | core switch with 2 interfaces, file server behind it, one account issue, 2 polls, history of 2, 2 changes or wrong answers, fair | 0.25 M | tracking, truthful resolution, convergence |
| `tickets` | 5 scenarios of no, 1 and 2 faults, 2 generators, 1 resolver, 2 tickets, 2 operator changes | 2.1 M | forward movement, undisturbed requests |
| `provisioning` | 1 office host, 1 host to be drafted on the other floor, 1 user and 1 newcomer, all failures, 1 request at a time, 1 operator change | 2.1 M | record, memory, directory and lab agree |
| `provisioning_overlap` | the same users, 1 floor, no failures, 2 requests, 1 operator change; requests symmetric | 0.8 M | requests that overlap with others but are not disturbed: a save gives a workstation one holder and changes nothing of other users; offboarding leaves no access |
| `infrastructure` | router, CORE01 with uplink, one access link and the services bridge, one switch, 2 requests, all failures and wrong answers, 1 late command | 2.3 M | actions take effect, order of recovery |
| `file_server` | 1 share with 2 groups, 2 requests, switch actions, operators, smbd failing; requests symmetric | 1.9 M | true replies, routes, one smbd, access as listed |
| `directory_boot` | 3 units, 2 groups, 2 users, 1 deprecated user and group, a laptop and a server, every earlier directory of these, 3 disturbances (crashes or operators), fair | 1.2 M | complete baseline under the marker, changes survive, the boot ends |

Two jobs that exhaust either supply, two handlers, and one worker are the smallest instance
in which every refusal and every interleaving of the Event happens; a third job puts a job
behind a failed head. Two polls are enough for a stale one and a newer one, and two
interfaces for a reading that spans a change; services that fail are in `alert_history` and
in the theorems. Two changes let a condition come and go while a poll runs, or an answer be
wrong after a change. Two tickets and two generators collide. The lone newcomer passes
through creation, assignment, unassignment, deletion and creation again, and the one device
that can be drafted is on the floor the office host is not on, so that a move changes the
department. `MaxJobs`, `MaxRequests`, `MaxTickets`, `MaxChanges`, `MaxLate`,
`MaxDisturbances` and `DraftFloors` are the bounds, and appear in the guards under those
names; a workstation has at most one late post. In `tickets` and the two runs of
`Provisioning` deadlock is not checked, because with tickets, drafts and changes used up the
instance really ends; elsewhere it is.

What the less obvious properties say. `AttentionIsJustified` is an equivalence over all
orders of methods, although two of them skip the refresh. `CleanRequestHeals` holds after
any history of failed and racing requests. `OfflineSendsNothing` speaks of jobs that leave
the workstation: one on its way when the interface goes down may still be accepted.
`LatestPollResolvesTruthfully` is what remains of truthfulness when polls overlap: a poll
that no other overtook, with an answering directory, resolves only what was absent, or an
impact that was relieved, at some moment since the alert was opened, unless a reading the
condition depends on is in `blurred`: commands that answer for different moments, or
wrongly, resolve alerts whose condition never went away. The relieved impacts were found by
proving: a device behind two others that fail in turn, one returning while the other goes
down between the reads of a poll, is impacted at every moment, and the poll sees both up and
resolves its impact. That needs three changes, one more than the run has; the theorem covers
any number. `UndisturbedGenerationKeepsApart` speaks of the resources a scenario tests;
offboarding takes a workstation another ticket holds without looking.
`SingleCheckResolvedAfterRecovery` is limited to tickets with one check, since checks
awaited one after another need not hold together. `RecordsMatchDirectory` holds between
requests except for users in `unrecorded`: a refused command alone never gets there, only a
lost answer, a failed rollback or save, a restart, or the creation of a name that was
deleted before, which stays among the deleted users. `AssignmentsAgree` has two parts. The
first is what the code promises of managed users; the second, that no workstation is kept
for a name that was never on record, is what the first needs to be kept: an assignment kept
for such a name would come into force with the next employee created under it.

In the instances of the last three modules, two requests are what any two operators do at
once; every hazard listed there is between two of them, or between one and a failure. The
share of `file_server` lists its reading group after its writing group, the order a level
must not depend on. CORE01 has one interface of each kind: uplink (not required for its
state), access link and bridge. Three disturbances allow a crash in the domain creation, one
in the script and a restart later, or an operator who deletes a user, one who creates it
again, and a crash.

`UndisturbedReplyIsTrue`, `UndisturbedActionTakesEffect`, `AccessIsDecidedAsListed` and the
`Undisturbed...` properties of overlapping requests have one form: after any history of
races and failures, what a request says or saves is right, unless another request changed
what it is about since it began. The code promises no more, because it holds no lock across
its awaits; a request that no longer read what it acts on, or that left out a part, would
break them. In `UndisturbedActionTakesEffect` the lab is as requested without exception;
only what the reply says of it depends on answers that were right. `MarkedIsComplete` and
`FormerEmployeesAreDisabled` except what operators changed after the script had set it
(`operated`), which the script never looks at again. The second also excepts the users in
`cut`, because the code does: a boot that creates a former employee and is interrupted
before the account is disabled leaves it enabled, as the next boot sees an existing user.
`BootCompletes` excepts the interrupted creation of the domain: smb.conf exists, and no
later boot gets past it. `OnlineIsRouted` excepts the interfaces in `halfway`: FILE01 raised
by the switch action, or by a request whose route command failed, is online without a route,
and `remediate` then answers that it is already online.

### Disagreements found

Three runs expect a violation, and each checks what the documentation says:

- `alert_history`: the truncation of the history drops a record that is active.
- `tickets_held_twice`: overlapping generations hold the same resource. Without any overlap,
  offboarding holds a workstation that another ticket holds, as its resources are more than
  it tests.
- `restored_router`: a device disabled and restored is online, and reported as recovered,
  without its static routes: RTR01 can no longer answer the office networks. The same
  goes for DC01, FILE01 and the access switches.

Two more have no run of their own, and are notes at their hazards: `backend/README.md`
("validate and reserve a proposed workstation configuration") against drafts that reserve
nothing, so that two may be given one address; `docs/PROJECT_CONTEXT.md` ("rejected while any
expected recovery condition remains active") against checks awaited one after another, which
need not hold together.

Weaknesses that no text of the repository excludes are part of the models, as exceptions
in the properties or notes at the hazards: an employee created again after a deletion stays
hidden, a failed request to go online leaves a workstation reachable and marked offline, an
overtaken poll, a torn reading or a refused command resolves an alert early.

### Fairness

`printer` assumes that the worker and a handler in the middle of a request keep
running: they are threads, the sleep ends, and the RLock is held for one method only.
Nobody is obliged to send a request. `monitoring` assumes that polls go on: an open page
polls every five seconds and every read has a timeout. Nothing makes the lab change or a
read fail or err, and all of these are bounded, which is the hypothesis "once the lab settles".
`directory_boot` assumes that DC01 is started again after it went down, as every deployment
does (`lab.sh`, and `apply` and `remove_device`, destroy and deploy the lab on the state
directories they keep), and that a script which runs goes on; crashes and, during the script,
operators are bounded. All other
runs check safety only and assume no fairness.

## 5. Proofs

Every invariant and every action property of the passing runs is a theorem of its
specification, proved by TLAPS from the named assumptions of the module alone: for any number
of threads, requests and polls, any lab, and any values of the bounds; four theorems of
`Provisioning` add the hypothesis that requests do not overlap. Each proofs module
states an inductive invariant (`IInv`), one lemma per action, and derives the theorems from
it; TLC checked each `IInv` on the instances of section 4 before it was proved.

Most of these invariants have one shape. What a request *knows* is a predicate of the request
and of the state it read; an action of the request itself establishes or extends it, and one
lemma per module says that the steps of others leave it true, because a step that changes what
it is about marks the request as disturbed (`alone` or `steady` turns false, or it leaves
`quiet`). The predicates take the request and the state as parameters, so that the same one
speaks of this state and of the next.

**PrinterProofs.** `TypeCorrect`: supplies never become negative, because a job is printed only
when both suffice. `WakeupNeverLost`: the worker falls asleep only after an empty test or a
refusal, when the head is not printable; it clears the Event only while awake; and each step
that makes the head printable (a job added to an empty queue, a refill, going online, the
removal of the head by a request) is taken by a handler that goes on to `check` or `set`, or by
the worker, which is awake. `AttentionAlwaysJustified`, `MessageAlwaysTrue`: levels, status
and message are what `_update_state` would compute, strengthened by `OnlyHeadFails` (a job
added behind a failed head changes nothing) and by the message a failure leaves.
`QueueInOrder`: numbering through `printed` and `queue`. `PrinterIsSpool`: initial states map
to `PrintSpool`'s, each step to `Accept`, `Deliver`, `Switch` or a stutter. The assumption on
the initial toner is the code's (82 of 100): the constructor sets the level "normal" without
computing it.

**WorkstationProofs.** Posts under way and late ones change only the spool. `Heals` is
`CleanRequestHeals` with what the request that is alone has done so far: it is the only one
of its workstation, and the interface and the route are as it set them. `OfflineIsSilent`
needs it as well: a job needs the link, and link and flag agree. `NotOlder` needs
`Numbered`, that waiting jobs carry the numbers after those printed, so that the last
waiting job is the newest of all.

**MonitoringProofs.** The central notion is `Foreseen`: the conditions a poll will find if the
lab stays as it is, from the devices it has read and the present state of the others; of a
device it is midway through, what its links said so far and what the remaining ones would
say now. As long as the reading is not blurred, that is the present state of the device.
`Truthful` says that an alert whose condition was never absent and never relieved (`Lasting`)
is foreseen by every poll that was not overtaken, whose directory answered and which has
blurred no device the condition depends on; it is kept by
every change of the lab, which is where the relieved impacts are needed (section 4), and by
every reconciliation. That numbers are fresh and tracked rests on `Numbering`, a `CHOOSE` of an
injection, which exists because the conditions are finite.

**TicketsProofs.** A generation that is alone holds locks that cover those of now, or a
scenario whose tested resources nobody holds; locks only go away, except with a new ticket,
which disturbs all others. A resolution is about a ticket that was started and therefore
never becomes Open, and with one check a passed check means that the lab had recovered at
that moment.

**InfrastructureProofs.** `SetSoFar`: the interfaces that an undisturbed request has been
through are as it set them, and what it read back of those it has passed is how they are, but
for those in `misread`; `CoreSoFar` says the same of the readings of CORE01. After the last
position of the sequence every interface of the device has been passed, whatever half-done
state the request began in.

**FileServerProofs.** `OnlineRouted` is inductive once `halfway` is known to cover the two
places where a link is raised without its route. `KnowsFault` gives for every fault what its
test and its commands have established at each place, `KnowsAccess` what an access check or a
list has read. `OrphanAfterRace`: an undisturbed start knows at `spawn` that no smbd serves.
`AccessAsListed` compares two algorithms: `Level` goes through the groups of a share in order,
the check asks for one of the required ones. That both agree for lists of any length
is an induction over the positions, by the well-foundedness of `<` on the naturals (the least
position at which they differ), since theorems that take an operator cannot be used.

**DirectoryBootProofs.** Half of it is about `Script`, a concatenation of sequences made
from the baseline: which commands it has, that every effect is followed by the marker,
that a user comes before its memberships and its disabling, and all groups before any
membership. `FlattenSeq` is a recursive function, unfolded by the same kind of induction.
`DoneSoFar` says that every command before `pc` has its effect in the directory (`Achieved`),
or an operator has changed it since (`Undone`), and that no later command undoes one:
deprecated users and groups are none of the baseline. That an operator's command disturbs
only what it puts into `operated` is `OperateTouches`. `Complete`
follows at the last command. `FormerSoFar` follows a former employee from creation to
disabling through the commands of the turn.

**ProvisioningProofs.** Every place of a request has a record of its own (`WellFormed`), without
which nothing can be said of what it has read. Three layers:

- For all requests, overlapping or not: types, `MemoryFollows`. Requests end between two
  awaits and reload only a part, but each that writes users or assignments reloads them
  in the same step, and what a device request writes and does not reload are devices.
- For undisturbed requests among others: `KnowsRecord` (the scan has seen the
  workstation of every user it has passed; the user to create is still unknown; the
  extensions to be written back are those of now but for the release), `KnowsAccount`
  (the groups still to leave are all that are left) and `KnowsDepartment` (leaving and
  joining what is still to leave and to join gives the new department).
  `OffboardedLoses`, `UndisturbedAgreement`, `UndisturbedOwn` and
  `UndisturbedDepartment` follow; no run checks the last one, which says of an
  undisturbed request what `DepartmentFollowsAssignment` says of one that nobody
  overlaps. `UndisturbedAgreement` needed the second part of `AssignmentsAgree`: without
  it, creating a user whose name a workstation was kept for would break the agreement,
  and the attempt to prove it showed so.
- For requests that do not overlap (`Alone`, at most one request slot; operators, drafts,
  failures and restarts still come at any moment): everything the previous layer says,
  always, and in addition that the generated lab file follows the record (`LabFollows`)
  wherever a request goes on to deploy it (`Building`), that nothing runs between destroying
  and deploying, and that accounts and record differ only by `unrecorded` and by what the
  request has half done (`AccountsFollow`). `AloneAgreement`, `AloneRecords`,
  `AloneDeployment` and `AloneDepartment` are theorems under this hypothesis, which the run
  `provisioning` shares. They are false without it: the backend holds no lock across its
  awaits, and a request may write back extensions in which another's assignment is missing.

The assumptions on constants, section 3, are conditions the configuration files and the code
meet; every run evaluates those of its module.

Only model-checked: the liveness properties `HeadIsPrinted`, `MonitoringConverges` and
`BootCompletes`, whose fairness needs ENABLED, which the prover does not handle; and the three
violations of section 4, which are counterexamples.

## 6. Not modelled

Device requests that overlap with employee requests, and the frontend, are in the plan: with
a second device, or drafts, two overlapping requests have more states than the run can
visit. Left out for good: routes that only validate and dispatch, the pages,
texts, the event feed, diagnostics that only read, static topology and the shell scripts.
A restart of a printer or workstation container, which resets its memory, is not
modelled. A failing disk is modelled in Provisioning and not in Tickets.
Password resets and unlocks, and the overview and user pages of the file server, which
repeat `effective_access` for each share, add no state.

Assumed of what is outside the repository: the kernel drops the static routes of an
interface that goes down and does not bring them back; of two smbd processes one ends,
because of the pid file and the port; `samba-tool` commands are atomic, but for the creation
of the domain, which writes smb.conf before it is done.
