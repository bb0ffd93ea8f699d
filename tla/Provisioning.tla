---------------------------- MODULE Provisioning ----------------------------
(***************************************************************************)
(* Devices and employees: ProvisioningService (backend/app/services/       *)
(* provisioning.py) with the ActiveDirectoryService calls it makes, and    *)
(* the deletion of accounts (active_directory.py).                         *)
(*                                                                         *)
(* One JSON file, the extensions, is the record of every runtime change.   *)
(* A request reads it, awaits commands of DC01 and a redeployment of the   *)
(* lab, writes it back whole and reloads what memory derives from it: the  *)
(* Inventory, and the user configurations of the directory.  What runs     *)
(* between two awaits is one step, and each command of DC01 may fail.      *)
(***************************************************************************)
EXTENDS Integers, Sequences, FiniteSets, Functions

CONSTANTS
  Users,           \* usernames, in the order in which users() asks for them: a sequence
  Baseline,        \* [baseline users -> workstation of the user or None]
  OfficeHosts,     \* [baseline workstations -> floor]
  DynamicHosts,    \* hostnames that can be provisioned
  Floors, None,    \* networks; a floor also names its department group
  HostNumbers,     \* host numbers of a subnet that workstations may use (14..200)
  Requests,        \* request slots
  Failures,        \* subset of {"refused", "lost", "unsaved", "unrendered", "undeployed"}
  Drafts,          \* draft identifiers
  DraftFloors,     \* bound: the floors on which devices are drafted
  MaxChanges       \* bound: account, membership and offboarding actions of operators

Name  == Range(Users)
Hosts == DOMAIN OfficeHosts \cup DynamicHosts

\* The two configuration files give every workstation to one user at most.
ASSUME InventoryAssumption ==
  /\ Users \in Seq(Name) /\ None \notin Name \cup Hosts \cup Floors
  /\ DOMAIN Baseline \subseteq Name
  /\ Range(Baseline) \subseteq DOMAIN OfficeHosts \cup {None}
  /\ \A u, v \in DOMAIN Baseline : Baseline[u] = Baseline[v] /\ Baseline[u] # None => u = v
  /\ Range(OfficeHosts) \subseteq Floors
  /\ DOMAIN OfficeHosts \cap DynamicHosts = {}
  /\ HostNumbers \subseteq Nat
ASSUME BoundsAssumption == MaxChanges \in Nat /\ DraftFloors \subseteq Floors

VARIABLES
  disk,        \* lab_extensions.json: devices, assigned, users, holds, deleted
  inventory,   \* lab_service.inventory: the devices and assigned of its last load
  accounts,    \* ad_service.baseline: users, holds and deleted of its last load
  topology,    \* hosts of the generated Containerlab file
  running,     \* hosts that are deployed
  directory,   \* DC01: exists, enabled, groups, computers
  drafts,      \* self.drafts
  request,     \* each request: where it is and what it has read
  changes,     \* changes made by operators so far
  unrecorded,  \* history: users whose account and record a failure or a restart set apart
  quiet        \* history: requests since whose begin nobody else changed record or directory

memory == <<inventory, accounts, drafts>>
lab    == <<topology, running>>
vars   == <<disk, memory, lab, directory, request, changes, unrecorded, quiet>>
-----------------------------------------------------------------------------
With(f, key, value) == [k \in DOMAIN f \cup {key} |-> IF k = key THEN value ELSE f[k]]
Without(f, key)     == Restrict(f, DOMAIN f \ {key})

Idle == [at |-> "idle"]

\* What memory derives from the extensions: Inventory.load and reload_baseline.
InventoryOf(ext) == [devices |-> ext.devices, assigned |-> ext.assigned]
AccountsOf(ext)  == [users |-> ext.users, holds |-> ext.holds, deleted |-> ext.deleted]

Known      == (DOMAIN Baseline \cup accounts.users) \ accounts.deleted
Current    == DOMAIN OfficeHosts \cup DOMAIN inventory.devices
FloorOf(h) == IF h \in DOMAIN OfficeHosts THEN OfficeHosts[h] ELSE inventory.devices[h].floor

\* assignment_overrides and user_workstation_overrides are kept with the baseline they
\* override.
HolderOf(h) ==
  IF \E u \in DOMAIN Baseline : Baseline[u] = h
    THEN CHOOSE u \in DOMAIN Baseline : Baseline[u] = h ELSE None
HeldBy(u) == IF u \in DOMAIN Baseline THEN Baseline[u] ELSE None

Pristine ==
  [devices |-> <<>>, assigned |-> [h \in Hosts |-> HolderOf(h)],
   users |-> {}, holds |-> [u \in Name |-> HeldBy(u)], deleted |-> {}]

Init ==
  /\ disk = Pristine
  /\ inventory = InventoryOf(Pristine) /\ accounts = AccountsOf(Pristine)
  /\ topology = DOMAIN OfficeHosts /\ running = DOMAIN OfficeHosts
  /\ directory =
       [exists |-> DOMAIN Baseline, enabled |-> DOMAIN Baseline, computers |-> DOMAIN OfficeHosts,
        groups |-> [u \in Name |->
          IF HeldBy(u) = None THEN {} ELSE {"Employees", OfficeHosts[HeldBy(u)]}]]
  /\ drafts = <<>>
  /\ request = [r \in Requests |-> Idle]
  /\ changes = 0 /\ unrecorded = {} /\ quiet = {}
-----------------------------------------------------------------------------
Goes(r, to) == request' = [request EXCEPT ![r] = to]
Moves(r, place) == Goes(r, [request[r] EXCEPT !.at = place])
At(r, place) == request[r].at = place

\* One command of DC01: done, refused, or done although its answer was lost.
Command(r, effect, next, failed) ==
  \E outcome \in {"done"} \cup (Failures \cap {"refused", "lost"}) :
    /\ directory' = IF outcome = "refused" THEN directory ELSE effect
    /\ Goes(r, IF outcome = "done" THEN next ELSE failed)

\* A command that only reads.
Reads(r, next, failed) == Command(r, directory, next, failed)

Reload(ext) ==
  /\ inventory' = InventoryOf(ext) /\ accounts' = AccountsOf(ext)
  /\ UNCHANGED drafts

\* save_extensions and the two reloads.
Save(r, ext, failed) ==
  \/ disk' = ext /\ Reload(ext) /\ Goes(r, Idle)
  \/ "unsaved" \in Failures /\ UNCHANGED <<disk, memory>> /\ Goes(r, failed)

\* One user of the loop in users(): unknown or refused, and the whole request fails.
Scans(r) ==
  LET u == Users[request[r].next] IN
  /\ At(r, "scan") /\ request[r].next <= Len(Users)
  /\ IF u \notin request[r].asked
       THEN Goes(r, [request[r] EXCEPT !.next = @ + 1]) /\ UNCHANGED directory
     ELSE IF u \notin Known \cap directory.exists
       THEN Goes(r, Idle) /\ UNCHANGED directory
     ELSE Reads(r, [request[r] EXCEPT !.next = @ + 1, !.occupied = @ \cup {accounts.holds[u]}],
                Idle)
  /\ UNCHANGED <<disk, memory, lab, changes, unrecorded>>

\* Mutant of Available: the workstations are offered whoever holds them.
AvailableAnyway(r) == Current

\* employee_options: workstations nobody was seen to hold.
Available(r) == Current \ request[r].occupied

Scanned(r) == At(r, "scan") /\ request[r].next > Len(Users)
-----------------------------------------------------------------------------
(* draft, apply, remove_device *)

\* known_devices: those of memory and those of the file, a hostname perhaps with two addresses.
KnownHosts == DOMAIN inventory.devices \cup DOMAIN disk.devices

UsedNumbers(floor) ==
  {d.number : d \in {d \in Range(inventory.devices) \cup Range(disk.devices) : d.floor = floor}}

\* Mutant of Draft: the search starts at the address of the gateway.
DraftFromOne(id, host, floor) ==
  LET free == (HostNumbers \cup {1}) \ UsedNumbers(floor) IN
  /\ id \notin DOMAIN drafts /\ floor \in DraftFloors
  /\ host \in DynamicHosts \ KnownHosts
  /\ free # {}
  /\ drafts' = With(drafts, id, [host |-> host, floor |-> floor,
                                 number |-> CHOOSE n \in free : \A m \in free : n <= m])
  /\ UNCHANGED <<disk, inventory, accounts, lab, directory, request, changes, unrecorded>>

\* A hostname, given or next_hostname, that no known device has, and the first number free.
Draft(id, host, floor) ==
  LET free == HostNumbers \ UsedNumbers(floor) IN
  /\ id \notin DOMAIN drafts /\ floor \in DraftFloors
  /\ host \in DynamicHosts \ KnownHosts
  /\ free # {}
  /\ drafts' = With(drafts, id, [host |-> host, floor |-> floor,
                                 number |-> CHOOSE n \in free : \A m \in free : n <= m])
  /\ UNCHANGED <<disk, inventory, accounts, lab, directory, request, changes, unrecorded>>

\* save_extensions, then render_topology; either may fail, and the request with it.
Records(r, ext, next) ==
  \/ disk' = ext /\ topology' = DOMAIN OfficeHosts \cup DOMAIN ext.devices /\ Goes(r, next)
  \/ "unrendered" \in Failures /\ disk' = ext /\ UNCHANGED <<topology, request>>
  \/ "unsaved" \in Failures /\ UNCHANGED <<disk, topology, request>>

\* apply up to its first await: an entry of the same hostname is replaced.
ApplyBegins(r, id) ==
  LET draft   == drafts[id]
      devices == With(disk.devices, draft.host, [floor |-> draft.floor, number |-> draft.number])
  IN /\ At(r, "idle")
     /\ Records(r, [disk EXCEPT !.devices = devices],
                [at |-> "show", host |-> draft.host, draft |-> id])
     /\ UNCHANGED <<memory, running, directory, changes, unrecorded>>

\* ensure_computer: show, and create when show fails.
ShowsComputer(r) ==
  /\ At(r, "show")
  /\ IF request[r].host \in directory.computers
       THEN Reads(r, [request[r] EXCEPT !.at = "destroy"], [request[r] EXCEPT !.at = "create_computer"])
       ELSE Moves(r, "create_computer") /\ UNCHANGED directory
  /\ UNCHANGED <<disk, memory, lab, changes, unrecorded>>

CreatesComputer(r) ==
  /\ At(r, "create_computer")
  /\ IF request[r].host \in directory.computers
       THEN Goes(r, Idle) /\ UNCHANGED directory
       ELSE Command(r, [directory EXCEPT !.computers = @ \cup {request[r].host}],
                    [request[r] EXCEPT !.at = "destroy"], Idle)
  /\ UNCHANGED <<disk, memory, lab, changes, unrecorded>>

\* deploy: build the images and destroy the lab, then deploy it from the generated file.
Destroys(r) ==
  /\ At(r, "destroy")
  /\ \/ running' = {} /\ Moves(r, "deploy")
     \/ "undeployed" \in Failures /\ running' \in {running, {}} /\ Goes(r, Idle)
  /\ UNCHANGED <<disk, memory, topology, directory, changes, unrecorded>>

\* apply ends here; remove_device goes on to delete the computer object.
Deploys(r) ==
  /\ At(r, "deploy")
  /\ \/ /\ running' = topology
        /\ IF "draft" \in DOMAIN request[r]
             THEN /\ inventory' = InventoryOf(disk) /\ accounts' = AccountsOf(disk)
                  /\ drafts' = Without(drafts, request[r].draft)
                  /\ Goes(r, Idle)
             ELSE Moves(r, "delete_computer") /\ UNCHANGED memory
     \/ "undeployed" \in Failures /\ Goes(r, Idle) /\ UNCHANGED <<running, memory>>
  /\ UNCHANGED <<disk, topology, directory, changes, unrecorded>>

\* Mutant of RemoveBegins: the lab file is not generated again.
RemoveWithoutRender(r, host) ==
  /\ At(r, "idle")
  /\ host \in DOMAIN disk.devices /\ host \in Current
  /\ inventory.assigned[host] = None
  /\ disk' = [disk EXCEPT !.devices = Without(@, host), !.assigned[host] = None]
  /\ Goes(r, [at |-> "destroy", host |-> host])
  /\ UNCHANGED <<memory, topology, running, directory, changes, unrecorded>>

\* remove_device up to its first await: only provisioned devices nobody is assigned to.
RemoveBegins(r, host) ==
  /\ At(r, "idle")
  /\ host \in DOMAIN disk.devices /\ host \in Current
  /\ inventory.assigned[host] = None
  /\ Records(r, [disk EXCEPT !.devices = Without(@, host), !.assigned[host] = None],
             [at |-> "destroy", host |-> host])
  /\ UNCHANGED <<memory, running, directory, changes, unrecorded>>

DeletesComputer(r) ==
  /\ At(r, "delete_computer")
  /\ Command(r, [directory EXCEPT !.computers = @ \ {request[r].host}], Idle, Idle)
  /\ Reload(disk)
  /\ UNCHANGED <<disk, lab, changes, unrecorded>>

Devices(r) ==
  \/ \E id \in DOMAIN drafts : ApplyBegins(r, id)
  \/ \E host \in DynamicHosts : RemoveBegins(r, host)
  \/ ShowsComputer(r) \/ CreatesComputer(r)
  \/ Destroys(r) \/ Deploys(r) \/ DeletesComputer(r)
-----------------------------------------------------------------------------
(* create_employee *)

\* get_device_config and users() start here; without a workstation the user is created
\* at once.
CreateBegins(r, u, host) ==
  /\ At(r, "idle") /\ u \notin Known
  /\ Goes(r, IF host = None
       THEN [at |-> "create_user", user |-> u, host |-> None, groups |-> <<"Employees">>]
       ELSE [at |-> "scan", to |-> "create_user", user |-> u, host |-> host,
             asked |-> Known, next |-> 1, occupied |-> {}])
  /\ UNCHANGED <<disk, memory, lab, directory, changes, unrecorded>>

CreateChooses(r) ==
  LET host == request[r].host IN
  /\ Scanned(r) /\ request[r].to = "create_user"
  /\ Goes(r, IF host \in Available(r)
       THEN [at |-> "create_user", user |-> request[r].user, host |-> host,
             groups |-> <<"Employees", FloorOf(host)>>]
       ELSE Idle)
  /\ UNCHANGED <<disk, memory, lab, directory, changes, unrecorded>>

\* samba-tool user create: DC01 refuses a name it has.
CreatesUser(r) ==
  LET u == request[r].user IN
  /\ At(r, "create_user")
  /\ IF u \in Known \cup directory.exists
       THEN Goes(r, Idle) /\ UNCHANGED directory
       ELSE Command(r, [directory EXCEPT !.exists = @ \cup {u}, !.enabled = @ \cup {u},
                                         !.groups[u] = {}],
                    [request[r] EXCEPT !.at = "join"], Idle)
  /\ unrecorded' = IF u \in directory'.exists \ directory.exists /\ request'[r].at = "idle"
                     THEN unrecorded \cup {u} ELSE unrecorded
  /\ UNCHANGED <<disk, memory, lab, changes>>

\* Mutant of JoinsGroup: a refused membership ends the request without deleting the account.
JoinsWithoutRollback(r) ==
  LET u == request[r].user
      group == Head(request[r].groups) IN
  /\ At(r, "join") /\ request[r].groups # <<>>
  /\ Command(r, [directory EXCEPT !.groups[u] = @ \cup {group}],
             [request[r] EXCEPT !.groups = Tail(@)], Idle)
  /\ UNCHANGED <<disk, memory, lab, changes, unrecorded>>

JoinsGroup(r) ==
  LET u == request[r].user
      group == Head(request[r].groups) IN
  /\ At(r, "join") /\ request[r].groups # <<>>
  /\ Command(r, [directory EXCEPT !.groups[u] = @ \cup {group}],
             [request[r] EXCEPT !.groups = Tail(@)], [request[r] EXCEPT !.at = "rollback"])
  /\ UNCHANGED <<disk, memory, lab, changes, unrecorded>>

\* The name stays among the deleted users if it was deleted before.
CreateSaves(r) ==
  LET u == request[r].user
      host == request[r].host IN
  /\ At(r, "join") /\ request[r].groups = <<>>
  /\ Save(r, [disk EXCEPT !.users = @ \cup {u}, !.holds[u] = host,
                          !.assigned = IF host = None THEN @ ELSE [@ EXCEPT ![host] = u]],
          [request[r] EXCEPT !.at = "rollback"])
  /\ unrecorded' = IF disk' # disk /\ u \in disk.deleted THEN unrecorded \cup {u} ELSE unrecorded
  /\ UNCHANGED <<lab, directory, changes>>

RollsBack(r) ==
  LET u == request[r].user IN
  /\ At(r, "rollback")
  /\ Command(r, [directory EXCEPT !.exists = @ \ {u}, !.enabled = @ \ {u}], Idle, Idle)
  /\ unrecorded' = IF u \in directory'.exists THEN unrecorded \cup {u} ELSE unrecorded
  /\ UNCHANGED <<disk, memory, lab, changes>>
-----------------------------------------------------------------------------
(* assign_employee, unassign_employee, delete_disabled_user *)

\* The three begin with get_user, which takes the workstation from memory and the rest
\* from the answer of DC01.
LooksUp(r, u, purpose, host) ==
  /\ At(r, "idle") /\ u \in Known
  /\ Goes(r, [at |-> "look", purpose |-> purpose, user |-> u, host |-> host,
              held |-> accounts.holds[u]])
  /\ UNCHANGED <<disk, memory, lab, directory, changes, unrecorded>>

\* What unassign reads and keeps while it awaits DC01.
Released(u, host) == [disk EXCEPT !.assigned[host] = None, !.holds[u] = None]

Allowed(r) ==
  LET u == request[r].user
      held == request[r].held IN
  /\ u \in directory.exists
  /\ CASE request[r].purpose = "assign"   -> u \in directory.enabled /\ held = None
       [] request[r].purpose = "unassign" -> held # None
       [] request[r].purpose = "delete"   -> u \notin directory.enabled /\ held = None

\* What the request goes on with.
Continues(r) ==
  LET u == request[r].user IN
  CASE request[r].purpose = "assign" ->
         [at |-> "scan", to |-> "groups", user |-> u, host |-> request[r].host,
          asked |-> Known, next |-> 1, occupied |-> {}]
    [] request[r].purpose = "unassign" ->
         [at |-> "groups", user |-> u, group |-> None, ext |-> Released(u, request[r].held)]
    [] request[r].purpose = "delete" -> [at |-> "erase", user |-> u]

LooksAt(r) ==
  /\ At(r, "look")
  /\ IF Allowed(r) THEN Reads(r, Continues(r), Idle) ELSE Goes(r, Idle) /\ UNCHANGED directory
  /\ UNCHANGED <<disk, memory, lab, changes, unrecorded>>

AssignChooses(r) ==
  LET host == request[r].host IN
  /\ Scanned(r) /\ request[r].to = "groups"
  /\ Goes(r, IF host \in Available(r)
       THEN [at |-> "groups", user |-> request[r].user, group |-> FloorOf(host), host |-> host]
       ELSE Idle)
  /\ UNCHANGED <<disk, memory, lab, directory, changes, unrecorded>>

\* What set_department_group is about to do with the department groups a user had.
Plan(had, group) == [leave |-> had \ {group}, join |-> {group} \ (had \cup {None})]

\* Mutant of ReadsGroups: the old department is kept.
ReadsGroupsToJoin(r) ==
  LET u == request[r].user
      had == directory.groups[u] \cap Floors IN
  /\ At(r, "groups")
  /\ IF u \in Known \cap directory.exists
       THEN Reads(r, [at |-> "move", request |-> request[r], leave |-> {}, since |-> changes,
                      join |-> Plan(had, request[r].group).join], Idle)
       ELSE Goes(r, Idle) /\ UNCHANGED directory
  /\ UNCHANGED <<disk, memory, lab, changes, unrecorded>>

\* set_department_group reads the groups, leaves the other departments one by one and
\* joins the new one.  since is history.
ReadsGroups(r) ==
  LET u == request[r].user
      had == directory.groups[u] \cap Floors IN
  /\ At(r, "groups")
  /\ IF u \in Known \cap directory.exists
       THEN Reads(r, [at |-> "move", request |-> request[r], since |-> changes,
                      leave |-> Plan(had, request[r].group).leave,
                      join |-> Plan(had, request[r].group).join], Idle)
       ELSE Goes(r, Idle) /\ UNCHANGED directory
  /\ UNCHANGED <<disk, memory, lab, changes, unrecorded>>

MovesGroup(r) ==
  LET u == request[r].request.user IN
  /\ At(r, "move")
  /\ \/ \E g \in request[r].leave :
          Command(r, [directory EXCEPT !.groups[u] = @ \ {g}],
                  [request[r] EXCEPT !.leave = @ \ {g}], Idle)
     \/ /\ request[r].leave = {}
        /\ \E g \in request[r].join :
             Command(r, [directory EXCEPT !.groups[u] = @ \cup {g}],
                     [request[r] EXCEPT !.join = {}], Idle)
  /\ UNCHANGED <<disk, memory, lab, changes, unrecorded>>

Moved(r) == At(r, "move") /\ request[r].leave = {} /\ request[r].join = {}

AssignSaves(r) ==
  LET u == request[r].request.user
      host == request[r].request.host IN
  /\ Moved(r) /\ request[r].request.group # None
  /\ Save(r, [disk EXCEPT !.assigned[host] = u, !.holds[u] = host], Idle)
  /\ UNCHANGED <<lab, directory, changes, unrecorded>>

UnassignSaves(r) ==
  /\ Moved(r) /\ request[r].request.group = None
  /\ Save(r, request[r].request.ext, Idle)
  /\ UNCHANGED <<lab, directory, changes, unrecorded>>

\* The account goes first, the record follows.
Erases(r) ==
  LET u == request[r].user IN
  /\ At(r, "erase")
  /\ IF u \in directory.exists
       THEN Command(r, [directory EXCEPT !.exists = @ \ {u}, !.enabled = @ \ {u}],
                    [at |-> "forget", user |-> u], Idle)
       ELSE Goes(r, Idle) /\ UNCHANGED directory
  /\ unrecorded' = IF directory' # directory /\ request'[r].at = "idle"
                     THEN unrecorded \cup {u} ELSE unrecorded
  /\ UNCHANGED <<disk, memory, lab, changes>>

\* Mutant of Forgets: the overrides of all users are dropped with those of one.
ForgetsAll(r) ==
  LET u == request[r].user IN
  /\ At(r, "forget")
  /\ disk' = [disk EXCEPT !.users = @ \ {u}, !.holds = Pristine.holds, !.deleted = @ \cup {u}]
  /\ accounts' = AccountsOf(disk')
  /\ Goes(r, Idle)
  /\ UNCHANGED <<inventory, drafts, lab, directory, changes, unrecorded>>

\* Mutant of Forgets: the users are not reloaded.
ForgetsOnDisk(r) ==
  LET u == request[r].user IN
  /\ At(r, "forget")
  /\ disk' = [disk EXCEPT !.users = @ \ {u}, !.holds[u] = HeldBy(u), !.deleted = @ \cup {u}]
  /\ Goes(r, Idle)
  /\ UNCHANGED <<memory, lab, directory, changes, unrecorded>>

\* Only the users are reloaded, not the inventory.
Forgets(r) ==
  LET u == request[r].user IN
  /\ At(r, "forget")
  /\ Goes(r, Idle)
  /\ \/ /\ disk' = [disk EXCEPT !.users = @ \ {u}, !.holds[u] = HeldBy(u), !.deleted = @ \cup {u}]
        /\ accounts' = AccountsOf(disk')
        /\ UNCHANGED unrecorded
     \/ /\ "unsaved" \in Failures /\ UNCHANGED <<disk, accounts>>
        /\ unrecorded' = unrecorded \cup {u}
  /\ UNCHANGED <<inventory, drafts, lab, directory, changes>>

-----------------------------------------------------------------------------
(* membership_action that adds an employee to Former-Employees *)

\* The membership first, then the account, then the other groups.  since is history.
Retires(r, u) ==
  /\ At(r, "idle") /\ changes < MaxChanges /\ u \in Known \cap directory.exists
  /\ Command(r, [directory EXCEPT !.groups[u] = @ \cup {"Former-Employees"}],
             [at |-> "disable", user |-> u, since |-> changes + 1], Idle)
  /\ changes' = changes + 1
  /\ UNCHANGED <<disk, memory, lab, unrecorded>>

DisablesRetired(r) ==
  LET u == request[r].user IN
  /\ At(r, "disable")
  /\ IF u \in directory.exists
       THEN Command(r, [directory EXCEPT !.enabled = @ \ {u}], [request[r] EXCEPT !.at = "retired"], Idle)
       ELSE Goes(r, Idle) /\ UNCHANGED directory
  /\ UNCHANGED <<disk, memory, lab, changes, unrecorded>>

\* Mutant of ReadsRetired: only the department is left.
ReadsDepartment(r) ==
  LET u == request[r].user IN
  /\ At(r, "retired")
  /\ IF u \in Known \cap directory.exists
       THEN Reads(r, [at |-> "leave", user |-> u, since |-> request[r].since,
                      leave |-> directory.groups[u] \cap Floors], Idle)
       ELSE Goes(r, Idle) /\ UNCHANGED directory
  /\ UNCHANGED <<disk, memory, lab, changes, unrecorded>>

\* get_user: the groups to leave are those of this moment.
ReadsRetired(r) ==
  LET u == request[r].user IN
  /\ At(r, "retired")
  /\ IF u \in Known \cap directory.exists
       THEN Reads(r, [at |-> "leave", user |-> u, since |-> request[r].since,
                      leave |-> directory.groups[u] \ {"Former-Employees"}], Idle)
       ELSE Goes(r, Idle) /\ UNCHANGED directory
  /\ UNCHANGED <<disk, memory, lab, changes, unrecorded>>

LeavesGroup(r) ==
  LET u == request[r].user IN
  /\ At(r, "leave")
  /\ \E g \in request[r].leave :
       Command(r, [directory EXCEPT !.groups[u] = @ \ {g}], [request[r] EXCEPT !.leave = @ \ {g}], Idle)
  /\ UNCHANGED <<disk, memory, lab, changes, unrecorded>>

Left(r) == At(r, "leave") /\ request[r].leave = {}

Retired(r) ==
  /\ Left(r) /\ Goes(r, Idle)
  /\ UNCHANGED <<disk, memory, lab, directory, changes, unrecorded>>

Employees(r) ==
  \/ \E u \in Name, host \in Hosts \cup {None} : CreateBegins(r, u, host)
  \/ CreateChooses(r) \/ CreatesUser(r) \/ JoinsGroup(r) \/ CreateSaves(r) \/ RollsBack(r)
  \/ \E u \in Name :
       \/ \E host \in Hosts : LooksUp(r, u, "assign", host)
       \/ LooksUp(r, u, "unassign", None) \/ LooksUp(r, u, "delete", None)
  \/ LooksAt(r) \/ Scans(r) \/ AssignChooses(r)
  \/ ReadsGroups(r) \/ MovesGroup(r) \/ AssignSaves(r) \/ UnassignSaves(r)
  \/ Erases(r) \/ Forgets(r)
  \/ \E u \in Name : Retires(r, u)
  \/ DisablesRetired(r) \/ ReadsRetired(r) \/ LeavesGroup(r) \/ Retired(r)
-----------------------------------------------------------------------------
(* Single commands of operators, and the restart of the backend *)

\* user_action enable and disable.
UserAction(u) ==
  /\ changes < MaxChanges /\ u \in Known \cap directory.exists
  /\ directory' = [directory EXCEPT
       !.enabled = IF u \in @ THEN @ \ {u} ELSE @ \cup {u}]
  /\ changes' = changes + 1
  /\ UNCHANGED <<disk, memory, lab, request, unrecorded>>

\* membership_action for a department group.
MembershipAction(u, g) ==
  /\ changes < MaxChanges /\ u \in Known \cap directory.exists
  /\ directory' = [directory EXCEPT
       !.groups[u] = IF g \in @ THEN @ \ {g} ELSE @ \cup {g}]
  /\ changes' = changes + 1
  /\ UNCHANGED <<disk, memory, lab, request, unrecorded>>

\* Drafts and requests are gone; memory is loaded from the file.
Restart ==
  /\ drafts # <<>> \/ \E r \in Requests : ~At(r, "idle")
  /\ inventory' = InventoryOf(disk) /\ accounts' = AccountsOf(disk) /\ drafts' = <<>>
  /\ request' = [r \in Requests |-> Idle]
  /\ unrecorded' = unrecorded \cup
       {request[r].user : r \in {r \in Requests : request[r].at \in {"join", "rollback", "forget"}}}
  /\ UNCHANGED <<disk, lab, directory, changes>>

Step ==
  \/ \E id \in Drafts, host \in DynamicHosts, floor \in Floors : Draft(id, host, floor)
  \/ \E r \in Requests : Devices(r) \/ Employees(r)
  \/ \E u \in Name : UserAction(u) \/ \E g \in Floors : MembershipAction(u, g)
  \/ Restart

\* The history of who was disturbed: a request is the actor of the step that changes it.
Next ==
  /\ Step
  /\ quiet' = {r \in Requests :
       /\ request'[r] # Idle
       /\ request[r] = Idle \/ r \in quiet
       /\ request'[r] # request[r] \/ UNCHANGED <<disk, inventory, accounts, directory>>}

Spec == Init /\ [][Next]_vars
-----------------------------------------------------------------------------
(* Properties *)

Places == {"idle", "scan", "show", "create_computer", "destroy", "deploy", "delete_computer",
           "create_user", "join", "rollback", "look", "groups", "move", "erase", "forget",
           "disable", "retired", "leave"}

DeviceType == [floor : Floors, number : HostNumbers]

\* Records and snapshots keep their types, and only provisioned hosts are ever recorded.
TypeOK ==
  /\ \A ext \in {disk, inventory} :
       /\ DOMAIN ext.devices \subseteq DynamicHosts /\ Range(ext.devices) \subseteq DeviceType
       /\ ext.assigned \in [Hosts -> Name \cup {None}]
  /\ \A ext \in {disk, accounts} :
       /\ ext.users \subseteq Name /\ ext.deleted \subseteq Name
       /\ ext.holds \in [Name -> Hosts \cup {None}]
  /\ DOMAIN OfficeHosts \subseteq topology /\ topology \subseteq Hosts /\ running \subseteq Hosts
  /\ directory.enabled \subseteq directory.exists /\ directory.exists \subseteq Name
  /\ directory.groups \in [Name -> SUBSET (Floors \cup {"Employees", "Former-Employees"})]
  /\ \A r \in Requests : request[r].at \in Places
  /\ quiet \subseteq {r \in Requests : request[r] # Idle}

\* The two sides of an assignment, kept in two overrides of one file, name each other for
\* every managed user, and no workstation is kept for a name that the record has never had,
\* for whoever is created next: after any failure or restart, of requests that do not overlap.
AssignmentsAgree ==
  /\ \A u \in Known, h \in Hosts : disk.holds[u] = h <=> disk.assigned[h] = u
  /\ Range(disk.assigned) \subseteq Known \cup accounts.deleted \cup {None}

\* Memory is what the file says: users and assignments always, although requests reload
\* only a part or end between two awaits.
MemoryFollowsRecord ==
  /\ accounts = AccountsOf(disk)
  /\ inventory.assigned = disk.assigned

\* Between requests DC01 has an account for exactly the managed users, but for those a lost
\* answer, a failed rollback, a failed save or a restart left behind.
RecordsMatchDirectory ==
  (\A r \in Requests : At(r, "idle")) =>
    \A u \in Name \ unrecorded : u \in Known <=> u \in directory.exists

\* When an assignment changes, the department groups of the user are those of the new
\* floor, unless an operator changed a membership since the request read them.
DepartmentFollowsAssignment ==
  [][\A r \in Requests :
       Moved(r) /\ disk' # disk /\ request[r].since = changes =>
         directory.groups[request[r].request.user] \cap Floors
           = {request[r].request.group} \ {None}]_vars

\* What a successful deployment starts is what the record says, whatever failed before.
DeployedIsRecorded ==
  [][\A r \in Requests :
       At(r, "deploy") /\ running' # {} => running' = DOMAIN OfficeHosts \cup DOMAIN disk.devices]_vars

\* membership_action: an employee whose move to Former-Employees came to its end has lost the
\* account and every other group, unless an operator or another request changed something.
OffboardedLosesAccess ==
  \A r \in quiet :
    Left(r) /\ request[r].since = changes =>
      LET u == request[r].user IN
        u \notin directory.enabled /\ directory.groups[u] = {"Former-Employees"}

\* Request r writes the extensions.
Saves(r) == disk' # disk /\ request'[r] # request[r]

\* Requests overlap, and save a file they read before their last await: what a request saves
\* that nobody disturbed keeps the two sides of every assignment in agreement, so that no
\* workstation is held twice.
UndisturbedSaveKeepsAgreement ==
  [][\A r \in quiet : Saves(r) /\ AssignmentsAgree => AssignmentsAgree']_vars

Subject(q) == IF "request" \in DOMAIN q THEN q.request ELSE q

\* What a request saves that nobody disturbed changes only the entries of its own user, and
\* of the workstation that user has or gets: no update of another request is lost.
UndisturbedSaveIsItsOwn ==
  [][\A r \in quiet : Saves(r) =>
       LET u == Subject(request[r]).user
           own == {disk.holds[u], disk'.holds[u]} IN
       /\ \A v \in Name \ {u} :
            /\ disk'.holds[v] = disk.holds[v]
            /\ v \in disk'.users <=> v \in disk.users
            /\ v \in disk'.deleted <=> v \in disk.deleted
       /\ \A h \in Hosts \ own : disk'.assigned[h] = disk.assigned[h]]_vars
=============================================================================
