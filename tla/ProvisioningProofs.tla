------------------------- MODULE ProvisioningProofs -------------------------
(***************************************************************************)
(* Theorems about Provisioning, for all users, workstations, devices and   *)
(* numbers of requests.  A request keeps what it has read while it awaits: *)
(* what it knows of the record (KnowsRecord) stays true as long as nobody  *)
(* disturbs it, and always when requests do not overlap (Alone).           *)
(***************************************************************************)
EXTENDS Provisioning, SequenceTheorems, WellFoundedInduction, TLAPS

Groups == Floors \cup {"Employees", "Former-Employees"}

Registers  == UNION {[D -> DeviceType] : D \in SUBSET DynamicHosts}
Placements == [Hosts -> Name \cup {None}]
Holdings   == [Name -> Hosts \cup {None}]
Extensions == [devices : Registers, assigned : Placements,
               users : SUBSET Name, holds : Holdings, deleted : SUBSET Name]

Provisions  == [at : {"show", "create_computer", "destroy", "deploy"},
                host : DynamicHosts, draft : Drafts]
Removals    == [at : {"destroy", "deploy", "delete_computer"}, host : DynamicHosts]
Scannings   == [at : {"scan"}, to : {"create_user", "groups"}, user : Name, host : Hosts,
                asked : SUBSET Name, next : Nat, occupied : SUBSET (Hosts \cup {None})]
Creations   == [at : {"create_user", "join", "rollback"}, user : Name,
                host : Hosts \cup {None}, groups : Seq(Groups)]
Lookups     == [at : {"look"}, purpose : {"assign", "unassign", "delete"}, user : Name,
                host : Hosts \cup {None}, held : Hosts \cup {None}]
Assignings  == [at : {"groups"}, user : Name, group : Floors, host : Hosts]
Unassignings == [at : {"groups"}, user : Name, group : {None}, ext : Extensions]
Movings     == [at : {"move"}, request : Assignings \cup Unassignings, since : Nat,
                leave : SUBSET Floors, join : SUBSET Floors]
Deletions   == [at : {"erase", "forget"}, user : Name]
Retirings   == [at : {"disable", "retired"}, user : Name, since : Nat]
Leavings    == [at : {"leave"}, user : Name, since : Nat, leave : SUBSET Groups]

\* Where a request can be, and what it has read by then.
WellFormed(q) ==
  \/ q = Idle
  \/ q \in Provisions \/ q \in Removals
  \/ q \in Scannings /\ q.next # 0
  \/ q \in Creations
  \/ q \in Lookups /\ (q.purpose = "assign" => q.host # None)
  \/ q \in Assignings \/ q \in Unassignings
  \/ q \in Movings /\ q.join \subseteq {q.request.group}
  \/ q \in Deletions \/ q \in Retirings \/ q \in Leavings

IsDraft(d) == d.host \in DynamicHosts /\ d.floor \in Floors /\ d.number \in HostNumbers

RecordTyped ==
  /\ disk \in Extensions
  /\ inventory \in [devices : Registers, assigned : Placements]
  /\ accounts \in [users : SUBSET Name, holds : Holdings, deleted : SUBSET Name]

LabTyped ==
  DOMAIN OfficeHosts \subseteq topology /\ topology \subseteq Hosts /\ running \subseteq Hosts

DirectoryTyped ==
  /\ directory \in [exists : SUBSET Name, enabled : SUBSET Name,
                    groups : [Name -> SUBSET Groups], computers : SUBSET Hosts]
  /\ directory.enabled \subseteq directory.exists

DraftsTyped == DOMAIN drafts \subseteq Drafts /\ \A id \in DOMAIN drafts : IsDraft(drafts[id])

RequestsTyped ==
  /\ DOMAIN request = Requests /\ request = [r \in Requests |-> request[r]]
  /\ \A r \in Requests : WellFormed(request[r])

Typed ==
  RecordTyped /\ LabTyped /\ DirectoryTyped /\ DraftsTyped /\ RequestsTyped /\ changes \in Nat
-----------------------------------------------------------------------------
(* What a request knows of the record d *)

Recorded(d) == (DOMAIN Baseline \cup d.users) \ d.deleted

\* Nobody on record holds the workstation.
Unheld(host, d) == \A v \in Recorded(d) : d.holds[v] # host

ReleasedFrom(d, u) == [d EXCEPT !.assigned[d.holds[u]] = None, !.holds[u] = None]

KnowsAssignment(q, d) ==
  /\ q.user \in Recorded(d)
  /\ IF q.group = None THEN d.holds[q.user] # None /\ q.ext = ReleasedFrom(d, q.user)
                       ELSE d.holds[q.user] = None /\ Unheld(q.host, d)

KnowsRecord(q, d) ==
  /\ q.at = "scan" =>
       /\ q.asked = Recorded(d)
       /\ \A i \in 1..Len(Users) :
            i < q.next /\ Users[i] \in q.asked => d.holds[Users[i]] \in q.occupied
       /\ IF q.to = "create_user" THEN q.user \notin Recorded(d)
                                  ELSE q.user \in Recorded(d) /\ d.holds[q.user] = None
  /\ q.at \in {"create_user", "join", "rollback"} =>
       q.user \notin Recorded(d) /\ (q.host # None => Unheld(q.host, d))
  /\ q.at = "look" => q.user \in Recorded(d) /\ q.held = d.holds[q.user]
  /\ q.at = "groups" => KnowsAssignment(q, d)
  /\ q.at = "move"   => KnowsAssignment(q.request, d)
  /\ q.at \in {"erase", "forget"} => q.user \in Recorded(d)

\* What an offboarding knows of the directory d.
KnowsAccount(q, d) ==
  /\ q.at \in {"disable", "retired"} => "Former-Employees" \in d.groups[q.user]
  /\ q.at \in {"retired", "leave"} => q.user \notin d.enabled
  /\ q.at = "leave" => /\ "Former-Employees" \notin q.leave
                       /\ d.groups[q.user] = q.leave \cup {"Former-Employees"}

\* Requests do not overlap.
Alone == \A r, s \in Requests : r = s

\* What set_department_group has left to do in the directory d, if operators have made no
\* more than c changes.
KnowsDepartment(q, d, c) ==
  q.at = "move" =>
    /\ q.since \leq c
    /\ q.since = c =>
         ((d.groups[q.request.user] \cap Floors) \ q.leave) \cup q.join
           = {q.request.group} \ {None}

Pending(q, u) == q.at \in {"join", "rollback", "forget"} /\ q.user = u

\* A request for an account that is half done is at odds with the record.
PendingAsSeen(q, ex) ==
  /\ q.at \in {"join", "rollback"} => q.user \in ex
  /\ q.at = "forget" => q.user \notin ex

\* The accounts ex are those of the record d, but for un and for what is half done by q.
AccountsFollow(q, d, ex, un) ==
  /\ PendingAsSeen(q, ex)
  /\ d.users \cap d.deleted \subseteq un
  /\ \A u \in Name \ un : ~Pending(q, u) => (u \in Recorded(d) <=> u \in ex)

\* A request that is on its way to deploy the lab deploys the record.
Building   == {"show", "create_computer", "destroy", "deploy"}
LabFollows == \A r \in Requests :
  request[r].at \in Building => topology = DOMAIN OfficeHosts \cup DOMAIN disk.devices

\* Requests that do not overlap leave nothing between two of them but what is unrecorded.
\* The place of the request, if there is none, is taken by an idle one.
AloneInv ==
  /\ AssignmentsAgree /\ LabFollows
  /\ \A r \in Requests :
       /\ KnowsRecord(request[r], disk)
       /\ KnowsDepartment(request[r], directory, changes)
       /\ At(r, "deploy") => running = {}
       /\ AccountsFollow(request[r], disk, directory.exists, unrecorded)
  /\ Requests = {} => AccountsFollow(Idle, disk, directory.exists, unrecorded)

QuietInv ==
  \A r \in quiet : /\ KnowsRecord(request[r], disk) /\ KnowsAccount(request[r], directory)
                   /\ KnowsDepartment(request[r], directory, request[r].since)

QuietTyped == quiet \subseteq {r \in Requests : request[r] # Idle}

\* What holds of any requests, and what those that do not overlap add to it.
BaseInv == Typed /\ MemoryFollowsRecord /\ QuietTyped /\ QuietInv
IInv    == BaseInv /\ (Alone => AloneInv)
-----------------------------------------------------------------------------
(* Requests and what they are made of *)

\* Where a request is tells what it has read.
LEMMA PlaceTellsShape ==
  ASSUME NEW q, WellFormed(q)
  PROVE  /\ q.at = "idle" => q = Idle
         /\ q.at = "scan" => q \in Scannings /\ q.next # 0
         /\ q.at \in {"show", "create_computer"} => q \in Provisions
         /\ q.at \in {"destroy", "deploy"} => q \in Provisions \/ q \in Removals
         /\ q.at = "delete_computer" => q \in Removals
         /\ q.at \in {"create_user", "join", "rollback"} => q \in Creations
         /\ q.at = "look" => q \in Lookups /\ (q.purpose = "assign" => q.host # None)
         /\ q.at = "groups" => q \in Assignings \/ q \in Unassignings
         /\ q.at = "move" => q \in Movings /\ q.join \subseteq {q.request.group}
         /\ q.at \in {"erase", "forget"} => q \in Deletions
         /\ q.at \in {"disable", "retired"} => q \in Retirings
         /\ q.at = "leave" => q \in Leavings
         /\ q.at \in Places
<1>1. CASE q = Idle
  BY <1>1 DEF Idle, Places
<1>2. CASE q \in Provisions
  BY <1>2 DEF Provisions, Places
<1>3. CASE q \in Removals
  BY <1>3 DEF Removals, Places
<1>4. CASE q \in Scannings /\ q.next # 0
  BY <1>4 DEF Scannings, Places
<1>5. CASE q \in Creations
  BY <1>5 DEF Creations, Places
<1>6. CASE q \in Lookups /\ (q.purpose = "assign" => q.host # None)
  BY <1>6 DEF Lookups, Places
<1>7. CASE q \in Assignings
  BY <1>7 DEF Assignings, Places
<1>8. CASE q \in Unassignings
  BY <1>8 DEF Unassignings, Places
<1>9. CASE q \in Movings /\ q.join \subseteq {q.request.group}
  BY <1>9 DEF Movings, Places
<1>10. CASE q \in Deletions
  BY <1>10 DEF Deletions, Places
<1>11. CASE q \in Retirings
  BY <1>11 DEF Retirings, Places
<1>12. CASE q \in Leavings
  BY <1>12 DEF Leavings, Places
<1> QED BY <1>1, <1>2, <1>3, <1>4, <1>5, <1>6, <1>7, <1>8, <1>9, <1>10, <1>11, <1>12 DEF WellFormed

LEMMA GoesTyped ==
  ASSUME RequestsTyped, NEW r \in Requests, NEW to, Goes(r, to), WellFormed(to)
  PROVE  /\ RequestsTyped' /\ request'[r] = to
         /\ \A s \in Requests \ {r} : request'[s] = request[s]
BY DEF RequestsTyped, Goes

\* The register of devices with one entry more, or less.
LEMMA RegisterForm ==
  ASSUME NEW f
  PROVE  f \in Registers <=> /\ DOMAIN f \subseteq DynamicHosts
                             /\ f \in [DOMAIN f -> DeviceType]
BY DEF Registers

LEMMA WithDevice ==
  ASSUME NEW f \in Registers, NEW host \in DynamicHosts, NEW device \in DeviceType
  PROVE  With(f, host, device) \in Registers
<1> DEFINE g == With(f, host, device)
<1>1. DOMAIN f \subseteq DynamicHosts /\ f \in [DOMAIN f -> DeviceType]
  BY RegisterForm
<1>2. DOMAIN g = DOMAIN f \cup {host}
  BY DEF With
<1>3. g \in [DOMAIN f \cup {host} -> DeviceType]
  BY <1>1 DEF With
<1> QED BY <1>1, <1>2, <1>3, RegisterForm

LEMMA WithoutDevice ==
  ASSUME NEW f \in Registers, NEW host
  PROVE  Without(f, host) \in Registers
<1> DEFINE g == Without(f, host)
<1>1. DOMAIN f \subseteq DynamicHosts /\ f \in [DOMAIN f -> DeviceType]
  BY RegisterForm
<1>2. DOMAIN g = DOMAIN f \ {host}
  BY DEF Without, Restrict
<1>3. g \in [DOMAIN f \ {host} -> DeviceType]
  BY <1>1 DEF Without, Restrict
<1> QED BY <1>1, <1>2, <1>3, RegisterForm

LEMMA NoDevice == <<>> \in Registers
<1>1. DOMAIN <<>> = {}
  OBVIOUS
<1>2. <<>> \in [{} -> DeviceType]
  OBVIOUS
<1> QED BY <1>1, <1>2, RegisterForm

LEMMA CurrentTyped ==
  ASSUME RecordTyped
  PROVE  Current \subseteq Hosts /\ \A h \in Current : FloorOf(h) \in Floors
<1>1. /\ DOMAIN inventory.devices \subseteq DynamicHosts
      /\ inventory.devices \in [DOMAIN inventory.devices -> DeviceType]
  BY RegisterForm DEF RecordTyped
<1>2. \A h \in DOMAIN OfficeHosts : OfficeHosts[h] \in Floors
  BY InventoryAssumption DEF Range
<1>3. \A h \in DOMAIN inventory.devices : inventory.devices[h].floor \in Floors
  BY <1>1 DEF DeviceType
<1> QED BY <1>1, <1>2, <1>3 DEF Current, Hosts, FloorOf
-----------------------------------------------------------------------------
(* Every step keeps the types: first the requests for devices. *)

\* A command of DC01 that is sound whether it is done or not.
LEMMA CommandTyped ==
  ASSUME RequestsTyped, DirectoryTyped, NEW r \in Requests, NEW effect, NEW next, NEW failed,
         Command(r, effect, next, failed), WellFormed(next), WellFormed(failed),
         effect \in [exists : SUBSET Name, enabled : SUBSET Name,
                     groups : [Name -> SUBSET Groups], computers : SUBSET Hosts],
         effect.enabled \subseteq effect.exists
  PROVE  RequestsTyped' /\ DirectoryTyped'
<1>1. Goes(r, next) \/ Goes(r, failed)
  BY DEF Command
<1>2. directory' = directory \/ directory' = effect
  BY DEF Command
<1>3. DirectoryTyped'
  BY <1>2 DEF DirectoryTyped
<1> QED BY <1>1, <1>3, GoesTyped

LEMMA ReadsTyped ==
  ASSUME RequestsTyped, DirectoryTyped, NEW r \in Requests, NEW next, NEW failed,
         Reads(r, next, failed), WellFormed(next), WellFormed(failed)
  PROVE  RequestsTyped' /\ DirectoryTyped'
BY CommandTyped DEF Reads, DirectoryTyped

\* Nothing but the directory and the requests changes.
LEMMA OthersKept ==
  ASSUME Typed, RequestsTyped', DirectoryTyped', UNCHANGED <<disk, memory, lab>>, changes' \in Nat
  PROVE  Typed'
BY DEF Typed, RecordTyped, LabTyped, DraftsTyped, memory, lab

LEMMA IdleWellFormed == WellFormed(Idle)
BY DEF WellFormed

LEMMA ShowsComputerTyped ==
  ASSUME Typed, NEW r \in Requests, ShowsComputer(r) PROVE Typed'
<1> DEFINE q == request[r]
<1>1. q \in Provisions /\ RequestsTyped /\ DirectoryTyped
  BY PlaceTellsShape DEF Typed, RequestsTyped, ShowsComputer, At
<1>2. /\ WellFormed([q EXCEPT !.at = "destroy"])
      /\ WellFormed([q EXCEPT !.at = "create_computer"])
  BY <1>1 DEF WellFormed, Provisions
<1>3. RequestsTyped' /\ DirectoryTyped'
  <2>1. CASE Reads(r, [q EXCEPT !.at = "destroy"], [q EXCEPT !.at = "create_computer"])
    BY <1>1, <1>2, <2>1, ReadsTyped
  <2>2. CASE Moves(r, "create_computer") /\ UNCHANGED directory
    BY <1>1, <1>2, <2>2, GoesTyped DEF Moves, DirectoryTyped
  <2> QED BY <2>1, <2>2 DEF ShowsComputer
<1> QED BY <1>3, OthersKept DEF ShowsComputer, Typed

LEMMA CreatesComputerTyped ==
  ASSUME Typed, NEW r \in Requests, CreatesComputer(r) PROVE Typed'
<1> DEFINE q == request[r]
           effect == [directory EXCEPT !.computers = @ \cup {q.host}]
<1>1. q \in Provisions /\ RequestsTyped /\ DirectoryTyped
  BY PlaceTellsShape DEF Typed, RequestsTyped, CreatesComputer, At
<1>2. WellFormed([q EXCEPT !.at = "destroy"])
  BY <1>1 DEF WellFormed, Provisions
<1>3. RequestsTyped' /\ DirectoryTyped'
  <2>1. CASE Goes(r, Idle) /\ UNCHANGED directory
    BY <1>1, <2>1, GoesTyped, IdleWellFormed DEF DirectoryTyped
  <2>2. CASE Command(r, effect, [q EXCEPT !.at = "destroy"], Idle)
    <3>1. /\ effect \in [exists : SUBSET Name, enabled : SUBSET Name,
                          groups : [Name -> SUBSET Groups], computers : SUBSET Hosts]
          /\ effect.enabled \subseteq effect.exists
      BY <1>1 DEF Provisions, DirectoryTyped, Hosts
    <3> QED BY <1>1, <1>2, <2>2, <3>1, CommandTyped, IdleWellFormed
  <2> QED BY <2>1, <2>2 DEF CreatesComputer
<1> QED BY <1>3, OthersKept DEF CreatesComputer, Typed

LEMMA DestroysTyped ==
  ASSUME Typed, NEW r \in Requests, Destroys(r) PROVE Typed'
<1> DEFINE q == request[r]
<1>1. (q \in Provisions \/ q \in Removals) /\ RequestsTyped /\ LabTyped
  BY PlaceTellsShape DEF Typed, RequestsTyped, Destroys, At
<1>2. WellFormed([q EXCEPT !.at = "deploy"])
  BY <1>1 DEF WellFormed, Provisions, Removals
<1>3. Goes(r, [q EXCEPT !.at = "deploy"]) \/ Goes(r, Idle)
  BY DEF Destroys, Moves
<1>4. RequestsTyped'
  BY <1>1, <1>2, <1>3, GoesTyped, IdleWellFormed
<1>5. LabTyped'
  BY <1>1 DEF LabTyped, Destroys
<1> QED BY <1>4, <1>5 DEF Typed, Destroys, RecordTyped, DirectoryTyped, DraftsTyped, memory

LEMMA ReloadTyped ==
  ASSUME NEW ext \in Extensions
  PROVE  /\ InventoryOf(ext) \in [devices : Registers, assigned : Placements]
         /\ AccountsOf(ext) \in [users : SUBSET Name, holds : Holdings, deleted : SUBSET Name]
BY DEF Extensions, InventoryOf, AccountsOf

LEMMA DeploysTyped ==
  ASSUME Typed, NEW r \in Requests, Deploys(r) PROVE Typed'
<1> DEFINE q == request[r]
<1>1. (q \in Provisions \/ q \in Removals) /\ RequestsTyped /\ LabTyped
  BY PlaceTellsShape DEF Typed, RequestsTyped, Deploys, At
<1>2. q \in Provisions => "draft" \in DOMAIN q
  BY DEF Provisions
<1>3. q \in Removals => WellFormed([q EXCEPT !.at = "delete_computer"])
  BY DEF WellFormed, Removals
<1>4. RequestsTyped'
  <2>1. \/ Goes(r, Idle)
        \/ "draft" \notin DOMAIN q /\ Goes(r, [q EXCEPT !.at = "delete_computer"])
    BY DEF Deploys, Moves
  <2> QED BY <1>1, <1>2, <1>3, <2>1, GoesTyped, IdleWellFormed
<1>5. LabTyped'
  BY <1>1 DEF LabTyped, Deploys
<1>6. RecordTyped'
  BY ReloadTyped DEF Typed, RecordTyped, Deploys, memory
<1>7. DraftsTyped'
  BY DEF Typed, DraftsTyped, Deploys, memory, Without, Restrict
<1> QED BY <1>4, <1>5, <1>6, <1>7 DEF Typed, Deploys, DirectoryTyped

LEMMA DeletesComputerTyped ==
  ASSUME Typed, NEW r \in Requests, DeletesComputer(r) PROVE Typed'
<1> DEFINE q == request[r]
           effect == [directory EXCEPT !.computers = @ \ {q.host}]
<1>1. RequestsTyped /\ DirectoryTyped
  BY DEF Typed
<1>2. /\ effect \in [exists : SUBSET Name, enabled : SUBSET Name,
                     groups : [Name -> SUBSET Groups], computers : SUBSET Hosts]
      /\ effect.enabled \subseteq effect.exists
  BY <1>1 DEF DirectoryTyped
<1>3. RequestsTyped' /\ DirectoryTyped'
  BY <1>1, <1>2, CommandTyped, IdleWellFormed DEF DeletesComputer
<1>4. RecordTyped'
  BY ReloadTyped DEF Typed, RecordTyped, DeletesComputer, Reload
<1> QED BY <1>3, <1>4 DEF Typed, DeletesComputer, Reload, LabTyped, DraftsTyped, lab

\* The record with a register of its own.
LEMMA DevicesTyped ==
  ASSUME NEW d \in Extensions, NEW f \in Registers
  PROVE  /\ [d EXCEPT !.devices = f] \in Extensions
         /\ [d EXCEPT !.devices = f].devices = f
         /\ AccountsOf([d EXCEPT !.devices = f]) = AccountsOf(d)
         /\ [d EXCEPT !.devices = f].assigned = d.assigned
BY DEF Extensions, AccountsOf

LEMMA RegisterInHosts == ASSUME NEW f \in Registers PROVE DOMAIN f \subseteq Hosts
BY RegisterForm DEF Hosts

LEMMA ApplyBeginsTyped ==
  ASSUME Typed, NEW r \in Requests, NEW id \in DOMAIN drafts, ApplyBegins(r, id)
  PROVE  /\ Typed'
         /\ UNCHANGED disk \/ disk' = [disk EXCEPT !.devices = disk'.devices]
         /\ \/ UNCHANGED request
            \/ /\ topology' = DOMAIN OfficeHosts \cup DOMAIN disk'.devices
               /\ request'[r].at = "show"
<1> DEFINE draft == drafts[id]
           devices == With(disk.devices, draft.host, [floor |-> draft.floor, number |-> draft.number])
           to == [at |-> "show", host |-> draft.host, draft |-> id]
<1>1. draft.host \in DynamicHosts /\ draft.floor \in Floors /\ draft.number \in HostNumbers
      /\ id \in Drafts
  BY DEF Typed, DraftsTyped, IsDraft
<1>2. WellFormed(to) /\ to.at = "show"
  BY <1>1 DEF WellFormed, Provisions
<1>3. devices \in Registers
  <2>1. disk.devices \in Registers
    BY DEF Typed, RecordTyped, Extensions
  <2>2. [floor |-> draft.floor, number |-> draft.number] \in DeviceType
    BY <1>1 DEF DeviceType
  <2> QED BY <1>1, <2>1, <2>2, WithDevice
<1> DEFINE ext == [disk EXCEPT !.devices = devices]
<1>6. Records(r, ext, to)
  BY DEF ApplyBegins
<1> HIDE DEF to, devices
<1>7. ext \in Extensions /\ ext.devices = devices /\ ext = [disk EXCEPT !.devices = ext.devices]
  BY <1>3, DevicesTyped DEF Typed, RecordTyped
<1> HIDE DEF ext
<1>4. CASE disk' = ext /\ topology' = DOMAIN OfficeHosts \cup DOMAIN ext.devices /\ Goes(r, to)
  <2>2. RequestsTyped' /\ request'[r] = to
    BY <1>2, <1>4, GoesTyped DEF Typed
  <2>3. LabTyped'
    BY <1>3, <1>4, <1>7, RegisterInHosts DEF LabTyped, Typed, ApplyBegins, Hosts
  <2>4. Typed'
    BY <1>4, <1>7, <2>2, <2>3 DEF Typed, RecordTyped, ApplyBegins, DirectoryTyped, DraftsTyped, memory
  <2> QED BY <1>2, <1>4, <1>7, <2>2, <2>4
<1>5. CASE disk' \in {disk, ext} /\ UNCHANGED <<topology, request>>
  BY <1>5, <1>7 DEF Typed, RecordTyped, RequestsTyped, LabTyped, ApplyBegins, DirectoryTyped,
              DraftsTyped, memory
<1> QED BY <1>4, <1>5, <1>6 DEF Records

LEMMA RemoveBeginsTyped ==
  ASSUME Typed, NEW r \in Requests, NEW host \in DynamicHosts, RemoveBegins(r, host)
  PROVE  /\ Typed'
         /\ UNCHANGED disk
            \/ disk' = [disk EXCEPT !.devices = disk'.devices, !.assigned[host] = None]
         /\ \/ UNCHANGED request
            \/ /\ topology' = DOMAIN OfficeHosts \cup DOMAIN disk'.devices
               /\ request'[r].at = "destroy"
<1> DEFINE devices == Without(disk.devices, host)
           to == [at |-> "destroy", host |-> host]
<1>1. devices \in Registers
  BY WithoutDevice DEF Typed, RecordTyped, Extensions
<1>2. WellFormed(to) /\ to.at = "destroy"
  BY DEF WellFormed, Removals
<1> DEFINE ext == [disk EXCEPT !.devices = devices, !.assigned[host] = None]
<1>5. Records(r, ext, to)
  BY DEF RemoveBegins
<1> HIDE DEF to, devices
<1>6. ext \in Extensions
  BY <1>1 DEF Typed, RecordTyped, Extensions, Placements
<1>7. ext.devices = devices
  BY DEF Typed, RecordTyped, Extensions
<1>8. ext = [disk EXCEPT !.devices = ext.devices, !.assigned[host] = None]
  BY <1>7
<1> HIDE DEF ext
<1>3. CASE disk' = ext /\ topology' = DOMAIN OfficeHosts \cup DOMAIN ext.devices /\ Goes(r, to)
  <2>4. RequestsTyped' /\ request'[r] = to
    BY <1>2, <1>3, GoesTyped DEF Typed
  <2>5. LabTyped'
    BY <1>1, <1>3, <1>7, RegisterInHosts DEF LabTyped, Typed, RemoveBegins, Hosts
  <2>6. Typed'
    BY <1>3, <1>6, <2>4, <2>5
       DEF Typed, RecordTyped, RemoveBegins, DirectoryTyped, DraftsTyped, memory
  <2> QED BY <1>2, <1>3, <1>8, <2>4, <2>6
<1>4. CASE disk' \in {disk, ext} /\ UNCHANGED <<topology, request>>
  BY <1>4, <1>6, <1>8 DEF Typed, RecordTyped, RequestsTyped, LabTyped, RemoveBegins, DirectoryTyped,
              DraftsTyped, memory
<1> QED BY <1>3, <1>4, <1>5 DEF Records

-----------------------------------------------------------------------------
(* Drafts *)

\* The least of a set of numbers: what CHOOSE takes for the next free address.
Less == OpToRel(<, Nat)
LEMMA LessThan == Less = {ss \in Nat \X Nat : ss[1] < ss[2]}
BY DEF OpToRel, Less

LEMMA LeastElement ==
  ASSUME NEW T, T \subseteq Nat, T # {}
  PROVE  \E m \in T : \A k \in T : m <= k
<1>1. IsWellFoundedOn(Less, Nat)
  BY NatLessThanWellFounded DEF Less
<1>2. PICK x \in T : \A y \in T : ~ (<<y, x>> \in Less)
  BY <1>1, WFMin
<1>3. ASSUME NEW k \in T PROVE x <= k
  <2>1. <<k, x>> \notin {ss \in Nat \X Nat : ss[1] < ss[2]}
    BY <1>2, LessThan
  <2>2. <<k, x>> \in Nat \X Nat /\ <<k, x>>[1] = k /\ <<k, x>>[2] = x
    OBVIOUS
  <2>3. ~(k < x)
    BY <2>1, <2>2
  <2> QED BY <2>3
<1> QED BY <1>3

LEMMA DraftTyped ==
  ASSUME Typed, NEW id \in Drafts, NEW host \in DynamicHosts, NEW floor \in Floors,
         Draft(id, host, floor)
  PROVE  Typed'
<1> DEFINE free == HostNumbers \ UsedNumbers(floor)
           number == CHOOSE n \in free : \A m \in free : n <= m
           draft == [host |-> host, floor |-> floor, number |-> number]
<1>1. free # {} /\ drafts' = With(drafts, id, draft)
  BY DEF Draft
<1>2. free \subseteq Nat
  BY InventoryAssumption
<1> HIDE DEF free
<1>3. \E n \in free : \A m \in free : n <= m
  BY <1>1, <1>2, LeastElement
<1>4. number \in free
  BY <1>3
<1>5. number \in HostNumbers
  BY <1>4 DEF free
<1> HIDE DEF number
<1>6. IsDraft(draft)
  BY <1>5 DEF IsDraft
<1> HIDE DEF draft
<1>7. DraftsTyped'
  BY <1>1, <1>6 DEF Typed, DraftsTyped, With
<1> QED BY <1>7 DEF Typed, Draft, RecordTyped, LabTyped, DirectoryTyped, RequestsTyped, lab
-----------------------------------------------------------------------------
(* The requests for employees *)

LEMMA UserOf == \A i \in 1..Len(Users) : Users[i] \in Name
BY InventoryAssumption

LEMMA KnownNames == ASSUME RecordTyped PROVE Known \subseteq Name
BY InventoryAssumption DEF RecordTyped, Known

LEMMA ScansTyped ==
  ASSUME Typed, NEW r \in Requests, Scans(r) PROVE Typed'
<1> DEFINE q == request[r]
           u == Users[q.next]
           further == [q EXCEPT !.next = @ + 1]
           held == [q EXCEPT !.next = @ + 1, !.occupied = @ \cup {accounts.holds[u]}]
<1>1. q \in Scannings /\ q.next # 0 /\ RequestsTyped /\ DirectoryTyped
  BY PlaceTellsShape DEF Typed, RequestsTyped, Scans, At
<1>2. q.next \in 1..Len(Users)
  BY <1>1 DEF Scannings, Scans
<1>3. u \in Name
  BY <1>2, UserOf
<1>4. accounts.holds[u] \in Hosts \cup {None}
  BY <1>3 DEF Typed, RecordTyped, Holdings
<1>5. further \in Scannings /\ further.next # 0
  BY <1>1 DEF Scannings
<1>6. held \in Scannings /\ held.next # 0
  <2> DEFINE seen == q.occupied \cup {accounts.holds[u]}
  <2>1. seen \in SUBSET (Hosts \cup {None}) /\ q.next + 1 \in Nat /\ q.next + 1 # 0
    BY <1>1, <1>4 DEF Scannings
  <2>2. held = [q EXCEPT !.next = q.next + 1, !.occupied = seen]
    OBVIOUS
  <2> HIDE DEF held, seen
  <2> QED BY <1>1, <2>1, <2>2 DEF Scannings
<1>7. \/ (Goes(r, further) \/ Goes(r, Idle)) /\ UNCHANGED directory
      \/ Reads(r, held, Idle)
  BY DEF Scans
<1> HIDE DEF further, held
<1>8. WellFormed(further) /\ WellFormed(held)
  BY <1>5, <1>6 DEF WellFormed
<1>9. RequestsTyped' /\ DirectoryTyped'
  BY <1>1, <1>7, <1>8, ReadsTyped, GoesTyped, IdleWellFormed DEF DirectoryTyped
<1> QED BY <1>9, OthersKept DEF Scans, Typed

LEMMA CreateBeginsTyped ==
  ASSUME Typed, NEW r \in Requests, NEW u \in Name, NEW host \in Hosts \cup {None},
         CreateBegins(r, u, host)
  PROVE  Typed'
<1> DEFINE to == IF host = None
                   THEN [at |-> "create_user", user |-> u, host |-> None, groups |-> <<"Employees">>]
                   ELSE [at |-> "scan", to |-> "create_user", user |-> u, host |-> host,
                         asked |-> Known, next |-> 1, occupied |-> {}]
<1>1. ASSUME host = None PROVE WellFormed(to)
  <2>1. <<"Employees">> \in Seq(Groups)
    BY DEF Groups
  <2>2. to \in Creations
    BY <1>1, <2>1 DEF Creations
  <2> QED BY <2>2 DEF WellFormed
<1>2. ASSUME host # None PROVE WellFormed(to)
  <2>1. to \in Scannings /\ to.next # 0
    BY <1>2, KnownNames DEF Scannings, Typed
  <2> QED BY <2>1 DEF WellFormed
<1>3. Goes(r, to)
  BY DEF CreateBegins
<1> HIDE DEF to
<1>4. RequestsTyped' /\ DirectoryTyped'
  BY <1>1, <1>2, <1>3, GoesTyped DEF Typed, CreateBegins, DirectoryTyped
<1> QED BY <1>4, OthersKept DEF CreateBegins, Typed

LEMMA CreateChoosesTyped ==
  ASSUME Typed, NEW r \in Requests, CreateChooses(r) PROVE Typed'
<1> DEFINE q == request[r]
           to == [at |-> "create_user", user |-> q.user, host |-> q.host,
                  groups |-> <<"Employees", FloorOf(q.host)>>]
<1>1. q \in Scannings /\ RequestsTyped
  BY PlaceTellsShape DEF Typed, RequestsTyped, CreateChooses, Scanned, At
<1>2. ASSUME q.host \in Available(r) PROVE WellFormed(to)
  <2>1. FloorOf(q.host) \in Floors
    BY <1>2, CurrentTyped DEF Available, Typed
  <2>2. <<"Employees", FloorOf(q.host)>> \in Seq(Groups)
    BY <2>1 DEF Groups
  <2>3. to \in Creations
    BY <1>1, <2>2 DEF Creations, Scannings
  <2> QED BY <2>3 DEF WellFormed
<1>3. Goes(r, Idle) \/ (q.host \in Available(r) /\ Goes(r, to))
  BY DEF CreateChooses
<1> HIDE DEF to
<1>4. RequestsTyped' /\ DirectoryTyped'
  BY <1>1, <1>2, <1>3, GoesTyped, IdleWellFormed DEF Typed, CreateChooses, DirectoryTyped
<1> QED BY <1>4, OthersKept DEF CreateChooses, Typed

DirectoryType == [exists : SUBSET Name, enabled : SUBSET Name,
                  groups : [Name -> SUBSET Groups], computers : SUBSET Hosts]

LEMMA CreatesUserTyped ==
  ASSUME Typed, NEW r \in Requests, CreatesUser(r) PROVE Typed'
<1> DEFINE q == request[r]
           u == q.user
           effect == [directory EXCEPT !.exists = @ \cup {u}, !.enabled = @ \cup {u},
                                       !.groups[u] = {}]
           to == [q EXCEPT !.at = "join"]
<1>1. q \in Creations /\ RequestsTyped /\ DirectoryTyped
  BY PlaceTellsShape DEF Typed, RequestsTyped, CreatesUser, At
<1>2. u \in Name /\ WellFormed(to)
  BY <1>1 DEF Creations, WellFormed
<1>3. effect \in DirectoryType
  BY <1>1, <1>2 DEF DirectoryTyped, DirectoryType
<1>4. effect.enabled \subseteq effect.exists
  BY <1>1, <1>2 DEF DirectoryTyped
<1>5. (Goes(r, Idle) /\ UNCHANGED directory) \/ Command(r, effect, to, Idle)
  BY DEF CreatesUser
<1> HIDE DEF effect, to
<1>6. RequestsTyped' /\ DirectoryTyped'
  BY <1>1, <1>2, <1>3, <1>4, <1>5, CommandTyped, GoesTyped, IdleWellFormed
     DEF DirectoryTyped, DirectoryType
<1> QED BY <1>6, OthersKept DEF CreatesUser, Typed

\* The groups of one user change.
LEMMA GroupsTyped ==
  ASSUME DirectoryTyped, NEW u \in Name, NEW e, NEW gs \in SUBSET Groups,
         e = [directory EXCEPT !.groups[u] = gs]
  PROVE  e \in DirectoryType /\ e.enabled \subseteq e.exists
<1>1. e \in DirectoryType
  BY DEF DirectoryTyped, DirectoryType
<1> QED BY <1>1 DEF DirectoryTyped

LEMMA JoinsGroupTyped ==
  ASSUME Typed, NEW r \in Requests, JoinsGroup(r) PROVE Typed'
<1> DEFINE q == request[r]
           u == q.user
           group == Head(q.groups)
           effect == [directory EXCEPT !.groups[u] = @ \cup {group}]
           next == [q EXCEPT !.groups = Tail(@)]
           failed == [q EXCEPT !.at = "rollback"]
<1>1. q \in Creations /\ RequestsTyped /\ DirectoryTyped
  BY PlaceTellsShape DEF Typed, RequestsTyped, JoinsGroup, At
<1>2. q.groups \in Seq(Groups) /\ q.groups # <<>> /\ u \in Name
  BY <1>1 DEF Creations, JoinsGroup
<1>3. group \in Groups /\ Tail(q.groups) \in Seq(Groups)
  BY <1>2, HeadTailProperties
<1>4. next \in Creations /\ failed \in Creations
  BY <1>1, <1>3 DEF Creations
<1>5. Command(r, effect, next, failed)
  BY DEF JoinsGroup
<1>6. effect = [directory EXCEPT !.groups[u] = directory.groups[u] \cup {group}]
  OBVIOUS
<1>7. (directory.groups[u] \cup {group}) \in SUBSET Groups
  BY <1>1, <1>2, <1>3 DEF DirectoryTyped
<1> HIDE DEF effect, next, failed
<1>8. effect \in DirectoryType /\ effect.enabled \subseteq effect.exists
  BY <1>1, <1>2, <1>6, <1>7, GroupsTyped
<1>9. WellFormed(next) /\ WellFormed(failed)
  BY <1>4 DEF WellFormed
<1>10. RequestsTyped' /\ DirectoryTyped'
  BY <1>1, <1>5, <1>8, <1>9, CommandTyped DEF DirectoryType
<1> QED BY <1>10, OthersKept DEF JoinsGroup, Typed

\* What is saved is a record, and memory takes it over.
LEMMA SaveTyped ==
  ASSUME Typed, NEW r \in Requests, NEW ext \in Extensions, NEW failed, WellFormed(failed),
         Save(r, ext, failed), UNCHANGED <<lab, directory, changes>>
  PROVE  Typed'
<1>1. (disk' = ext /\ Reload(ext) /\ Goes(r, Idle)) \/ (UNCHANGED <<disk, memory>> /\ Goes(r, failed))
  BY DEF Save
<1>2. RequestsTyped'
  BY <1>1, GoesTyped, IdleWellFormed DEF Typed
<1>3. RecordTyped'
  BY <1>1, ReloadTyped DEF Typed, RecordTyped, Reload, memory
<1>4. DraftsTyped'
  BY <1>1 DEF Typed, DraftsTyped, Reload, memory
<1> QED BY <1>2, <1>3, <1>4 DEF Typed, LabTyped, DirectoryTyped, lab

LEMMA CreateSavesTyped ==
  ASSUME Typed, NEW r \in Requests, CreateSaves(r) PROVE Typed'
<1> DEFINE q == request[r]
           u == q.user
           host == q.host
           ext == [disk EXCEPT !.users = @ \cup {u}, !.holds[u] = host,
                               !.assigned = IF host = None THEN @ ELSE [@ EXCEPT ![host] = u]]
           failed == [q EXCEPT !.at = "rollback"]
<1>1. q \in Creations /\ disk \in Extensions
  BY PlaceTellsShape DEF Typed, RequestsTyped, RecordTyped, CreateSaves, At
<1>2. u \in Name /\ host \in Hosts \cup {None} /\ WellFormed(failed)
  BY <1>1 DEF Creations, WellFormed
<1>3. ext \in Extensions
  <2>1. CASE host = None
    BY <1>1, <1>2, <2>1 DEF Extensions, Holdings
  <2>2. CASE host # None
    BY <1>1, <1>2, <2>2 DEF Extensions, Holdings, Placements
  <2> QED BY <2>1, <2>2
<1>4. Save(r, ext, failed)
  BY DEF CreateSaves
<1> HIDE DEF ext, failed
<1> QED BY <1>2, <1>3, <1>4, SaveTyped DEF CreateSaves

\* An account is deleted.
LEMMA DeletedTyped ==
  ASSUME DirectoryTyped, NEW u, NEW e,
         e = [directory EXCEPT !.exists = @ \ {u}, !.enabled = @ \ {u}]
  PROVE  e \in DirectoryType /\ e.enabled \subseteq e.exists
<1>1. e \in DirectoryType
  BY DEF DirectoryTyped, DirectoryType
<1>2. e.exists = directory.exists \ {u} /\ e.enabled = directory.enabled \ {u}
  BY DEF DirectoryTyped
<1> QED BY <1>1, <1>2 DEF DirectoryTyped

LEMMA RollsBackTyped ==
  ASSUME Typed, NEW r \in Requests, RollsBack(r) PROVE Typed'
<1> DEFINE u == request[r].user
           effect == [directory EXCEPT !.exists = @ \ {u}, !.enabled = @ \ {u}]
<1>1. effect \in DirectoryType /\ effect.enabled \subseteq effect.exists
  BY DeletedTyped DEF Typed
<1>2. Command(r, effect, Idle, Idle)
  BY DEF RollsBack
<1> HIDE DEF effect
<1>3. RequestsTyped' /\ DirectoryTyped'
  BY <1>1, <1>2, CommandTyped, IdleWellFormed DEF Typed, DirectoryType
<1> QED BY <1>3, OthersKept DEF RollsBack, Typed

LEMMA LooksUpTyped ==
  ASSUME Typed, NEW r \in Requests, NEW u \in Name, NEW purpose \in {"assign", "unassign", "delete"},
         NEW host \in Hosts \cup {None}, purpose = "assign" => host # None,
         LooksUp(r, u, purpose, host)
  PROVE  Typed'
<1> DEFINE to == [at |-> "look", purpose |-> purpose, user |-> u, host |-> host,
                  held |-> accounts.holds[u]]
<1>1. accounts.holds[u] \in Hosts \cup {None}
  BY DEF Typed, RecordTyped, Holdings
<1>2. to \in Lookups /\ (to.purpose = "assign" => to.host # None)
  BY <1>1 DEF Lookups
<1>3. Goes(r, to)
  BY DEF LooksUp
<1> HIDE DEF to
<1>4. WellFormed(to)
  BY <1>2 DEF WellFormed
<1>5. RequestsTyped' /\ DirectoryTyped'
  BY <1>3, <1>4, GoesTyped DEF Typed, LooksUp, DirectoryTyped
<1> QED BY <1>5, OthersKept DEF LooksUp, Typed

LEMMA ReleasedTyped ==
  ASSUME NEW d \in Extensions, NEW u \in Name, NEW host \in Hosts,
         NEW e, e = [d EXCEPT !.assigned[host] = None, !.holds[u] = None]
  PROVE  /\ e \in Extensions
         /\ e.devices = d.devices /\ e.users = d.users /\ e.deleted = d.deleted
         /\ e.assigned = [d.assigned EXCEPT ![host] = None]
         /\ e.holds = [d.holds EXCEPT ![u] = None]
<1>1. e \in Extensions
  BY DEF Extensions, Placements, Holdings
<1> QED BY <1>1 DEF Extensions

LEMMA ContinuesTyped ==
  ASSUME Typed, NEW r \in Requests, At(r, "look"), Allowed(r)
  PROVE  WellFormed(Continues(r))
<1> DEFINE q == request[r]
           u == q.user
<1>1. q \in Lookups /\ (q.purpose = "assign" => q.host # None)
  BY PlaceTellsShape DEF Typed, RequestsTyped, At
<1>2. CASE q.purpose = "assign"
  <2> DEFINE to == [at |-> "scan", to |-> "groups", user |-> u, host |-> q.host,
                    asked |-> Known, next |-> 1, occupied |-> {}]
  <2>1. to \in Scannings /\ to.next # 0
    BY <1>1, <1>2, KnownNames DEF Scannings, Lookups, Typed
  <2>2. Continues(r) = to
    BY <1>2 DEF Continues
  <2> HIDE DEF to
  <2> QED BY <2>1, <2>2 DEF WellFormed
<1>3. CASE q.purpose = "unassign"
  <2> DEFINE to == [at |-> "groups", user |-> u, group |-> None, ext |-> Released(u, q.held)]
  <2>1. u \in Name /\ q.held \in Hosts
    BY <1>1, <1>3 DEF Lookups, Allowed
  <2>2. Released(u, q.held) \in Extensions
    BY <2>1, ReleasedTyped DEF Typed, RecordTyped, Released
  <2>3. to \in Unassignings
    BY <2>1, <2>2 DEF Unassignings
  <2>4. Continues(r) = to
    BY <1>3 DEF Continues
  <2> HIDE DEF to
  <2> QED BY <2>3, <2>4 DEF WellFormed
<1>4. CASE q.purpose = "delete"
  <2> DEFINE to == [at |-> "erase", user |-> u]
  <2>1. to \in Deletions
    BY <1>1 DEF Lookups, Deletions
  <2>2. Continues(r) = to
    BY <1>4 DEF Continues
  <2> HIDE DEF to
  <2> QED BY <2>1, <2>2 DEF WellFormed
<1> QED BY <1>1, <1>2, <1>3, <1>4 DEF Lookups

LEMMA LooksAtTyped ==
  ASSUME Typed, NEW r \in Requests, LooksAt(r) PROVE Typed'
<1>1. RequestsTyped /\ DirectoryTyped
  BY DEF Typed
<1>2. (Allowed(r) /\ Reads(r, Continues(r), Idle)) \/ (Goes(r, Idle) /\ UNCHANGED directory)
  BY DEF LooksAt
<1>3. Allowed(r) => WellFormed(Continues(r))
  BY ContinuesTyped DEF LooksAt
<1>4. RequestsTyped' /\ DirectoryTyped'
  BY <1>1, <1>2, <1>3, ReadsTyped, GoesTyped, IdleWellFormed DEF DirectoryTyped
<1> QED BY <1>4, OthersKept DEF LooksAt, Typed

LEMMA AssignChoosesTyped ==
  ASSUME Typed, NEW r \in Requests, AssignChooses(r) PROVE Typed'
<1> DEFINE q == request[r]
           to == [at |-> "groups", user |-> q.user, group |-> FloorOf(q.host), host |-> q.host]
<1>1. q \in Scannings /\ RequestsTyped
  BY PlaceTellsShape DEF Typed, RequestsTyped, AssignChooses, Scanned, At
<1>2. ASSUME q.host \in Available(r) PROVE WellFormed(to)
  <2>1. FloorOf(q.host) \in Floors
    BY <1>2, CurrentTyped DEF Available, Typed
  <2>2. to \in Assignings
    BY <1>1, <2>1 DEF Assignings, Scannings
  <2> HIDE DEF to
  <2> QED BY <2>2 DEF WellFormed
<1>3. Goes(r, Idle) \/ (q.host \in Available(r) /\ Goes(r, to))
  BY DEF AssignChooses
<1> HIDE DEF to
<1>4. RequestsTyped' /\ DirectoryTyped'
  BY <1>1, <1>2, <1>3, GoesTyped, IdleWellFormed DEF Typed, AssignChooses, DirectoryTyped
<1> QED BY <1>4, OthersKept DEF AssignChooses, Typed

\* Who is to be assigned, or released, and from or to which floor.
LEMMA AssignmentForm ==
  ASSUME NEW p \in Assignings \cup Unassignings
  PROVE  /\ p.at = "groups" /\ p.user \in Name /\ p.group \in Floors \cup {None}
         /\ p.group # None => p \in Assignings /\ p.host \in Hosts
         /\ p.group = None => p \in Unassignings /\ p.ext \in Extensions
<1>1. None \notin Floors
  BY InventoryAssumption
<1>2. CASE p \in Assignings
  BY <1>1, <1>2 DEF Assignings
<1>3. CASE p \in Unassignings
  BY <1>3 DEF Unassignings
<1> QED BY <1>2, <1>3

LEMMA ReadsGroupsTyped ==
  ASSUME Typed, NEW r \in Requests, ReadsGroups(r) PROVE Typed'
<1> DEFINE q == request[r]
           had == directory.groups[q.user] \cap Floors
           plan == Plan(had, q.group)
           to == [at |-> "move", request |-> q, since |-> changes,
                  leave |-> plan.leave, join |-> plan.join]
<1>1. q \in Assignings \cup Unassignings /\ RequestsTyped /\ DirectoryTyped /\ changes \in Nat
  BY PlaceTellsShape DEF Typed, RequestsTyped, ReadsGroups, At
<1>2. /\ plan.leave \in SUBSET Floors /\ plan.join \in SUBSET Floors
      /\ plan.join \subseteq {q.group}
  BY <1>1, AssignmentForm DEF Plan
<1> HIDE DEF plan
<1>3. to \in Movings
  BY <1>1, <1>2 DEF Movings
<1>4. to.join \subseteq {to.request.group}
  BY <1>2
<1>5. Reads(r, to, Idle) \/ (Goes(r, Idle) /\ UNCHANGED directory)
  BY DEF ReadsGroups, plan
<1> HIDE DEF to
<1>6. WellFormed(to)
  BY <1>3, <1>4 DEF WellFormed
<1>7. RequestsTyped' /\ DirectoryTyped'
  BY <1>1, <1>5, <1>6, ReadsTyped, GoesTyped, IdleWellFormed DEF DirectoryTyped
<1> QED BY <1>7, OthersKept DEF ReadsGroups, Typed

LEMMA MovesGroupTyped ==
  ASSUME Typed, NEW r \in Requests, MovesGroup(r) PROVE Typed'
<1> DEFINE q == request[r]
           u == q.request.user
<1>1. q \in Movings /\ q.join \subseteq {q.request.group} /\ RequestsTyped /\ DirectoryTyped
  BY PlaceTellsShape DEF Typed, RequestsTyped, MovesGroup, At
<1>2. u \in Name /\ q.leave \subseteq Floors /\ q.join \subseteq Floors
  BY <1>1, AssignmentForm DEF Movings
<1>3. directory.groups[u] \in SUBSET Groups
  BY <1>1, <1>2 DEF DirectoryTyped
<1>4. ASSUME NEW g \in q.leave,
             Command(r, [directory EXCEPT !.groups[u] = @ \ {g}],
                     [q EXCEPT !.leave = @ \ {g}], Idle)
      PROVE  RequestsTyped' /\ DirectoryTyped'
  <2> DEFINE effect == [directory EXCEPT !.groups[u] = @ \ {g}]
             next == [q EXCEPT !.leave = @ \ {g}]
  <2>1. effect = [directory EXCEPT !.groups[u] = directory.groups[u] \ {g}]
    OBVIOUS
  <2>2. next = [q EXCEPT !.leave = q.leave \ {g}]
    OBVIOUS
  <2>3. (directory.groups[u] \ {g}) \in SUBSET Groups /\ (q.leave \ {g}) \in SUBSET Floors
    BY <1>2, <1>3
  <2>4. Command(r, effect, next, Idle)
    BY <1>4
  <2> HIDE DEF effect, next
  <2>5. next \in Movings /\ next.join = q.join /\ next.request = q.request
    BY <1>1, <2>2, <2>3 DEF Movings
  <2>6. WellFormed(next)
    BY <1>1, <2>5 DEF WellFormed
  <2>7. effect \in DirectoryType /\ effect.enabled \subseteq effect.exists
    BY <1>1, <1>2, <2>1, <2>3, GroupsTyped
  <2> QED BY <1>1, <2>4, <2>6, <2>7, CommandTyped, IdleWellFormed DEF DirectoryType
<1>5. ASSUME NEW g \in q.join,
             Command(r, [directory EXCEPT !.groups[u] = @ \cup {g}],
                     [q EXCEPT !.join = {}], Idle)
      PROVE  RequestsTyped' /\ DirectoryTyped'
  <2> DEFINE effect == [directory EXCEPT !.groups[u] = @ \cup {g}]
             next == [q EXCEPT !.join = {}]
  <2>1. effect = [directory EXCEPT !.groups[u] = directory.groups[u] \cup {g}]
    OBVIOUS
  <2>2. next \in Movings /\ next.join = {}
    BY <1>1 DEF Movings
  <2>3. (directory.groups[u] \cup {g}) \in SUBSET Groups
    BY <1>2, <1>3 DEF Groups
  <2>4. Command(r, effect, next, Idle)
    BY <1>5
  <2> HIDE DEF effect, next
  <2>5. WellFormed(next)
    BY <2>2 DEF WellFormed
  <2>6. effect \in DirectoryType /\ effect.enabled \subseteq effect.exists
    BY <1>1, <1>2, <2>1, <2>3, GroupsTyped
  <2> QED BY <1>1, <2>4, <2>5, <2>6, CommandTyped, IdleWellFormed DEF DirectoryType
<1>6. RequestsTyped' /\ DirectoryTyped'
  BY <1>4, <1>5 DEF MovesGroup
<1> QED BY <1>6, OthersKept DEF MovesGroup, Typed

LEMMA AssignSavesTyped ==
  ASSUME Typed, NEW r \in Requests, AssignSaves(r) PROVE Typed'
<1> DEFINE p == request[r].request
           ext == [disk EXCEPT !.assigned[p.host] = p.user, !.holds[p.user] = p.host]
<1>1. p \in Assignings \cup Unassignings /\ p.group # None /\ disk \in Extensions
  BY PlaceTellsShape DEF Typed, RequestsTyped, RecordTyped, AssignSaves, Moved, At, Movings
<1>2. p.user \in Name /\ p.host \in Hosts
  BY <1>1, AssignmentForm
<1>3. ext \in Extensions
  BY <1>1, <1>2 DEF Extensions, Placements, Holdings
<1>4. Save(r, ext, Idle)
  BY DEF AssignSaves
<1> HIDE DEF ext
<1> QED BY <1>3, <1>4, SaveTyped, IdleWellFormed DEF AssignSaves

LEMMA UnassignSavesTyped ==
  ASSUME Typed, NEW r \in Requests, UnassignSaves(r) PROVE Typed'
<1> DEFINE p == request[r].request
<1>1. p \in Assignings \cup Unassignings /\ p.group = None
  BY PlaceTellsShape DEF Typed, RequestsTyped, UnassignSaves, Moved, At, Movings
<1>2. p.ext \in Extensions
  BY <1>1, AssignmentForm
<1> QED BY <1>2, SaveTyped, IdleWellFormed DEF UnassignSaves

LEMMA ErasesTyped ==
  ASSUME Typed, NEW r \in Requests, Erases(r) PROVE Typed'
<1> DEFINE u == request[r].user
           effect == [directory EXCEPT !.exists = @ \ {u}, !.enabled = @ \ {u}]
           to == [at |-> "forget", user |-> u]
<1>1. request[r] \in Deletions /\ RequestsTyped /\ DirectoryTyped
  BY PlaceTellsShape DEF Typed, RequestsTyped, Erases, At
<1>2. WellFormed(to)
  BY <1>1 DEF Deletions, WellFormed
<1>3. effect \in DirectoryType /\ effect.enabled \subseteq effect.exists
  BY <1>1, DeletedTyped
<1>4. Command(r, effect, to, Idle) \/ (Goes(r, Idle) /\ UNCHANGED directory)
  BY DEF Erases
<1> HIDE DEF effect, to
<1>5. RequestsTyped' /\ DirectoryTyped'
  BY <1>1, <1>2, <1>3, <1>4, CommandTyped, GoesTyped, IdleWellFormed DEF DirectoryTyped, DirectoryType
<1> QED BY <1>5, OthersKept DEF Erases, Typed

LEMMA HeldByTyped == \A u : HeldBy(u) \in Hosts \cup {None}
BY InventoryAssumption DEF HeldBy, Hosts, Range

LEMMA ForgetsTyped ==
  ASSUME Typed, NEW r \in Requests, Forgets(r) PROVE Typed'
<1> DEFINE u == request[r].user
           held == HeldBy(u)
           ext == [disk EXCEPT !.users = @ \ {u}, !.holds[u] = held, !.deleted = @ \cup {u}]
<1>1. u \in Name /\ disk \in Extensions /\ RequestsTyped
  BY PlaceTellsShape DEF Typed, RequestsTyped, RecordTyped, Forgets, At, Deletions
<1>2. held \in Hosts \cup {None}
  BY HeldByTyped
<1>3. \/ disk' = ext /\ accounts' = AccountsOf(ext)
      \/ UNCHANGED <<disk, accounts>>
  BY DEF Forgets
<1> HIDE DEF held
<1>4. ext \in Extensions
  BY <1>1, <1>2 DEF Extensions, Holdings
<1> HIDE DEF ext
<1>5. RecordTyped'
  BY <1>3, <1>4, ReloadTyped DEF Typed, RecordTyped, Forgets
<1>6. RequestsTyped'
  BY <1>1, GoesTyped, IdleWellFormed DEF Forgets
<1> QED BY <1>5, <1>6 DEF Typed, Forgets, LabTyped, DirectoryTyped, DraftsTyped, lab
-----------------------------------------------------------------------------
(* Offboarding, single commands and the restart *)

LEMMA RetiresTyped ==
  ASSUME Typed, NEW r \in Requests, NEW u \in Name, Retires(r, u) PROVE Typed'
<1> DEFINE effect == [directory EXCEPT !.groups[u] = @ \cup {"Former-Employees"}]
           to == [at |-> "disable", user |-> u, since |-> changes + 1]
<1>1. RequestsTyped /\ DirectoryTyped /\ changes \in Nat /\ changes' \in Nat
  BY DEF Typed, Retires
<1>2. to \in Retirings
  BY <1>1 DEF Retirings
<1>3. effect = [directory EXCEPT !.groups[u] = directory.groups[u] \cup {"Former-Employees"}]
  OBVIOUS
<1>4. (directory.groups[u] \cup {"Former-Employees"}) \in SUBSET Groups
  BY <1>1 DEF Groups, DirectoryTyped
<1>5. Command(r, effect, to, Idle)
  BY DEF Retires
<1> HIDE DEF effect, to
<1>6. effect \in DirectoryType /\ effect.enabled \subseteq effect.exists
  BY <1>1, <1>3, <1>4, GroupsTyped
<1>7. WellFormed(to)
  BY <1>2 DEF WellFormed
<1>8. RequestsTyped' /\ DirectoryTyped'
  BY <1>1, <1>5, <1>6, <1>7, CommandTyped, IdleWellFormed DEF DirectoryType
<1> QED BY <1>1, <1>8, OthersKept DEF Retires

LEMMA DisablesRetiredTyped ==
  ASSUME Typed, NEW r \in Requests, DisablesRetired(r) PROVE Typed'
<1> DEFINE q == request[r]
           effect == [directory EXCEPT !.enabled = @ \ {q.user}]
           to == [q EXCEPT !.at = "retired"]
<1>1. q \in Retirings /\ RequestsTyped /\ DirectoryTyped
  BY PlaceTellsShape DEF Typed, RequestsTyped, DisablesRetired, At
<1>2. effect \in DirectoryType /\ WellFormed(to)
  BY <1>1 DEF DirectoryTyped, DirectoryType, WellFormed, Retirings
<1>3. effect.enabled \subseteq effect.exists
  BY <1>1 DEF DirectoryTyped
<1>4. Command(r, effect, to, Idle) \/ (Goes(r, Idle) /\ UNCHANGED directory)
  BY DEF DisablesRetired
<1> HIDE DEF effect, to
<1>5. RequestsTyped' /\ DirectoryTyped'
  BY <1>1, <1>2, <1>3, <1>4, CommandTyped, GoesTyped, IdleWellFormed DEF DirectoryTyped, DirectoryType
<1> QED BY <1>5, OthersKept DEF DisablesRetired, Typed

LEMMA ReadsRetiredTyped ==
  ASSUME Typed, NEW r \in Requests, ReadsRetired(r) PROVE Typed'
<1> DEFINE q == request[r]
           to == [at |-> "leave", user |-> q.user, since |-> q.since,
                  leave |-> directory.groups[q.user] \ {"Former-Employees"}]
<1>1. q \in Retirings /\ RequestsTyped /\ DirectoryTyped
  BY PlaceTellsShape DEF Typed, RequestsTyped, ReadsRetired, At
<1>2. (directory.groups[q.user] \ {"Former-Employees"}) \in SUBSET Groups
  BY <1>1 DEF DirectoryTyped, Retirings
<1>3. to \in Leavings
  BY <1>1, <1>2 DEF Leavings, Retirings
<1>4. Reads(r, to, Idle) \/ (Goes(r, Idle) /\ UNCHANGED directory)
  BY DEF ReadsRetired
<1> HIDE DEF to
<1>5. WellFormed(to)
  BY <1>3 DEF WellFormed
<1>6. RequestsTyped' /\ DirectoryTyped'
  BY <1>1, <1>4, <1>5, ReadsTyped, GoesTyped, IdleWellFormed DEF DirectoryTyped
<1> QED BY <1>6, OthersKept DEF ReadsRetired, Typed

LEMMA LeavesGroupTyped ==
  ASSUME Typed, NEW r \in Requests, LeavesGroup(r) PROVE Typed'
<1> DEFINE q == request[r]
           u == q.user
<1>1. q \in Leavings /\ RequestsTyped /\ DirectoryTyped
  BY PlaceTellsShape DEF Typed, RequestsTyped, LeavesGroup, At
<1>2. u \in Name /\ q.leave \subseteq Groups
  BY <1>1 DEF Leavings
<1>3. PICK g \in q.leave : Command(r, [directory EXCEPT !.groups[u] = @ \ {g}],
                                   [q EXCEPT !.leave = @ \ {g}], Idle)
  BY DEF LeavesGroup
<1> DEFINE effect == [directory EXCEPT !.groups[u] = @ \ {g}]
           next == [q EXCEPT !.leave = @ \ {g}]
<1>4. effect = [directory EXCEPT !.groups[u] = directory.groups[u] \ {g}]
  OBVIOUS
<1>5. next = [q EXCEPT !.leave = q.leave \ {g}]
  OBVIOUS
<1>6. (directory.groups[u] \ {g}) \in SUBSET Groups /\ (q.leave \ {g}) \in SUBSET Groups
  BY <1>1, <1>2 DEF DirectoryTyped
<1>7. Command(r, effect, next, Idle)
  BY <1>3
<1> HIDE DEF effect, next
<1>8. next \in Leavings
  BY <1>1, <1>5, <1>6 DEF Leavings
<1>9. WellFormed(next)
  BY <1>8 DEF WellFormed
<1>10. effect \in DirectoryType /\ effect.enabled \subseteq effect.exists
  BY <1>1, <1>2, <1>4, <1>6, GroupsTyped
<1>11. RequestsTyped' /\ DirectoryTyped'
  BY <1>1, <1>7, <1>9, <1>10, CommandTyped, IdleWellFormed DEF DirectoryType
<1> QED BY <1>11, OthersKept DEF LeavesGroup, Typed

LEMMA RetiredTyped ==
  ASSUME Typed, NEW r \in Requests, Retired(r) PROVE Typed'
<1>1. RequestsTyped' /\ DirectoryTyped'
  BY GoesTyped, IdleWellFormed DEF Typed, Retired, DirectoryTyped
<1> QED BY <1>1, OthersKept DEF Retired, Typed

LEMMA UserActionTyped ==
  ASSUME Typed, NEW u \in Name, UserAction(u) PROVE Typed'
<1>1. directory \in DirectoryType /\ directory.enabled \subseteq directory.exists
  BY DEF Typed, DirectoryTyped, DirectoryType
<1> DEFINE enabled == IF u \in directory.enabled THEN directory.enabled \ {u}
                                                 ELSE directory.enabled \cup {u}
<1>2. directory' = [directory EXCEPT !.enabled = enabled] /\ u \in directory.exists
  BY DEF UserAction
<1>3. enabled \subseteq directory.exists /\ enabled \subseteq Name
  BY <1>1, <1>2 DEF DirectoryType
<1> HIDE DEF enabled
<1>4. directory' \in DirectoryType
  BY <1>1, <1>2, <1>3 DEF DirectoryType
<1>5. directory'.enabled = enabled /\ directory'.exists = directory.exists
  BY <1>1, <1>2 DEF DirectoryType
<1>6. DirectoryTyped'
  BY <1>3, <1>4, <1>5 DEF DirectoryTyped, DirectoryType
<1> QED BY <1>6, OthersKept DEF UserAction, Typed, RequestsTyped

LEMMA MembershipActionTyped ==
  ASSUME Typed, NEW u \in Name, NEW g \in Floors, MembershipAction(u, g) PROVE Typed'
<1>1. DirectoryTyped
  BY DEF Typed
<1> DEFINE groups == IF g \in directory.groups[u] THEN directory.groups[u] \ {g}
                                                  ELSE directory.groups[u] \cup {g}
<1>2. directory' = [directory EXCEPT !.groups[u] = groups]
  BY DEF MembershipAction
<1>3. groups \in SUBSET Groups
  BY <1>1 DEF DirectoryTyped, Groups
<1> HIDE DEF groups
<1>4. DirectoryTyped'
  <2>1. directory' \in DirectoryType /\ directory'.enabled \subseteq directory'.exists
    BY <1>1, <1>2, <1>3, GroupsTyped
  <2> QED BY <2>1 DEF DirectoryTyped, DirectoryType
<1> QED BY <1>4, OthersKept DEF MembershipAction, Typed, RequestsTyped

LEMMA RestartTyped == ASSUME Typed, Restart PROVE Typed'
<1>1. RequestsTyped'
  BY IdleWellFormed DEF RequestsTyped, Restart
<1>2. RecordTyped'
  BY ReloadTyped DEF Typed, RecordTyped, Restart
<1>3. DraftsTyped'
  <2>1. DOMAIN <<>> = {}
    OBVIOUS
  <2> QED BY <2>1 DEF DraftsTyped, Restart
<1> QED BY <1>1, <1>2, <1>3 DEF Typed, Restart, LabTyped, DirectoryTyped, lab

LEMMA DevicesKeepTyped ==
  ASSUME Typed, NEW r \in Requests, Devices(r) PROVE Typed'
BY ApplyBeginsTyped, RemoveBeginsTyped, ShowsComputerTyped, CreatesComputerTyped, DestroysTyped,
   DeploysTyped, DeletesComputerTyped DEF Devices

LEMMA EmployeesKeepTyped ==
  ASSUME Typed, NEW r \in Requests, Employees(r) PROVE Typed'
<1>1. ASSUME NEW u \in Name, \E host \in Hosts : LooksUp(r, u, "assign", host)
      PROVE  Typed'
  <2>1. PICK host \in Hosts : LooksUp(r, u, "assign", host)
    BY <1>1
  <2>2. host # None
    BY InventoryAssumption
  <2> QED BY <2>1, <2>2, LooksUpTyped
<1>2. ASSUME NEW u \in Name, LooksUp(r, u, "unassign", None) \/ LooksUp(r, u, "delete", None)
      PROVE  Typed'
  BY <1>2, LooksUpTyped
<1>3. ASSUME NEW u \in Name, NEW host \in Hosts \cup {None}, CreateBegins(r, u, host)
      PROVE  Typed'
  BY <1>3, CreateBeginsTyped
<1>4. ASSUME NEW u \in Name, Retires(r, u)
      PROVE  Typed'
  BY <1>4, RetiresTyped
<1>5. CASE \/ CreateChooses(r) \/ CreatesUser(r) \/ JoinsGroup(r) \/ CreateSaves(r) \/ RollsBack(r)
           \/ LooksAt(r) \/ Scans(r) \/ AssignChooses(r)
           \/ ReadsGroups(r) \/ MovesGroup(r) \/ AssignSaves(r) \/ UnassignSaves(r)
           \/ Erases(r) \/ Forgets(r)
           \/ DisablesRetired(r) \/ ReadsRetired(r) \/ LeavesGroup(r) \/ Retired(r)
  BY <1>5, CreateChoosesTyped, CreatesUserTyped, JoinsGroupTyped, CreateSavesTyped, RollsBackTyped,
     LooksAtTyped, ScansTyped, AssignChoosesTyped, ReadsGroupsTyped, MovesGroupTyped,
     AssignSavesTyped, UnassignSavesTyped, ErasesTyped, ForgetsTyped, DisablesRetiredTyped,
     ReadsRetiredTyped, LeavesGroupTyped, RetiredTyped
<1> QED BY <1>1, <1>2, <1>3, <1>4, <1>5 DEF Employees

LEMMA StepTyped == ASSUME Typed, Step PROVE Typed'
BY DraftTyped, DevicesKeepTyped, EmployeesKeepTyped, UserActionTyped, MembershipActionTyped,
   RestartTyped DEF Step

-----------------------------------------------------------------------------
(* Memory is what the file says. *)

LEMMA SaveFollowed ==
  ASSUME MemoryFollowsRecord, NEW r, NEW ext, NEW failed, Save(r, ext, failed)
  PROVE  MemoryFollowsRecord'
<1>1. (disk' = ext /\ Reload(ext)) \/ UNCHANGED <<disk, memory>>
  BY DEF Save
<1>2. CASE disk' = ext /\ Reload(ext)
  BY <1>2 DEF MemoryFollowsRecord, Reload, InventoryOf
<1>3. CASE UNCHANGED <<disk, memory>>
  BY <1>3 DEF MemoryFollowsRecord, memory
<1> QED BY <1>1, <1>2, <1>3

LEMMA ReloadFollowed ==
  ASSUME inventory' = InventoryOf(disk), accounts' = AccountsOf(disk), disk' = disk
  PROVE  MemoryFollowsRecord'
BY DEF MemoryFollowsRecord, InventoryOf

\* Who has which workstation is no matter of the requests for devices.
LEMMA DevicesRecord ==
  ASSUME Typed, MemoryFollowsRecord, NEW r \in Requests, Devices(r)
  PROVE  AccountsOf(disk') = AccountsOf(disk) /\ disk'.assigned = disk.assigned
<1>1. ASSUME NEW id \in DOMAIN drafts, ApplyBegins(r, id)
      PROVE  AccountsOf(disk') = AccountsOf(disk) /\ disk'.assigned = disk.assigned
  <2>1. UNCHANGED disk \/ disk' = [disk EXCEPT !.devices = disk'.devices]
    BY <1>1, ApplyBeginsTyped DEF ApplyBegins
  <2> QED BY <2>1 DEF Typed, RecordTyped, Extensions, AccountsOf
<1>2. ASSUME NEW host \in DynamicHosts, RemoveBegins(r, host)
      PROVE  AccountsOf(disk') = AccountsOf(disk) /\ disk'.assigned = disk.assigned
  <2>1. \/ UNCHANGED disk
        \/ disk' = [disk EXCEPT !.devices = disk'.devices, !.assigned[host] = None]
    BY <1>2, RemoveBeginsTyped DEF RemoveBegins
  <2>2. disk.assigned[host] = None
    BY <1>2 DEF RemoveBegins, MemoryFollowsRecord
  <2>3. [disk.assigned EXCEPT ![host] = None] = disk.assigned
    BY <2>2 DEF Typed, RecordTyped, Extensions, Placements
  <2> QED BY <2>1, <2>3 DEF Typed, RecordTyped, Extensions, AccountsOf
<1>3. CASE ShowsComputer(r) \/ CreatesComputer(r) \/ Destroys(r) \/ Deploys(r) \/ DeletesComputer(r)
  BY <1>3 DEF ShowsComputer, CreatesComputer, Destroys, Deploys, DeletesComputer
<1> QED BY <1>1, <1>2, <1>3 DEF Devices

LEMMA DevicesFollowed ==
  ASSUME Typed, MemoryFollowsRecord, NEW r \in Requests, Devices(r)
  PROVE  MemoryFollowsRecord'
<1>1. CASE \/ \E id \in DOMAIN drafts : ApplyBegins(r, id)
           \/ \E host \in DynamicHosts : RemoveBegins(r, host)
           \/ ShowsComputer(r) \/ CreatesComputer(r) \/ Destroys(r)
  <2>1. UNCHANGED memory
    BY <1>1 DEF ApplyBegins, RemoveBegins, ShowsComputer, CreatesComputer, Destroys
  <2> QED BY <2>1, DevicesRecord DEF MemoryFollowsRecord, memory
<1>2. CASE Deploys(r)
  BY <1>2, ReloadFollowed DEF Deploys, MemoryFollowsRecord, memory
<1>3. CASE DeletesComputer(r)
  BY <1>3, ReloadFollowed DEF DeletesComputer, Reload
<1> QED BY <1>1, <1>2, <1>3 DEF Devices

LEMMA EmployeesFollowed ==
  ASSUME Typed, MemoryFollowsRecord, NEW r \in Requests, Employees(r)
  PROVE  MemoryFollowsRecord'
<1>1. CASE CreateSaves(r) \/ AssignSaves(r) \/ UnassignSaves(r)
  BY <1>1, SaveFollowed DEF CreateSaves, AssignSaves, UnassignSaves
<1>2. CASE Forgets(r)
  <2>1. CASE UNCHANGED <<disk, accounts>>
    BY <1>2, <2>1 DEF Forgets, MemoryFollowsRecord
  <2>2. CASE ~UNCHANGED <<disk, accounts>>
    <3>1. accounts' = AccountsOf(disk') /\ UNCHANGED inventory /\ disk'.assigned = disk.assigned
      BY <1>2, <2>2 DEF Forgets, Typed, RecordTyped, Extensions
    <3> QED BY <3>1 DEF MemoryFollowsRecord
  <2> QED BY <2>1, <2>2
<1>3. CASE ~(CreateSaves(r) \/ AssignSaves(r) \/ UnassignSaves(r) \/ Forgets(r))
  <2>1. UNCHANGED <<disk, memory>>
    BY <1>3 DEF Employees, CreateBegins, CreateChooses, CreatesUser, JoinsGroup, RollsBack,
                LooksUp, LooksAt, Scans, AssignChooses, ReadsGroups, MovesGroup, Erases,
                Retires, DisablesRetired, ReadsRetired, LeavesGroup, Retired
  <2> QED BY <2>1 DEF MemoryFollowsRecord, memory
<1> QED BY <1>1, <1>2, <1>3

LEMMA StepFollowed ==
  ASSUME Typed, MemoryFollowsRecord, Step PROVE MemoryFollowsRecord'
<1>1. ASSUME NEW id \in Drafts, NEW host \in DynamicHosts, NEW floor \in Floors,
             Draft(id, host, floor)
      PROVE  MemoryFollowsRecord'
  BY <1>1 DEF Draft, MemoryFollowsRecord
<1>2. ASSUME NEW u \in Name, UserAction(u) \/ \E g \in Floors : MembershipAction(u, g)
      PROVE  MemoryFollowsRecord'
  BY <1>2 DEF UserAction, MembershipAction, MemoryFollowsRecord, memory
<1>3. CASE Restart
  BY <1>3, ReloadFollowed DEF Restart
<1> QED BY <1>1, <1>2, <1>3, DevicesFollowed, EmployeesFollowed DEF Step
-----------------------------------------------------------------------------
(* What a request knows of the record *)

Knowing == {"scan", "create_user", "join", "rollback", "look", "groups", "move", "erase", "forget"}

LEMMA NothingToKnow == ASSUME NEW q, NEW d, q.at \notin Knowing PROVE KnowsRecord(q, d)
BY DEF KnowsRecord, Knowing

LEMMA IdleKnows ==
  \A d, c : KnowsRecord(Idle, d) /\ KnowsAccount(Idle, d) /\ KnowsDepartment(Idle, d, c)
BY DEF KnowsRecord, KnowsAccount, KnowsDepartment, Idle

\* Memory stands for the record.
LEMMA MemoryTells ==
  ASSUME MemoryFollowsRecord
  PROVE  /\ Known = Recorded(disk) /\ accounts.holds = disk.holds
         /\ accounts.users = disk.users /\ accounts.deleted = disk.deleted
BY DEF MemoryFollowsRecord, Known, Recorded, AccountsOf

\* The result of a command of request r.
LEMMA CommandResult ==
  ASSUME RequestsTyped, NEW r \in Requests, NEW effect, NEW next, NEW failed,
         Command(r, effect, next, failed)
  PROVE  \/ directory' = effect /\ request'[r] = next
         \/ directory' \in {directory, effect} /\ request'[r] = failed
BY DEF Command, Goes, RequestsTyped

LEMMA ReadsResult ==
  ASSUME RequestsTyped, NEW r \in Requests, NEW next, NEW failed, Reads(r, next, failed)
  PROVE  UNCHANGED directory /\ request'[r] \in {next, failed}
BY CommandResult DEF Reads

LEMMA GoesResult ==
  ASSUME RequestsTyped, NEW r \in Requests, NEW to, Goes(r, to) PROVE request'[r] = to
BY DEF Goes, RequestsTyped

\* A request for devices knows nothing of the record that it would rely on.
LEMMA DevicesKnow ==
  ASSUME Typed, NEW r \in Requests, Devices(r)
  PROVE  /\ request'[r].at \notin Knowing
         /\ request'[r].at \notin {"disable", "retired", "leave"}
         /\ request'[r].at = "deploy" => running' = {}
<1>1. RequestsTyped
  BY DEF Typed
<1>2. ASSUME NEW id \in DOMAIN drafts, ApplyBegins(r, id)
      PROVE  request'[r].at \in {"idle", "show"}
  BY <1>2, ApplyBeginsTyped DEF ApplyBegins, At
<1>3. ASSUME NEW host \in DynamicHosts, RemoveBegins(r, host)
      PROVE  request'[r].at \in {"idle", "destroy"}
  BY <1>3, RemoveBeginsTyped DEF RemoveBegins, At
<1>4. ASSUME ShowsComputer(r) PROVE request'[r].at \in {"destroy", "create_computer"}
  <2>1. request[r] \in Provisions
    BY <1>1, <1>4, PlaceTellsShape DEF ShowsComputer, At, RequestsTyped
  <2>2. request'[r] \in {[request[r] EXCEPT !.at = "destroy"], [request[r] EXCEPT !.at = "create_computer"]}
    BY <1>1, <1>4, ReadsResult, GoesResult DEF ShowsComputer, Moves
  <2> QED BY <2>1, <2>2 DEF Provisions
<1>5. ASSUME CreatesComputer(r) PROVE request'[r].at \in {"destroy", "idle"}
  <2>1. request[r] \in Provisions
    BY <1>1, <1>5, PlaceTellsShape DEF CreatesComputer, At, RequestsTyped
  <2>2. request'[r] \in {[request[r] EXCEPT !.at = "destroy"], Idle}
    BY <1>1, <1>5, CommandResult, GoesResult DEF CreatesComputer
  <2> QED BY <2>1, <2>2 DEF Provisions, Idle
<1>6. ASSUME Destroys(r)
      PROVE  request'[r].at = "idle" \/ (request'[r].at = "deploy" /\ running' = {})
  <2>1. request[r] \in Provisions \/ request[r] \in Removals
    BY <1>1, <1>6, PlaceTellsShape DEF Destroys, At, RequestsTyped
  <2>2. \/ request'[r] = [request[r] EXCEPT !.at = "deploy"] /\ running' = {}
        \/ request'[r] = Idle
    BY <1>1, <1>6, GoesResult DEF Destroys, Moves
  <2> QED BY <2>1, <2>2 DEF Provisions, Removals, Idle
<1>7. ASSUME Deploys(r) PROVE request'[r].at \in {"delete_computer", "idle"}
  <2>1. request[r] \in Provisions \/ request[r] \in Removals
    BY <1>1, <1>7, PlaceTellsShape DEF Deploys, At, RequestsTyped
  <2>2. request'[r] \in {[request[r] EXCEPT !.at = "delete_computer"], Idle}
    BY <1>1, <1>7, GoesResult DEF Deploys, Moves
  <2> QED BY <2>1, <2>2 DEF Provisions, Removals, Idle
<1>8. ASSUME DeletesComputer(r) PROVE request'[r].at = "idle"
  BY <1>1, <1>8, CommandResult DEF DeletesComputer, Idle
<1> QED BY <1>2, <1>3, <1>4, <1>5, <1>6, <1>7, <1>8 DEF Devices, Knowing

LEMMA ScansKnow ==
  ASSUME Typed, MemoryFollowsRecord, NEW r \in Requests, Scans(r), KnowsRecord(request[r], disk)
  PROVE  KnowsRecord(request'[r], disk')
<1> DEFINE q == request[r]
           u == Users[q.next]
           further == [q EXCEPT !.next = @ + 1]
           held == [q EXCEPT !.next = @ + 1, !.occupied = @ \cup {accounts.holds[u]}]
<1>1. q \in Scannings /\ q.at = "scan" /\ q.next \leq Len(Users) /\ UNCHANGED disk
  BY PlaceTellsShape DEF Typed, RequestsTyped, Scans, At
<1>2. \/ request'[r] = Idle
      \/ request'[r] = further /\ u \notin q.asked
      \/ request'[r] = held
  <2>1. \/ Goes(r, Idle)
        \/ Goes(r, further) /\ u \notin q.asked
        \/ Reads(r, held, Idle)
    BY DEF Scans
  <2> HIDE DEF held, further
  <2> QED BY <2>1, GoesResult, ReadsResult DEF Typed
<1>3. /\ q.asked = Recorded(disk)
      /\ \A i \in 1..Len(Users) :
           i < q.next /\ Users[i] \in q.asked => disk.holds[Users[i]] \in q.occupied
      /\ IF q.to = "create_user" THEN q.user \notin Recorded(disk)
                                 ELSE q.user \in Recorded(disk) /\ disk.holds[q.user] = None
  BY <1>1 DEF KnowsRecord
<1>4. \A i \in 1..Len(Users) : i < q.next + 1 => i < q.next \/ i = q.next
  BY <1>1 DEF Scannings
<1>5. CASE request'[r] = further /\ u \notin q.asked
  <2>1. /\ further.at = "scan" /\ further.asked = q.asked /\ further.to = q.to
        /\ further.user = q.user /\ further.occupied = q.occupied /\ further.next = q.next + 1
    BY <1>1 DEF Scannings
  <2> HIDE DEF further
  <2>2. \A i \in 1..Len(Users) :
          i < further.next /\ Users[i] \in further.asked => disk.holds[Users[i]] \in further.occupied
    BY <1>3, <1>4, <1>5, <2>1
  <2> QED BY <1>1, <1>3, <1>5, <2>1, <2>2 DEF KnowsRecord
<1>6. CASE request'[r] = held
  <2> DEFINE seen == q.occupied \cup {accounts.holds[u]}
  <2>1. held = [q EXCEPT !.next = q.next + 1, !.occupied = seen]
    OBVIOUS
  <2>2. disk.holds[u] \in seen /\ q.occupied \subseteq seen
    BY MemoryTells
  <2> HIDE DEF held, seen
  <2>3. /\ held.at = "scan" /\ held.asked = q.asked /\ held.to = q.to
        /\ held.user = q.user /\ held.occupied = seen /\ held.next = q.next + 1
    BY <1>1, <2>1 DEF Scannings
  <2>4. \A i \in 1..Len(Users) :
          i < held.next /\ Users[i] \in held.asked => disk.holds[Users[i]] \in held.occupied
    BY <1>3, <1>4, <2>2, <2>3
  <2> QED BY <1>1, <1>3, <1>6, <2>3, <2>4 DEF KnowsRecord
<1> QED BY <1>2, <1>5, <1>6, IdleKnows

\* When every user was asked, what is available is held by nobody on record.
LEMMA AvailableUnheld ==
  ASSUME Typed, NEW r \in Requests, Scanned(r), KnowsRecord(request[r], disk),
         NEW host \in Available(r)
  PROVE  Unheld(host, disk)
<1> DEFINE q == request[r]
<1>1. q \in Scannings /\ q.at = "scan" /\ q.next > Len(Users)
  BY PlaceTellsShape DEF Typed, RequestsTyped, Scanned, At
<1>2. /\ q.asked = Recorded(disk)
      /\ \A i \in 1..Len(Users) :
           i < q.next /\ Users[i] \in q.asked => disk.holds[Users[i]] \in q.occupied
  BY <1>1 DEF KnowsRecord
<1>3. host \notin q.occupied
  BY DEF Available
<1>4. ASSUME NEW v \in Recorded(disk) PROVE disk.holds[v] # host
  <2>1. v \in Name
    BY InventoryAssumption DEF Typed, RecordTyped, Recorded, Extensions
  <2>2. PICK i \in 1..Len(Users) : Users[i] = v
    BY <2>1, InventoryAssumption DEF Name, Range
  <2>3. i < q.next
    BY <1>1, InventoryAssumption DEF Scannings
  <2> QED BY <1>2, <1>3, <2>2, <2>3
<1> QED BY <1>4 DEF Unheld

LEMMA CreateBeginsKnow ==
  ASSUME Typed, MemoryFollowsRecord, NEW r \in Requests, NEW u \in Name,
         NEW host \in Hosts \cup {None}, CreateBegins(r, u, host)
  PROVE  KnowsRecord(request'[r], disk')
<1> DEFINE first  == [at |-> "create_user", user |-> u, host |-> None, groups |-> <<"Employees">>]
           second == [at |-> "scan", to |-> "create_user", user |-> u, host |-> host,
                      asked |-> Known, next |-> 1, occupied |-> {}]
<1>1. request'[r] \in {first, second} /\ UNCHANGED disk /\ u \notin Recorded(disk)
      /\ Known = Recorded(disk)
  BY GoesResult, MemoryTells DEF CreateBegins, Typed
<1>2. KnowsRecord(first, disk)
  BY <1>1 DEF KnowsRecord
<1>3. KnowsRecord(second, disk)
  BY <1>1 DEF KnowsRecord
<1> QED BY <1>1, <1>2, <1>3

LEMMA CreateChoosesKnow ==
  ASSUME Typed, NEW r \in Requests, CreateChooses(r), KnowsRecord(request[r], disk)
  PROVE  KnowsRecord(request'[r], disk')
<1> DEFINE q == request[r]
           to == [at |-> "create_user", user |-> q.user, host |-> q.host,
                  groups |-> <<"Employees", FloorOf(q.host)>>]
<1>1. q.at = "scan" /\ q.to = "create_user" /\ Scanned(r) /\ UNCHANGED disk
  BY DEF CreateChooses, Scanned, At
<1>2. request'[r] = Idle \/ (request'[r] = to /\ q.host \in Available(r))
  BY GoesResult DEF CreateChooses, Typed
<1>3. q.user \notin Recorded(disk)
  BY <1>1 DEF KnowsRecord
<1>4. ASSUME q.host \in Available(r) PROVE KnowsRecord(to, disk)
  <2>1. Unheld(q.host, disk)
    BY <1>1, <1>4, AvailableUnheld
  <2> QED BY <1>3, <2>1 DEF KnowsRecord
<1> QED BY <1>1, <1>2, <1>4, IdleKnows

\* The places of a creation know the same.
LEMMA CreationKnows ==
  ASSUME NEW q \in Creations, NEW p \in Creations, p.user = q.user, p.host = q.host,
         NEW d, KnowsRecord(q, d)
  PROVE  KnowsRecord(p, d)
<1>1. p.at \in {"create_user", "join", "rollback"} /\ q.at \in {"create_user", "join", "rollback"}
  BY DEF Creations
<1> QED BY <1>1 DEF KnowsRecord

LEMMA CreatesUserKnow ==
  ASSUME Typed, NEW r \in Requests, CreatesUser(r), KnowsRecord(request[r], disk)
  PROVE  KnowsRecord(request'[r], disk')
<1> DEFINE to == [request[r] EXCEPT !.at = "join"]
<1>1. request[r] \in Creations /\ UNCHANGED disk
  BY PlaceTellsShape DEF Typed, RequestsTyped, CreatesUser, At
<1>2. request'[r] \in {Idle, to}
  BY GoesResult, CommandResult DEF CreatesUser, Typed
<1>3. to \in Creations /\ to.user = request[r].user /\ to.host = request[r].host
  BY <1>1 DEF Creations
<1> QED BY <1>1, <1>2, <1>3, CreationKnows, IdleKnows

LEMMA JoinsGroupKnow ==
  ASSUME Typed, NEW r \in Requests, JoinsGroup(r), KnowsRecord(request[r], disk)
  PROVE  KnowsRecord(request'[r], disk')
<1> DEFINE next == [request[r] EXCEPT !.groups = Tail(@)]
           failed == [request[r] EXCEPT !.at = "rollback"]
<1>1. request[r] \in Creations /\ UNCHANGED disk /\ request[r].groups # <<>>
  BY PlaceTellsShape DEF Typed, RequestsTyped, JoinsGroup, At
<1>2. request'[r] \in {next, failed}
  BY CommandResult DEF JoinsGroup, Typed
<1>3. Tail(request[r].groups) \in Seq(Groups)
  BY <1>1, HeadTailProperties DEF Creations
<1>4. /\ next \in Creations /\ next.user = request[r].user /\ next.host = request[r].host
      /\ failed \in Creations /\ failed.user = request[r].user /\ failed.host = request[r].host
  BY <1>1, <1>3 DEF Creations
<1> QED BY <1>1, <1>2, <1>4, CreationKnows

LEMMA SaveResult ==
  ASSUME RequestsTyped, NEW r \in Requests, NEW ext, NEW failed, Save(r, ext, failed)
  PROVE  \/ disk' = ext /\ request'[r] = Idle
         \/ UNCHANGED disk /\ request'[r] = failed
BY GoesResult DEF Save

LEMMA CreateSavesKnow ==
  ASSUME Typed, NEW r \in Requests, CreateSaves(r), KnowsRecord(request[r], disk)
  PROVE  KnowsRecord(request'[r], disk')
<1> DEFINE failed == [request[r] EXCEPT !.at = "rollback"]
<1>1. request[r] \in Creations
  BY PlaceTellsShape DEF Typed, RequestsTyped, CreateSaves, At
<1>2. request'[r] = Idle \/ (UNCHANGED disk /\ request'[r] = failed)
  BY SaveResult DEF CreateSaves, Typed
<1>3. failed \in Creations /\ failed.user = request[r].user /\ failed.host = request[r].host
  BY <1>1 DEF Creations
<1> QED BY <1>1, <1>2, <1>3, CreationKnows, IdleKnows

LEMMA LooksUpKnow ==
  ASSUME Typed, MemoryFollowsRecord, NEW r \in Requests, NEW u, NEW purpose, NEW host,
         LooksUp(r, u, purpose, host)
  PROVE  KnowsRecord(request'[r], disk')
<1> DEFINE to == [at |-> "look", purpose |-> purpose, user |-> u, host |-> host,
                  held |-> accounts.holds[u]]
<1>1. request'[r] = to /\ UNCHANGED disk
  BY GoesResult DEF LooksUp, Typed
<1>2. KnowsRecord(to, disk)
  BY MemoryTells DEF KnowsRecord, LooksUp
<1> QED BY <1>1, <1>2

LEMMA LooksAtKnow ==
  ASSUME Typed, MemoryFollowsRecord, NEW r \in Requests, LooksAt(r), KnowsRecord(request[r], disk)
  PROVE  KnowsRecord(request'[r], disk')
<1> DEFINE q == request[r]
           u == q.user
<1>1. q \in Lookups /\ q.at = "look" /\ UNCHANGED disk
  BY PlaceTellsShape DEF Typed, RequestsTyped, LooksAt, At
<1>2. request'[r] = Idle \/ (request'[r] = Continues(r) /\ Allowed(r))
  BY GoesResult, ReadsResult DEF LooksAt, Typed
<1>3. u \in Recorded(disk) /\ q.held = disk.holds[u] /\ Known = Recorded(disk)
  BY <1>1, MemoryTells DEF KnowsRecord
<1>4. ASSUME q.purpose = "assign", Allowed(r) PROVE KnowsRecord(Continues(r), disk)
  <2> DEFINE to == [at |-> "scan", to |-> "groups", user |-> u, host |-> q.host,
                    asked |-> Known, next |-> 1, occupied |-> {}]
  <2>1. Continues(r) = to /\ disk.holds[u] = None
    BY <1>3, <1>4 DEF Continues, Allowed
  <2>2. KnowsRecord(to, disk)
    BY <1>3, <2>1 DEF KnowsRecord
  <2> QED BY <2>1, <2>2
<1>5. ASSUME q.purpose = "unassign", Allowed(r) PROVE KnowsRecord(Continues(r), disk)
  <2> DEFINE to == [at |-> "groups", user |-> u, group |-> None, ext |-> ReleasedFrom(disk, u)]
  <2>1. Continues(r) = to /\ disk.holds[u] # None
    BY <1>3, <1>5 DEF Continues, Allowed, Released, ReleasedFrom
  <2>2. KnowsAssignment(to, disk)
    BY <1>3, <2>1 DEF KnowsAssignment
  <2>3. KnowsRecord(to, disk)
    BY <2>2 DEF KnowsRecord
  <2> QED BY <2>1, <2>3
<1>6. ASSUME q.purpose = "delete" PROVE KnowsRecord(Continues(r), disk)
  <2> DEFINE to == [at |-> "erase", user |-> u]
  <2>1. Continues(r) = to
    BY <1>6 DEF Continues
  <2>2. KnowsRecord(to, disk)
    BY <1>3 DEF KnowsRecord
  <2> QED BY <2>1, <2>2
<1>7. q.purpose \in {"assign", "unassign", "delete"}
  BY <1>1 DEF Lookups
<1> QED BY <1>1, <1>2, <1>4, <1>5, <1>6, <1>7, IdleKnows

LEMMA AssignChoosesKnow ==
  ASSUME Typed, NEW r \in Requests, AssignChooses(r), KnowsRecord(request[r], disk)
  PROVE  KnowsRecord(request'[r], disk')
<1> DEFINE q == request[r]
           to == [at |-> "groups", user |-> q.user, group |-> FloorOf(q.host), host |-> q.host]
<1>1. q.at = "scan" /\ q.to = "groups" /\ Scanned(r) /\ UNCHANGED disk
  BY DEF AssignChooses, Scanned, At
<1>2. request'[r] = Idle \/ (request'[r] = to /\ q.host \in Available(r))
  BY GoesResult DEF AssignChooses, Typed
<1>3. q.user \in Recorded(disk) /\ disk.holds[q.user] = None
  BY <1>1 DEF KnowsRecord
<1>4. ASSUME q.host \in Available(r) PROVE KnowsRecord(to, disk)
  <2>1. Unheld(q.host, disk)
    BY <1>1, <1>4, AvailableUnheld
  <2>2. FloorOf(q.host) # None
    BY <1>4, CurrentTyped, InventoryAssumption DEF Available, Typed
  <2>3. KnowsAssignment(to, disk)
    BY <1>3, <2>1, <2>2 DEF KnowsAssignment
  <2> QED BY <2>3 DEF KnowsRecord
<1> QED BY <1>1, <1>2, <1>4, IdleKnows

LEMMA ReadsGroupsKnow ==
  ASSUME Typed, NEW r \in Requests, ReadsGroups(r), KnowsRecord(request[r], disk)
  PROVE  KnowsRecord(request'[r], disk')
<1> DEFINE q == request[r]
           had == directory.groups[q.user] \cap Floors
           to == [at |-> "move", request |-> q, since |-> changes,
                  leave |-> Plan(had, q.group).leave, join |-> Plan(had, q.group).join]
<1>1. q.at = "groups" /\ UNCHANGED disk
  BY DEF ReadsGroups, At
<1>2. Reads(r, to, Idle) \/ Goes(r, Idle)
  BY DEF ReadsGroups
<1>3. to.at = "move" /\ to.request = q
  OBVIOUS
<1> HIDE DEF to
<1>4. KnowsRecord(to, disk)
  BY <1>1, <1>3 DEF KnowsRecord
<1>5. request'[r] \in {Idle, to}
  BY <1>2, GoesResult, ReadsResult DEF Typed
<1> QED BY <1>1, <1>4, <1>5, IdleKnows

\* One group is left, or joined, and what is left to do is less by it.
Leaves(q, p, d, e, g) ==
  /\ e = [d EXCEPT !.groups[q.request.user] = d.groups[q.request.user] \ {g}]
  /\ p = [q EXCEPT !.leave = q.leave \ {g}]
Joins(q, p, d, e, g) ==
  /\ e = [d EXCEPT !.groups[q.request.user] = d.groups[q.request.user] \cup {g}]
  /\ p = [q EXCEPT !.join = {}]

LEMMA MovesGroupForm ==
  ASSUME Typed, NEW r \in Requests, MovesGroup(r)
  PROVE  LET q == request[r] IN
         \/ request'[r] = Idle
         \/ \E g \in q.leave : Leaves(q, request'[r], directory, directory', g)
         \/ q.leave = {} /\ \E g \in q.join : Joins(q, request'[r], directory, directory', g)
<1> DEFINE q == request[r]
           u == q.request.user
<1>1. RequestsTyped
  BY DEF Typed
<1>2. ASSUME NEW g \in q.leave,
             Command(r, [directory EXCEPT !.groups[u] = @ \ {g}],
                     [q EXCEPT !.leave = @ \ {g}], Idle)
      PROVE  request'[r] = Idle \/ Leaves(q, request'[r], directory, directory', g)
  <2> DEFINE effect == [directory EXCEPT !.groups[u] = @ \ {g}]
             next == [q EXCEPT !.leave = @ \ {g}]
  <2>1. Command(r, effect, next, Idle) /\ Leaves(q, next, directory, effect, g)
    BY <1>2 DEF Leaves
  <2> HIDE DEF effect, next
  <2> QED BY <1>1, <2>1, CommandResult
<1>3. ASSUME NEW g \in q.join,
             Command(r, [directory EXCEPT !.groups[u] = @ \cup {g}],
                     [q EXCEPT !.join = {}], Idle)
      PROVE  request'[r] = Idle \/ Joins(q, request'[r], directory, directory', g)
  <2> DEFINE effect == [directory EXCEPT !.groups[u] = @ \cup {g}]
             next == [q EXCEPT !.join = {}]
  <2>1. Command(r, effect, next, Idle) /\ Joins(q, next, directory, effect, g)
    BY <1>3 DEF Joins
  <2> HIDE DEF effect, next
  <2> QED BY <1>1, <2>1, CommandResult
<1> QED BY <1>2, <1>3 DEF MovesGroup

LEMMA MovesGroupResult ==
  ASSUME Typed, NEW r \in Requests, MovesGroup(r)
  PROVE  \/ request'[r] = Idle
         \/ /\ request'[r] \in Movings /\ request'[r].request = request[r].request
            /\ request'[r].since = request[r].since
<1> DEFINE q == request[r]
<1>1. q \in Movings
  BY PlaceTellsShape DEF Typed, RequestsTyped, MovesGroup, At
<1>2. ASSUME NEW g \in q.leave, request'[r] = [q EXCEPT !.leave = q.leave \ {g}]
      PROVE  /\ request'[r] \in Movings /\ request'[r].request = q.request
             /\ request'[r].since = q.since
  <2>1. (q.leave \ {g}) \in SUBSET Floors
    BY <1>1 DEF Movings
  <2> QED BY <1>1, <1>2, <2>1 DEF Movings
<1>3. ASSUME request'[r] = [q EXCEPT !.join = {}]
      PROVE  /\ request'[r] \in Movings /\ request'[r].request = q.request
             /\ request'[r].since = q.since
  BY <1>1, <1>3 DEF Movings
<1> QED BY <1>2, <1>3, MovesGroupForm DEF Leaves, Joins

LEMMA MovesGroupKnow ==
  ASSUME Typed, NEW r \in Requests, MovesGroup(r), KnowsRecord(request[r], disk)
  PROVE  KnowsRecord(request'[r], disk')
<1>1. request[r].at = "move" /\ UNCHANGED disk
  BY DEF MovesGroup, At
<1>2. KnowsAssignment(request[r].request, disk)
  BY <1>1 DEF KnowsRecord
<1>3. ASSUME request'[r] \in Movings, request'[r].request = request[r].request
      PROVE  KnowsRecord(request'[r], disk)
  <2>1. request'[r].at = "move"
    BY <1>3 DEF Movings
  <2> QED BY <1>2, <1>3, <2>1 DEF KnowsRecord
<1> QED BY <1>1, <1>3, MovesGroupResult, IdleKnows

LEMMA ErasesKnow ==
  ASSUME Typed, NEW r \in Requests, Erases(r), KnowsRecord(request[r], disk)
  PROVE  KnowsRecord(request'[r], disk')
<1> DEFINE to == [at |-> "forget", user |-> request[r].user]
<1>1. request[r].at = "erase" /\ UNCHANGED disk
  BY DEF Erases, At
<1>2. request'[r] \in {Idle, to}
  BY GoesResult, CommandResult DEF Erases, Typed
<1>3. KnowsRecord(to, disk)
  BY <1>1 DEF KnowsRecord
<1> QED BY <1>1, <1>2, <1>3, IdleKnows

-----------------------------------------------------------------------------
(* Where a step takes a request *)

LEMMA IdlePlace == Idle.at = "idle"
BY DEF Idle

LEMMA EmployeesReach ==
  ASSUME Typed, NEW r \in Requests
  PROVE  LET at == request'[r].at IN
         /\ \A u \in Name, host \in Hosts \cup {None} :
              CreateBegins(r, u, host) => at \in {"create_user", "scan"}
         /\ Scans(r) => at \in {"idle", "scan"}
         /\ CreateChooses(r) => at \in {"idle", "create_user"}
         /\ CreatesUser(r) => at \in {"idle", "join"}
         /\ JoinsGroup(r) => at \in {"join", "rollback"}
         /\ CreateSaves(r) => at \in {"idle", "rollback"}
         /\ \A u, purpose, host : LooksUp(r, u, purpose, host) => at = "look"
         /\ LooksAt(r) => at \in {"idle", "scan", "groups", "erase"}
         /\ AssignChooses(r) => at \in {"idle", "groups"}
         /\ ReadsGroups(r) \/ MovesGroup(r) => at \in {"idle", "move"}
         /\ Erases(r) => at \in {"idle", "forget"}
         /\ RollsBack(r) \/ AssignSaves(r) \/ UnassignSaves(r) \/ Forgets(r) \/ Retired(r)
              => at = "idle"
         /\ \A u \in Name : Retires(r, u) => at \in {"idle", "disable"}
         /\ DisablesRetired(r) => at \in {"idle", "retired"}
         /\ ReadsRetired(r) \/ LeavesGroup(r) => at \in {"idle", "leave"}
<1> DEFINE q == request[r]
           at == request'[r].at
<1>0. RequestsTyped /\ WellFormed(q)
  BY DEF Typed, RequestsTyped
<1>1. ASSUME NEW u \in Name, NEW host \in Hosts \cup {None}, CreateBegins(r, u, host)
      PROVE  at \in {"create_user", "scan"}
  BY <1>0, <1>1, GoesResult DEF CreateBegins
<1>2. ASSUME Scans(r) PROVE at \in {"idle", "scan"}
  <2> DEFINE further == [q EXCEPT !.next = @ + 1]
             held == [q EXCEPT !.next = @ + 1, !.occupied = @ \cup {accounts.holds[Users[q.next]]}]
  <2>1. q \in Scannings
    BY <1>0, <1>2, PlaceTellsShape DEF Scans, At
  <2>2. further.at = "scan" /\ held.at = "scan"
    BY <2>1 DEF Scannings
  <2>3. Goes(r, Idle) \/ Goes(r, further) \/ Reads(r, held, Idle)
    BY <1>2 DEF Scans
  <2> HIDE DEF further, held
  <2> QED BY <1>0, <2>2, <2>3, GoesResult, ReadsResult, IdlePlace
<1>3. ASSUME CreateChooses(r) PROVE at \in {"idle", "create_user"}
  BY <1>0, <1>3, GoesResult, IdlePlace DEF CreateChooses
<1>4. ASSUME CreatesUser(r) PROVE at \in {"idle", "join"}
  <2>1. q \in Creations
    BY <1>0, <1>4, PlaceTellsShape DEF CreatesUser, At
  <2>2. request'[r] \in {Idle, [q EXCEPT !.at = "join"]}
    BY <1>0, <1>4, GoesResult, CommandResult DEF CreatesUser
  <2> QED BY <2>1, <2>2, IdlePlace DEF Creations
<1>5. ASSUME JoinsGroup(r) PROVE at \in {"join", "rollback"}
  <2>1. q \in Creations /\ q.at = "join"
    BY <1>0, <1>5, PlaceTellsShape DEF JoinsGroup, At
  <2>2. request'[r] \in {[q EXCEPT !.groups = Tail(@)], [q EXCEPT !.at = "rollback"]}
    BY <1>0, <1>5, CommandResult DEF JoinsGroup
  <2> QED BY <2>1, <2>2 DEF Creations
<1>6. ASSUME CreateSaves(r) PROVE at \in {"idle", "rollback"}
  <2>1. q \in Creations
    BY <1>0, <1>6, PlaceTellsShape DEF CreateSaves, At
  <2>2. request'[r] \in {Idle, [q EXCEPT !.at = "rollback"]}
    BY <1>0, <1>6, SaveResult DEF CreateSaves
  <2> QED BY <2>1, <2>2, IdlePlace DEF Creations
<1>7. ASSUME NEW u, NEW purpose, NEW host, LooksUp(r, u, purpose, host) PROVE at = "look"
  BY <1>0, <1>7, GoesResult DEF LooksUp
<1>8. ASSUME LooksAt(r) PROVE at \in {"idle", "scan", "groups", "erase"}
  <2>1. request'[r] = Idle \/ request'[r] = Continues(r)
    BY <1>0, <1>8, GoesResult, ReadsResult DEF LooksAt
  <2>2. q \in Lookups
    BY <1>0, <1>8, PlaceTellsShape DEF LooksAt, At
  <2>3. Continues(r).at \in {"scan", "groups", "erase"}
    BY <2>2 DEF Continues, Lookups
  <2> QED BY <2>1, <2>3, IdlePlace
<1>9. ASSUME AssignChooses(r) PROVE at \in {"idle", "groups"}
  BY <1>0, <1>9, GoesResult, IdlePlace DEF AssignChooses
<1>10. ASSUME ReadsGroups(r) PROVE at \in {"idle", "move"}
  <2> DEFINE had == directory.groups[q.user] \cap Floors
             to == [at |-> "move", request |-> q, since |-> changes,
                    leave |-> Plan(had, q.group).leave, join |-> Plan(had, q.group).join]
  <2>1. Reads(r, to, Idle) \/ Goes(r, Idle)
    BY <1>10 DEF ReadsGroups
  <2>2. to.at = "move"
    OBVIOUS
  <2> HIDE DEF to
  <2> QED BY <1>0, <2>1, <2>2, GoesResult, ReadsResult, IdlePlace
<1>11. ASSUME MovesGroup(r) PROVE at \in {"idle", "move"}
  BY <1>11, MovesGroupResult, IdlePlace DEF Movings
<1>12. ASSUME Erases(r) PROVE at \in {"idle", "forget"}
  BY <1>0, <1>12, GoesResult, CommandResult, IdlePlace DEF Erases
<1>13. ASSUME RollsBack(r) \/ AssignSaves(r) \/ UnassignSaves(r) \/ Forgets(r) \/ Retired(r)
       PROVE  request'[r] = Idle
  BY <1>0, <1>13, GoesResult, CommandResult, SaveResult
     DEF RollsBack, AssignSaves, UnassignSaves, Forgets, Retired
<1>14. ASSUME NEW u \in Name, Retires(r, u) PROVE at \in {"idle", "disable"}
  BY <1>0, <1>14, CommandResult, IdlePlace DEF Retires
<1>15. ASSUME DisablesRetired(r) PROVE at \in {"idle", "retired"}
  <2>1. q \in Retirings
    BY <1>0, <1>15, PlaceTellsShape DEF DisablesRetired, At
  <2>2. request'[r] \in {Idle, [q EXCEPT !.at = "retired"]}
    BY <1>0, <1>15, GoesResult, CommandResult DEF DisablesRetired
  <2> QED BY <2>1, <2>2, IdlePlace DEF Retirings
<1>16. ASSUME ReadsRetired(r) PROVE at \in {"idle", "leave"}
  BY <1>0, <1>16, GoesResult, ReadsResult, IdlePlace DEF ReadsRetired
<1>17. ASSUME LeavesGroup(r) PROVE at \in {"idle", "leave"}
  <2>1. q \in Leavings /\ q.at = "leave"
    BY <1>0, <1>17, PlaceTellsShape DEF LeavesGroup, At
  <2>2. request'[r] = Idle \/ \E g \in q.leave : request'[r] = [q EXCEPT !.leave = @ \ {g}]
    BY <1>0, <1>17, CommandResult DEF LeavesGroup
  <2> QED BY <2>1, <2>2, IdlePlace DEF Leavings
<1> HIDE DEF q, at
<1>18. /\ \A u \in Name, host \in Hosts \cup {None} :
            CreateBegins(r, u, host) => at \in {"create_user", "scan"}
       /\ \A u, purpose, host : LooksUp(r, u, purpose, host) => at = "look"
       /\ \A u \in Name : Retires(r, u) => at \in {"idle", "disable"}
  BY <1>1, <1>7, <1>14
<1>19. RollsBack(r) \/ AssignSaves(r) \/ UnassignSaves(r) \/ Forgets(r) \/ Retired(r) => at = "idle"
  BY <1>13, IdlePlace DEF at
<1> QED BY <1>2, <1>3, <1>4, <1>5, <1>6, <1>8, <1>9, <1>10, <1>11, <1>12, <1>15, <1>16, <1>17,
           <1>18, <1>19 DEF at

\* What the request of a step knows of the record when the step is done.
LEMMA EmployeesKnow ==
  ASSUME Typed, MemoryFollowsRecord, NEW r \in Requests, Employees(r),
         KnowsRecord(request[r], disk)
  PROVE  KnowsRecord(request'[r], disk')
<1>1. ASSUME NEW u \in Name, NEW host \in Hosts \cup {None}, CreateBegins(r, u, host)
      PROVE  KnowsRecord(request'[r], disk')
  BY <1>1, CreateBeginsKnow
<1>2. ASSUME NEW u, NEW purpose, NEW host, LooksUp(r, u, purpose, host)
      PROVE  KnowsRecord(request'[r], disk')
  BY <1>2, LooksUpKnow
<1>3. CASE \/ Scans(r) \/ CreateChooses(r) \/ CreatesUser(r) \/ JoinsGroup(r) \/ CreateSaves(r)
           \/ LooksAt(r) \/ AssignChooses(r) \/ ReadsGroups(r) \/ MovesGroup(r) \/ Erases(r)
  BY <1>3, ScansKnow, CreateChoosesKnow, CreatesUserKnow, JoinsGroupKnow, CreateSavesKnow,
     LooksAtKnow, AssignChoosesKnow, ReadsGroupsKnow, MovesGroupKnow, ErasesKnow
<1>4. ASSUME \/ RollsBack(r) \/ AssignSaves(r) \/ UnassignSaves(r) \/ Forgets(r) \/ Retired(r)
             \/ DisablesRetired(r) \/ ReadsRetired(r) \/ LeavesGroup(r)
             \/ \E u \in Name : Retires(r, u)
      PROVE  KnowsRecord(request'[r], disk')
  <2>1. request'[r].at \in {"idle", "disable", "retired", "leave"}
    BY <1>4, EmployeesReach
  <2> QED BY <2>1, NothingToKnow DEF Knowing
<1> QED BY <1>1, <1>2, <1>3, <1>4 DEF Employees

-----------------------------------------------------------------------------
(* What an offboarding knows of the directory *)

LEMMA NoAccountToKnow ==
  ASSUME NEW q, NEW d, q.at \notin {"disable", "retired", "leave"} PROVE KnowsAccount(q, d)
BY DEF KnowsAccount

LEMMA RetiresKnow ==
  ASSUME Typed, NEW r \in Requests, NEW u \in Name, Retires(r, u)
  PROVE  KnowsAccount(request'[r], directory')
<1> DEFINE effect == [directory EXCEPT !.groups[u] = @ \cup {"Former-Employees"}]
           to == [at |-> "disable", user |-> u, since |-> changes + 1]
<1>1. "Former-Employees" \in effect.groups[u]
  BY DEF Typed, DirectoryTyped
<1>2. to.at = "disable" /\ to.user = u
  OBVIOUS
<1>3. Command(r, effect, to, Idle) /\ RequestsTyped
  BY DEF Retires, Typed
<1> HIDE DEF effect, to
<1>4. KnowsAccount(to, effect)
  BY <1>1, <1>2 DEF KnowsAccount
<1> QED BY <1>3, <1>4, CommandResult, IdleKnows

LEMMA DisablesRetiredKnow ==
  ASSUME Typed, NEW r \in Requests, DisablesRetired(r), KnowsAccount(request[r], directory)
  PROVE  KnowsAccount(request'[r], directory')
<1> DEFINE q == request[r]
           effect == [directory EXCEPT !.enabled = @ \ {q.user}]
           to == [q EXCEPT !.at = "retired"]
<1>1. q \in Retirings /\ q.at = "disable"
  BY PlaceTellsShape DEF Typed, RequestsTyped, DisablesRetired, At
<1>2. effect.groups = directory.groups /\ q.user \notin effect.enabled
  BY DEF Typed, DirectoryTyped
<1>3. to.at = "retired" /\ to.user = q.user
  BY <1>1 DEF Retirings
<1>4. (Command(r, effect, to, Idle) \/ Goes(r, Idle)) /\ RequestsTyped
  BY DEF DisablesRetired, Typed
<1> HIDE DEF effect, to
<1>5. KnowsAccount(to, effect)
  BY <1>1, <1>2, <1>3 DEF KnowsAccount
<1> QED BY <1>4, <1>5, CommandResult, GoesResult, IdleKnows

LEMMA ReadsRetiredKnow ==
  ASSUME Typed, NEW r \in Requests, ReadsRetired(r), KnowsAccount(request[r], directory)
  PROVE  KnowsAccount(request'[r], directory')
<1> DEFINE q == request[r]
           to == [at |-> "leave", user |-> q.user, since |-> q.since,
                  leave |-> directory.groups[q.user] \ {"Former-Employees"}]
<1>1. /\ "Former-Employees" \in directory.groups[q.user]
      /\ q.user \notin directory.enabled
  BY DEF KnowsAccount, ReadsRetired, At
<1>2. to.at = "leave" /\ to.user = q.user /\ to.leave = directory.groups[q.user] \ {"Former-Employees"}
  OBVIOUS
<1>3. (Reads(r, to, Idle) \/ (Goes(r, Idle) /\ UNCHANGED directory)) /\ RequestsTyped
  BY DEF ReadsRetired, Typed
<1> HIDE DEF to
<1>4. KnowsAccount(to, directory)
  BY <1>1, <1>2 DEF KnowsAccount
<1>5. UNCHANGED directory /\ request'[r] \in {to, Idle}
  BY <1>3, ReadsResult, GoesResult
<1> QED BY <1>4, <1>5, IdleKnows

LEMMA LeavesGroupKnow ==
  ASSUME Typed, NEW r \in Requests, LeavesGroup(r), KnowsAccount(request[r], directory)
  PROVE  KnowsAccount(request'[r], directory')
<1> DEFINE q == request[r]
           u == q.user
<1>1. q \in Leavings /\ q.at = "leave" /\ RequestsTyped /\ DirectoryTyped
  BY PlaceTellsShape DEF Typed, RequestsTyped, LeavesGroup, At
<1>2. /\ u \notin directory.enabled /\ "Former-Employees" \notin q.leave
      /\ directory.groups[u] = q.leave \cup {"Former-Employees"}
  BY <1>1 DEF KnowsAccount
<1>3. PICK g \in q.leave : Command(r, [directory EXCEPT !.groups[u] = @ \ {g}],
                                   [q EXCEPT !.leave = @ \ {g}], Idle)
  BY DEF LeavesGroup
<1> DEFINE effect == [directory EXCEPT !.groups[u] = @ \ {g}]
           next == [q EXCEPT !.leave = @ \ {g}]
<1>4. /\ effect.enabled = directory.enabled
      /\ effect.groups[u] = directory.groups[u] \ {g}
  BY <1>1 DEF DirectoryTyped, Leavings
<1>5. next.at = "leave" /\ next.user = u /\ next.leave = q.leave \ {g}
  BY <1>1 DEF Leavings
<1>6. Command(r, effect, next, Idle)
  BY <1>3
<1> HIDE DEF effect, next
<1>7. effect.groups[u] = next.leave \cup {"Former-Employees"}
  BY <1>2, <1>4, <1>5
<1>8. KnowsAccount(next, effect)
  BY <1>2, <1>4, <1>5, <1>7 DEF KnowsAccount
<1> QED BY <1>1, <1>6, <1>8, CommandResult, IdleKnows

LEMMA AccountKnow ==
  ASSUME Typed, NEW r \in Requests, Devices(r) \/ Employees(r), KnowsAccount(request[r], directory)
  PROVE  KnowsAccount(request'[r], directory')
<1>1. CASE Devices(r)
  BY <1>1, DevicesKnow, NoAccountToKnow
<1>2. ASSUME \/ Scans(r) \/ CreateChooses(r) \/ CreatesUser(r) \/ JoinsGroup(r) \/ CreateSaves(r)
             \/ RollsBack(r) \/ LooksAt(r) \/ AssignChooses(r) \/ ReadsGroups(r) \/ MovesGroup(r)
             \/ AssignSaves(r) \/ UnassignSaves(r) \/ Erases(r) \/ Forgets(r) \/ Retired(r)
             \/ \E u \in Name, host \in Hosts \cup {None} : CreateBegins(r, u, host)
             \/ \E u, purpose, host : LooksUp(r, u, purpose, host)
      PROVE  KnowsAccount(request'[r], directory')
  <2>1. request'[r].at \in Knowing \cup {"idle"}
    BY <1>2, EmployeesReach DEF Knowing
  <2> QED BY <2>1, NoAccountToKnow DEF Knowing
<1>3. CASE \/ DisablesRetired(r) \/ ReadsRetired(r) \/ LeavesGroup(r)
           \/ \E u \in Name : Retires(r, u)
  BY <1>3, RetiresKnow, DisablesRetiredKnow, ReadsRetiredKnow, LeavesGroupKnow
<1> QED BY <1>1, <1>2, <1>3 DEF Employees
-----------------------------------------------------------------------------
(* What a request knows of the department *)

LEMMA ReadsGroupsDepartment ==
  ASSUME Typed, NEW r \in Requests, ReadsGroups(r)
  PROVE  /\ KnowsDepartment(request'[r], directory', changes) /\ changes' = changes
         /\ request'[r].at = "move" => request'[r].since = changes
<1> DEFINE q == request[r]
           had == directory.groups[q.user] \cap Floors
           to == [at |-> "move", request |-> q, since |-> changes,
                  leave |-> Plan(had, q.group).leave, join |-> Plan(had, q.group).join]
<1>1. Reads(r, to, Idle) \/ (Goes(r, Idle) /\ UNCHANGED directory)
  BY DEF ReadsGroups
<1>2. to.request = q /\ to.since = changes /\ to.leave = had \ {q.group}
      /\ to.join = {q.group} \ (had \cup {None})
  BY DEF Plan
<1>3. q \in Assignings \cup Unassignings /\ RequestsTyped /\ changes \in Nat /\ changes' = changes
  BY PlaceTellsShape DEF Typed, RequestsTyped, ReadsGroups, At
<1>4. None \notin had
  BY InventoryAssumption
<1> HIDE DEF to
<1>5. (had \ to.leave) \cup to.join = {q.group} \ {None}
  BY <1>2, <1>4
<1>6. KnowsDepartment(to, directory, changes)
  BY <1>2, <1>3, <1>5 DEF KnowsDepartment
<1>7. UNCHANGED directory /\ request'[r] \in {to, Idle}
  BY <1>1, <1>3, ReadsResult, GoesResult
<1> QED BY <1>2, <1>3, <1>6, <1>7, IdleKnows, IdlePlace

LEMMA MovesGroupDepartment ==
  ASSUME Typed, NEW r \in Requests, NEW c, MovesGroup(r), KnowsDepartment(request[r], directory, c)
  PROVE  /\ KnowsDepartment(request'[r], directory', c) /\ changes' = changes
         /\ request'[r].at = "move" => request'[r].since = request[r].since
<1> DEFINE q == request[r]
           p == request'[r]
           u == q.request.user
           left == (directory.groups[u] \cap Floors) \ q.leave
<1>1. q \in Movings /\ q.at = "move" /\ q.join \subseteq {q.request.group} /\ u \in Name
  BY PlaceTellsShape, AssignmentForm DEF Typed, RequestsTyped, MovesGroup, At, Movings
<1>2. DirectoryTyped /\ changes' = changes
  BY DEF Typed, MovesGroup
<1>3. /\ q.since \leq c
      /\ q.since = c => left \cup q.join = {q.request.group} \ {None}
  BY <1>1 DEF KnowsDepartment
<1>4. ASSUME NEW g \in q.leave, Leaves(q, p, directory, directory', g)
      PROVE  KnowsDepartment(p, directory', c) /\ p.since = q.since
  <2>1. directory'.groups[u] = directory.groups[u] \ {g}
    BY <1>1, <1>2, <1>4 DEF Leaves, DirectoryTyped
  <2>2. /\ p.at = "move" /\ p.request = q.request /\ p.since = q.since
        /\ p.join = q.join /\ p.leave = q.leave \ {g}
    BY <1>1, <1>4 DEF Leaves, Movings
  <2>3. (directory'.groups[u] \cap Floors) \ p.leave = left
    BY <2>1, <2>2
  <2> HIDE DEF p, left
  <2> QED BY <1>3, <2>2, <2>3 DEF KnowsDepartment
<1>5. ASSUME NEW g \in q.join, Joins(q, p, directory, directory', g), q.leave = {}
      PROVE  KnowsDepartment(p, directory', c) /\ p.since = q.since
  <2>1. directory'.groups[u] = directory.groups[u] \cup {g}
    BY <1>1, <1>2, <1>5 DEF Joins, DirectoryTyped
  <2>2. /\ p.at = "move" /\ p.request = q.request /\ p.since = q.since
        /\ p.join = {} /\ p.leave = q.leave
    BY <1>1, <1>5 DEF Joins, Movings
  <2>3. q.join = {g} /\ g \in Floors
    BY <1>1 DEF Movings
  <2>4. ((directory'.groups[u] \cap Floors) \ p.leave) \cup p.join = left \cup q.join
    BY <1>5, <2>1, <2>2, <2>3
  <2> HIDE DEF p, left
  <2> QED BY <1>3, <2>2, <2>4 DEF KnowsDepartment
<1>6. p = Idle => KnowsDepartment(p, directory', c) /\ p.at # "move"
  BY IdleKnows, IdlePlace
<1>7. \/ p = Idle
      \/ \E g \in q.leave : Leaves(q, p, directory, directory', g)
      \/ q.leave = {} /\ \E g \in q.join : Joins(q, p, directory, directory', g)
  BY MovesGroupForm
<1> QED BY <1>2, <1>4, <1>5, <1>6, <1>7

LEMMA LeavesDepartment ==
  ASSUME Typed, NEW r \in Requests, Devices(r) \/ Employees(r), ~(ReadsGroups(r) \/ MovesGroup(r))
  PROVE  request'[r].at # "move"
<1>1. CASE Devices(r)
  BY <1>1, DevicesKnow DEF Knowing
<1>2. CASE Employees(r)
  BY <1>2, EmployeesReach DEF Employees
<1> QED BY <1>1, <1>2

LEMMA ActorDepartment ==
  ASSUME Typed, NEW r \in Requests, Devices(r) \/ Employees(r),
         KnowsDepartment(request[r], directory, changes)
  PROVE  KnowsDepartment(request'[r], directory', changes')
<1>1. CASE ReadsGroups(r) \/ MovesGroup(r)
  BY <1>1, ReadsGroupsDepartment, MovesGroupDepartment
<1>2. CASE ~(ReadsGroups(r) \/ MovesGroup(r))
  BY <1>2, LeavesDepartment DEF KnowsDepartment
<1> QED BY <1>1, <1>2

LEMMA QuietDepartment ==
  ASSUME Typed, NEW r \in Requests, Devices(r) \/ Employees(r),
         KnowsDepartment(request[r], directory, request[r].since)
  PROVE  KnowsDepartment(request'[r], directory', request'[r].since)
<1>1. ASSUME request'[r].at # "move"
      PROVE  KnowsDepartment(request'[r], directory', request'[r].since)
  BY <1>1 DEF KnowsDepartment
<1>2. CASE ReadsGroups(r)
  BY <1>1, <1>2, ReadsGroupsDepartment
<1>3. CASE MovesGroup(r)
  BY <1>1, <1>3, MovesGroupDepartment
<1> QED BY <1>1, <1>2, <1>3, LeavesDepartment

-----------------------------------------------------------------------------
(* Requests that nobody disturbs *)

\* A step belongs to one request, to nobody, or to the restart that ends them all.
LEMMA StepActs ==
  ASSUME Typed, Step
  PROVE  \/ \E r \in Requests : /\ Devices(r) \/ Employees(r)
                                /\ \A s \in Requests \ {r} : request'[s] = request[s]
         \/ UNCHANGED <<request, disk, inventory, accounts>>
         \/ UNCHANGED disk /\ \A r \in Requests : request'[r] = Idle
<1>1. ASSUME NEW r \in Requests, Devices(r) \/ Employees(r)
      PROVE  \A s \in Requests \ {r} : request'[s] = request[s]
  <2>1. UNCHANGED request \/ \E to : Goes(r, to)
    <3>1. CASE Devices(r)
      BY <3>1 DEF Devices, ApplyBegins, RemoveBegins, ShowsComputer, CreatesComputer, Destroys,
                  Deploys, DeletesComputer, Records, Moves, Reads, Command
    <3>2. CASE \/ \E u \in Name, host \in Hosts \cup {None} : CreateBegins(r, u, host)
               \/ \E u, purpose, host : LooksUp(r, u, purpose, host)
               \/ CreateChooses(r) \/ AssignChooses(r) \/ Forgets(r) \/ Retired(r)
      BY <3>2 DEF CreateBegins, LooksUp, CreateChooses, AssignChooses, Forgets, Retired
    <3>3. CASE CreateSaves(r) \/ AssignSaves(r) \/ UnassignSaves(r)
      BY <3>3 DEF CreateSaves, AssignSaves, UnassignSaves, Save
    <3>4. CASE \/ CreatesUser(r) \/ JoinsGroup(r) \/ RollsBack(r) \/ MovesGroup(r) \/ Erases(r)
               \/ (\E u \in Name : Retires(r, u)) \/ DisablesRetired(r) \/ LeavesGroup(r)
      BY <3>4 DEF CreatesUser, JoinsGroup, RollsBack, MovesGroup, Erases, Retires,
                  DisablesRetired, LeavesGroup, Command
    <3>5. CASE Scans(r) \/ LooksAt(r) \/ ReadsGroups(r) \/ ReadsRetired(r)
      BY <3>5 DEF Scans, LooksAt, ReadsGroups, ReadsRetired, Reads, Command
    <3> QED BY <1>1, <3>1, <3>2, <3>3, <3>4, <3>5 DEF Employees
  <2> QED BY <2>1 DEF Goes, Typed, RequestsTyped
<1>2. ASSUME NEW id \in Drafts, NEW host \in DynamicHosts, NEW floor \in Floors,
             Draft(id, host, floor)
      PROVE  UNCHANGED <<request, disk, inventory, accounts>>
  BY <1>2 DEF Draft
<1>3. ASSUME NEW u \in Name, UserAction(u) \/ \E g \in Floors : MembershipAction(u, g)
      PROVE  UNCHANGED <<request, disk, inventory, accounts>>
  BY <1>3 DEF UserAction, MembershipAction, memory
<1>4. ASSUME Restart PROVE UNCHANGED disk /\ \A r \in Requests : request'[r] = Idle
  BY <1>4 DEF Restart
<1> QED BY <1>1, <1>2, <1>3, <1>4 DEF Step

LEMMA QuietNext ==
  ASSUME Typed, MemoryFollowsRecord, QuietInv, Next
  PROVE  QuietTyped' /\ QuietInv'
<1>1. QuietTyped'
  BY DEF Next, QuietTyped
<1>2. ASSUME NEW r \in quiet'
      PROVE  /\ KnowsRecord(request'[r], disk') /\ KnowsAccount(request'[r], directory')
             /\ KnowsDepartment(request'[r], directory', request'[r].since)
  <2>1. /\ r \in Requests /\ request'[r] # Idle
        /\ request[r] = Idle \/ r \in quiet
        /\ request'[r] # request[r] \/ UNCHANGED <<disk, inventory, accounts, directory>>
    BY <1>2 DEF Next
  <2>2. /\ KnowsRecord(request[r], disk) /\ KnowsAccount(request[r], directory)
        /\ KnowsDepartment(request[r], directory, request[r].since)
    BY <2>1, IdleKnows DEF QuietInv
  <2>3. CASE request'[r] = request[r]
    BY <2>1, <2>2, <2>3
  <2>4. CASE request'[r] # request[r]
    <3>1. Devices(r) \/ Employees(r)
      BY <2>1, <2>4, StepActs DEF Next
    <3>2. KnowsRecord(request'[r], disk')
      BY <2>1, <2>2, <3>1, DevicesKnow, EmployeesKnow, NothingToKnow
    <3>3. KnowsAccount(request'[r], directory')
      BY <2>1, <2>2, <3>1, AccountKnow
    <3>4. KnowsDepartment(request'[r], directory', request'[r].since)
      BY <2>1, <2>2, <3>1, QuietDepartment
    <3> QED BY <3>2, <3>3, <3>4
  <2> QED BY <2>3, <2>4
<1> QED BY <1>1, <1>2 DEF QuietInv

-----------------------------------------------------------------------------
(* What is saved *)

\* AssignmentsAgree, of a record d.
Agrees(d) ==
  /\ \A u \in Recorded(d), h \in Hosts : d.holds[u] = h <=> d.assigned[h] = u
  /\ \A h \in Hosts : d.assigned[h] \in Recorded(d) \cup d.deleted \cup {None}

LEMMA AgreesOfRecord ==
  ASSUME Typed, MemoryFollowsRecord PROVE AssignmentsAgree <=> Agrees(disk)
<1>1. Range(disk.assigned) = {disk.assigned[h] : h \in Hosts}
  BY DEF Typed, RecordTyped, Extensions, Placements, Range
<1> QED BY <1>1, MemoryTells DEF AssignmentsAgree, Agrees

LEMMA AgreementKept ==
  ASSUME Typed, MemoryFollowsRecord, Typed', MemoryFollowsRecord', AssignmentsAgree,
         Agrees(disk) => Agrees(disk')
  PROVE  AssignmentsAgree'
<1>1. Agrees(disk')
  BY AgreesOfRecord
<1>2. Range(disk'.assigned) = {disk'.assigned[h] : h \in Hosts}
  BY DEF Typed, RecordTyped, Extensions, Placements, Range
<1>3. Known' = Recorded(disk') /\ accounts'.deleted = disk'.deleted
  BY DEF MemoryFollowsRecord, Known, Recorded, AccountsOf
<1> QED BY <1>1, <1>2, <1>3 DEF AssignmentsAgree, Agrees

Created(d, e, u, host) ==
  /\ u \in Name /\ host \in Hosts \cup {None}
  /\ u \notin Recorded(d) /\ (host # None => Unheld(host, d))
  /\ e = [d EXCEPT !.users = d.users \cup {u}, !.holds[u] = host,
                   !.assigned = IF host = None THEN d.assigned ELSE [d.assigned EXCEPT ![host] = u]]
Assigned(d, e, u, host) ==
  /\ u \in Name /\ host \in Hosts
  /\ u \in Recorded(d) /\ d.holds[u] = None /\ Unheld(host, d)
  /\ e = [d EXCEPT !.assigned[host] = u, !.holds[u] = host]
Unassigned(d, e, u) ==
  /\ u \in Name
  /\ u \in Recorded(d) /\ d.holds[u] # None
  /\ e = ReleasedFrom(d, u)
Deleted(d, e, u) ==
  /\ u \in Name
  /\ u \in Recorded(d)
  /\ e = [d EXCEPT !.users = d.users \ {u}, !.holds[u] = HeldBy(u), !.deleted = d.deleted \cup {u}]

\* The entries that are saved then.
CreatedFields(d, e, u, host) ==
  /\ e \in Extensions
  /\ e.users = d.users \cup {u} /\ e.deleted = d.deleted /\ e.devices = d.devices
  /\ e.holds = [d.holds EXCEPT ![u] = host]
  /\ e.assigned = IF host = None THEN d.assigned ELSE [d.assigned EXCEPT ![host] = u]
AssignedFields(d, e, u, host) ==
  /\ e \in Extensions
  /\ e.users = d.users /\ e.deleted = d.deleted /\ e.devices = d.devices
  /\ e.holds = [d.holds EXCEPT ![u] = host]
  /\ e.assigned = [d.assigned EXCEPT ![host] = u]
UnassignedFields(d, e, u) ==
  /\ e \in Extensions /\ d.holds[u] \in Hosts
  /\ e.users = d.users /\ e.deleted = d.deleted /\ e.devices = d.devices
  /\ e.holds = [d.holds EXCEPT ![u] = None]
  /\ e.assigned = [d.assigned EXCEPT ![d.holds[u]] = None]
DeletedFields(d, e, u) ==
  /\ e \in Extensions
  /\ e.users = d.users \ {u} /\ e.deleted = d.deleted \cup {u} /\ e.devices = d.devices
  /\ e.holds = [d.holds EXCEPT ![u] = HeldBy(u)]
  /\ e.assigned = d.assigned

LEMMA CreatedForm ==
  ASSUME NEW d \in Extensions, NEW e, NEW u, NEW host, Created(d, e, u, host)
  PROVE  CreatedFields(d, e, u, host)
<1>1. (d.users \cup {u}) \in SUBSET Name /\ [d.holds EXCEPT ![u] = host] \in Holdings
  BY DEF Extensions, Holdings, Created
<1>2. (IF host = None THEN d.assigned ELSE [d.assigned EXCEPT ![host] = u]) \in Placements
  BY DEF Extensions, Placements, Created
<1>3. e \in Extensions
  BY <1>1, <1>2 DEF Extensions, Created
<1> QED BY <1>1, <1>2, <1>3 DEF Extensions, Created, CreatedFields

LEMMA AssignedForm ==
  ASSUME NEW d \in Extensions, NEW e, NEW u, NEW host, Assigned(d, e, u, host)
  PROVE  AssignedFields(d, e, u, host)
<1>1. [d.holds EXCEPT ![u] = host] \in Holdings /\ [d.assigned EXCEPT ![host] = u] \in Placements
  BY DEF Extensions, Holdings, Placements, Assigned
<1> QED BY <1>1 DEF Extensions, Assigned, AssignedFields

LEMMA UnassignedForm ==
  ASSUME NEW d \in Extensions, NEW e, NEW u, Unassigned(d, e, u)
  PROVE  UnassignedFields(d, e, u)
<1>1. d.holds[u] \in Hosts
  BY DEF Extensions, Holdings, Unassigned
<1>2. e = [d EXCEPT !.assigned[d.holds[u]] = None, !.holds[u] = None] /\ u \in Name
  BY DEF Unassigned, ReleasedFrom
<1>3. /\ e \in Extensions
      /\ e.devices = d.devices /\ e.users = d.users /\ e.deleted = d.deleted
      /\ e.assigned = [d.assigned EXCEPT ![d.holds[u]] = None]
      /\ e.holds = [d.holds EXCEPT ![u] = None]
  BY <1>1, <1>2 DEF Extensions, Placements, Holdings
<1> QED BY <1>1, <1>3 DEF UnassignedFields

LEMMA DeletedForm ==
  ASSUME NEW d \in Extensions, NEW e, NEW u, Deleted(d, e, u)
  PROVE  DeletedFields(d, e, u)
<1>1. [d.holds EXCEPT ![u] = HeldBy(u)] \in Holdings /\ (d.deleted \cup {u}) \in SUBSET Name
      /\ (d.users \ {u}) \in SUBSET Name
  BY HeldByTyped DEF Extensions, Holdings, Deleted
<1> QED BY <1>1 DEF Extensions, Deleted, DeletedFields

LEMMA RecordedNames == ASSUME NEW d \in Extensions PROVE Recorded(d) \subseteq Name
BY InventoryAssumption DEF Extensions, Recorded

LEMMA CreatedAgrees ==
  ASSUME NEW d \in Extensions, Agrees(d), NEW e, NEW u, NEW host, Created(d, e, u, host)
  PROVE  Agrees(e)
<1>1. /\ e.users = d.users \cup {u} /\ e.deleted = d.deleted
      /\ e.holds = [d.holds EXCEPT ![u] = host]
      /\ e.assigned = IF host = None THEN d.assigned ELSE [d.assigned EXCEPT ![host] = u]
  <2>1. CreatedFields(d, e, u, host)
    BY CreatedForm
  <2> QED BY <2>1 DEF CreatedFields
<1>2. /\ u \in Name /\ u # None /\ u \notin Recorded(d) /\ host \in Hosts \cup {None}
      /\ host # None => Unheld(host, d)
      /\ d.holds \in Holdings /\ d.assigned \in Placements /\ None \notin Hosts
  BY InventoryAssumption DEF Created, Extensions
<1>3. Recorded(e) \subseteq Recorded(d) \cup {u} /\ Recorded(d) \subseteq Recorded(e)
      /\ (u \in Recorded(e) => u \notin d.deleted)
  BY <1>1, <1>2 DEF Recorded
<1>4. ASSUME NEW v \in Recorded(e), NEW h \in Hosts PROVE e.holds[v] = h <=> e.assigned[h] = v
  <2>1. v \in Name
    BY <1>2, <1>3, RecordedNames
  <2>2. CASE v = u
    <3>1. d.assigned[h] # u
      BY <1>2, <1>3, <2>2 DEF Agrees
    <3> QED BY <1>1, <1>2, <2>2, <3>1 DEF Holdings, Placements
  <2>3. CASE v # u
    <3>1. v \in Recorded(d) /\ (d.holds[v] = h <=> d.assigned[h] = v)
      BY <1>3, <2>3 DEF Agrees
    <3>2. e.holds[v] = d.holds[v]
      BY <1>1, <1>2, <2>1, <2>3 DEF Holdings
    <3>3. CASE h = host
      BY <1>1, <1>2, <2>3, <3>1, <3>2, <3>3 DEF Placements, Unheld
    <3>4. CASE h # host
      BY <1>1, <1>2, <3>1, <3>2, <3>4 DEF Placements
    <3> QED BY <3>3, <3>4
  <2> QED BY <2>2, <2>3
<1>5. ASSUME NEW h \in Hosts PROVE e.assigned[h] \in Recorded(e) \cup e.deleted \cup {None}
  <2>1. d.assigned[h] \in Recorded(d) \cup d.deleted \cup {None}
    BY DEF Agrees
  <2>2. u \in Recorded(e) \cup e.deleted
    BY <1>1 DEF Recorded
  <2>3. e.assigned[h] \in {d.assigned[h], u}
    BY <1>1, <1>2 DEF Placements
  <2> QED BY <1>1, <1>3, <2>1, <2>2, <2>3
<1> QED BY <1>4, <1>5 DEF Agrees

LEMMA AssignedAgrees ==
  ASSUME NEW d \in Extensions, Agrees(d), NEW e, NEW u, NEW host, Assigned(d, e, u, host)
  PROVE  Agrees(e)
<1>1. /\ e.users = d.users /\ e.deleted = d.deleted
      /\ e.holds = [d.holds EXCEPT ![u] = host]
      /\ e.assigned = [d.assigned EXCEPT ![host] = u]
  <2>1. AssignedFields(d, e, u, host)
    BY AssignedForm
  <2> QED BY <2>1 DEF AssignedFields
<1>2. /\ u \in Name /\ u \in Recorded(d) /\ host \in Hosts /\ d.holds[u] = None /\ Unheld(host, d)
      /\ d.holds \in Holdings /\ d.assigned \in Placements /\ None \notin Hosts
  BY InventoryAssumption DEF Assigned, Extensions
<1>3. Recorded(e) = Recorded(d)
  BY <1>1 DEF Recorded
<1>4. ASSUME NEW v \in Recorded(e), NEW h \in Hosts PROVE e.holds[v] = h <=> e.assigned[h] = v
  <2>1. v \in Name /\ (d.holds[v] = h <=> d.assigned[h] = v)
    BY <1>3, RecordedNames DEF Agrees
  <2>2. CASE v = u
    BY <1>1, <1>2, <2>1, <2>2 DEF Holdings, Placements
  <2>3. CASE v # u
    <3>1. e.holds[v] = d.holds[v] /\ d.holds[v] # host
      BY <1>1, <1>2, <1>3, <2>1, <2>3 DEF Holdings, Unheld
    <3> QED BY <1>1, <1>2, <2>1, <2>3, <3>1 DEF Placements
  <2> QED BY <2>2, <2>3
<1>5. ASSUME NEW h \in Hosts PROVE e.assigned[h] \in Recorded(e) \cup e.deleted \cup {None}
  BY <1>1, <1>2, <1>3 DEF Agrees, Placements
<1> QED BY <1>4, <1>5 DEF Agrees

LEMMA UnassignedAgrees ==
  ASSUME NEW d \in Extensions, Agrees(d), NEW e, NEW u, Unassigned(d, e, u)
  PROVE  Agrees(e)
<1> DEFINE host == d.holds[u]
<1>1. /\ e.users = d.users /\ e.deleted = d.deleted /\ host \in Hosts
      /\ e.holds = [d.holds EXCEPT ![u] = None]
      /\ e.assigned = [d.assigned EXCEPT ![host] = None]
  <2>1. UnassignedFields(d, e, u)
    BY UnassignedForm
  <2> QED BY <2>1 DEF UnassignedFields
<1>2. /\ u \in Name /\ u \in Recorded(d)
      /\ d.holds \in Holdings /\ d.assigned \in Placements /\ None \notin Hosts \cup Name
  BY InventoryAssumption DEF Unassigned, Extensions
<1>3. Recorded(e) = Recorded(d) /\ d.assigned[host] = u
  BY <1>1, <1>2 DEF Recorded, Agrees
<1>4. ASSUME NEW v \in Recorded(e), NEW h \in Hosts PROVE e.holds[v] = h <=> e.assigned[h] = v
  <2>1. v \in Name /\ (d.holds[v] = h <=> d.assigned[h] = v)
    BY <1>3, RecordedNames DEF Agrees
  <2>2. CASE v = u
    BY <1>1, <1>2, <2>1, <2>2 DEF Holdings, Placements
  <2>3. CASE v # u
    <3>1. e.holds[v] = d.holds[v] /\ d.holds[v] # host
      BY <1>1, <1>2, <1>3, <2>1, <2>3 DEF Holdings, Agrees
    <3> QED BY <1>1, <1>2, <2>1, <2>3, <3>1 DEF Placements
  <2> QED BY <2>2, <2>3
<1>5. ASSUME NEW h \in Hosts PROVE e.assigned[h] \in Recorded(e) \cup e.deleted \cup {None}
  BY <1>1, <1>2, <1>3 DEF Agrees, Placements
<1> QED BY <1>4, <1>5 DEF Agrees

LEMMA DeletedAgrees ==
  ASSUME NEW d \in Extensions, Agrees(d), NEW e, NEW u, Deleted(d, e, u)
  PROVE  Agrees(e)
<1>1. /\ e.users = d.users \ {u} /\ e.deleted = d.deleted \cup {u}
      /\ e.holds = [d.holds EXCEPT ![u] = HeldBy(u)] /\ e.assigned = d.assigned
      /\ d.holds \in Holdings
  <2>1. DeletedFields(d, e, u)
    BY DeletedForm
  <2> QED BY <2>1 DEF DeletedFields, Extensions
<1>2. Recorded(e) = Recorded(d) \ {u}
  BY <1>1 DEF Recorded
<1>3. \A v \in Recorded(e) : e.holds[v] = d.holds[v]
  BY <1>1, <1>2, RecordedNames DEF Holdings
<1>4. \A v \in Recorded(e), h \in Hosts : e.holds[v] = h <=> e.assigned[h] = v
  BY <1>1, <1>2, <1>3 DEF Agrees
<1>5. \A h \in Hosts : e.assigned[h] \in Recorded(e) \cup e.deleted \cup {None}
  BY <1>1, <1>2 DEF Agrees
<1> QED BY <1>4, <1>5 DEF Agrees

SavedFor(d, e, u) ==
  \/ e = d
  \/ \E host : Created(d, e, u, host) \/ Assigned(d, e, u, host)
  \/ Unassigned(d, e, u) \/ Deleted(d, e, u)

LEMMA SavedAgrees ==
  ASSUME NEW d \in Extensions, Agrees(d), NEW e, NEW u, SavedFor(d, e, u)
  PROVE  Agrees(e)
BY CreatedAgrees, AssignedAgrees, UnassignedAgrees, DeletedAgrees DEF SavedFor

\* What is saved for a user changes the entries of that user and of the workstation that
\* the user had or gets.
OwnEntries(d, e, u) ==
  /\ \A v \in Name \ {u} : /\ e.holds[v] = d.holds[v]
                           /\ v \in e.users <=> v \in d.users
                           /\ v \in e.deleted <=> v \in d.deleted
  /\ \A h \in Hosts \ {d.holds[u], e.holds[u]} : e.assigned[h] = d.assigned[h]

LEMMA SavedIsItsOwn ==
  ASSUME NEW d \in Extensions, NEW e, NEW u, SavedFor(d, e, u)
  PROVE  OwnEntries(d, e, u)
<1>1. d.holds \in Holdings /\ d.assigned \in Placements
  BY DEF Extensions
<1>2. ASSUME NEW host, Created(d, e, u, host) PROVE OwnEntries(d, e, u)
  <2>1. CreatedFields(d, e, u, host) /\ u \in Name
    BY <1>2, CreatedForm DEF Created
  <2> QED BY <1>1, <2>1 DEF CreatedFields, OwnEntries, Holdings, Placements
<1>3. ASSUME NEW host, Assigned(d, e, u, host) PROVE OwnEntries(d, e, u)
  <2>1. AssignedFields(d, e, u, host) /\ u \in Name
    BY <1>3, AssignedForm DEF Assigned
  <2> QED BY <1>1, <2>1 DEF AssignedFields, OwnEntries, Holdings, Placements
<1>4. ASSUME Unassigned(d, e, u) PROVE OwnEntries(d, e, u)
  <2>1. UnassignedFields(d, e, u)
    BY <1>4, UnassignedForm
  <2> QED BY <1>1, <2>1 DEF UnassignedFields, OwnEntries, Holdings, Placements
<1>5. ASSUME Deleted(d, e, u) PROVE OwnEntries(d, e, u)
  <2>1. DeletedFields(d, e, u)
    BY <1>5, DeletedForm
  <2> QED BY <1>1, <2>1 DEF DeletedFields, OwnEntries, Holdings
<1>6. CASE e = d
  BY <1>6 DEF OwnEntries
<1> QED BY <1>2, <1>3, <1>4, <1>5, <1>6 DEF SavedFor

\* A request for employees saves for its own user, from what it knows of the record.
LEMMA CreateSavesFor ==
  ASSUME Typed, NEW r \in Requests, CreateSaves(r), KnowsRecord(request[r], disk)
  PROVE  SavedFor(disk, disk', Subject(request[r]).user)
<1> DEFINE q == request[r]
           u == q.user
           host == q.host
<1>1. q \in Creations /\ disk \in Extensions /\ q.at = "join"
  BY PlaceTellsShape DEF Typed, RequestsTyped, RecordTyped, CreateSaves, At
<1>2. Subject(q) = q /\ u \in Name /\ host \in Hosts \cup {None}
  BY <1>1 DEF Subject, Creations
<1>3. u \notin Recorded(disk) /\ (host # None => Unheld(host, disk))
  BY <1>1 DEF KnowsRecord
<1>4. \/ UNCHANGED disk
      \/ disk' = [disk EXCEPT !.users = disk.users \cup {u}, !.holds[u] = host,
                              !.assigned = IF host = None THEN disk.assigned
                                                          ELSE [disk.assigned EXCEPT ![host] = u]]
  BY DEF CreateSaves, Save
<1>5. UNCHANGED disk \/ Created(disk, disk', u, host)
  BY <1>2, <1>3, <1>4 DEF Created
<1> QED BY <1>2, <1>5 DEF SavedFor

LEMMA AssignSavesFor ==
  ASSUME Typed, NEW r \in Requests, AssignSaves(r) \/ UnassignSaves(r), KnowsRecord(request[r], disk)
  PROVE  SavedFor(disk, disk', Subject(request[r]).user)
<1> DEFINE q == request[r]
           p == q.request
<1>1. q \in Movings /\ p \in Assignings \cup Unassignings /\ q.at = "move"
  BY PlaceTellsShape DEF Typed, RequestsTyped, AssignSaves, UnassignSaves, Moved, At, Movings
<1>2. Subject(q) = p
  BY <1>1 DEF Subject, Movings
<1>3. KnowsAssignment(p, disk)
  BY <1>1 DEF KnowsRecord
<1>4. CASE AssignSaves(r)
  <2>1. p.group # None /\ p.user \in Name /\ p.host \in Hosts
    BY <1>1, <1>4, AssignmentForm DEF AssignSaves
  <2>2. \/ UNCHANGED disk
        \/ disk' = [disk EXCEPT !.assigned[p.host] = p.user, !.holds[p.user] = p.host]
    BY <1>4 DEF AssignSaves, Save
  <2>3. UNCHANGED disk \/ Assigned(disk, disk', p.user, p.host)
    BY <1>3, <2>1, <2>2 DEF Assigned, KnowsAssignment
  <2> QED BY <1>2, <2>3 DEF SavedFor
<1>5. CASE UnassignSaves(r)
  <2>1. p.group = None /\ p.user \in Name
    BY <1>1, <1>5, AssignmentForm DEF UnassignSaves
  <2>2. UNCHANGED disk \/ disk' = p.ext
    BY <1>5 DEF UnassignSaves, Save
  <2>3. UNCHANGED disk \/ Unassigned(disk, disk', p.user)
    BY <1>3, <2>1, <2>2 DEF Unassigned, KnowsAssignment
  <2> QED BY <1>2, <2>3 DEF SavedFor
<1> QED BY <1>4, <1>5

LEMMA ForgetsFor ==
  ASSUME Typed, NEW r \in Requests, Forgets(r), KnowsRecord(request[r], disk)
  PROVE  SavedFor(disk, disk', Subject(request[r]).user)
<1> DEFINE q == request[r]
           u == q.user
<1>1. q \in Deletions /\ q.at = "forget"
  BY PlaceTellsShape DEF Typed, RequestsTyped, Forgets, At
<1>2. Subject(q) = q /\ u \in Name
  BY <1>1 DEF Subject, Deletions
<1>3. u \in Recorded(disk)
  BY <1>1 DEF KnowsRecord
<1>4. \/ UNCHANGED disk
      \/ disk' = [disk EXCEPT !.users = disk.users \ {u}, !.holds[u] = HeldBy(u),
                              !.deleted = disk.deleted \cup {u}]
  BY DEF Forgets
<1>5. UNCHANGED disk \/ Deleted(disk, disk', u)
  BY <1>2, <1>3, <1>4 DEF Deleted
<1> QED BY <1>2, <1>5 DEF SavedFor

LEMMA EmployeesSaveFor ==
  ASSUME Typed, NEW r \in Requests, Employees(r), KnowsRecord(request[r], disk)
  PROVE  SavedFor(disk, disk', Subject(request[r]).user)
<1>1. CASE ~(CreateSaves(r) \/ AssignSaves(r) \/ UnassignSaves(r) \/ Forgets(r))
  <2>1. UNCHANGED disk
    BY <1>1 DEF Employees, CreateBegins, CreateChooses, CreatesUser, JoinsGroup, RollsBack,
                LooksUp, LooksAt, Scans, AssignChooses, ReadsGroups, MovesGroup, Erases,
                Retires, DisablesRetired, ReadsRetired, LeavesGroup, Retired
  <2> QED BY <2>1 DEF SavedFor
<1> QED BY <1>1, CreateSavesFor, AssignSavesFor, ForgetsFor

\* A step of a request for devices that changes the record is its first, and the request
\* was nobody's to disturb.
LEMMA DevicesBegin ==
  ASSUME Typed, NEW r \in Requests, Devices(r), disk' # disk
  PROVE  request[r].at = "idle"
BY DEF Devices, ApplyBegins, RemoveBegins, ShowsComputer, CreatesComputer, Destroys, Deploys,
       DeletesComputer, At

LEMMA QuietSave ==
  ASSUME Typed, MemoryFollowsRecord, QuietTyped, QuietInv, [Next]_vars, NEW r \in quiet, Saves(r)
  PROVE  /\ SavedFor(disk, disk', Subject(request[r]).user)
         /\ MemoryFollowsRecord' /\ Typed'
<1>1. Next /\ r \in Requests /\ request[r] # Idle /\ KnowsRecord(request[r], disk)
      /\ disk' # disk /\ request'[r] # request[r]
  BY DEF Saves, vars, QuietTyped, QuietInv
<1>2. Step
  BY <1>1 DEF Next
<1>3. Devices(r) \/ Employees(r)
  BY <1>1, <1>2, StepActs
<1>4. ~Devices(r)
  BY <1>1, DevicesBegin, PlaceTellsShape DEF Typed, RequestsTyped
<1> QED BY <1>1, <1>2, <1>3, <1>4, EmployeesSaveFor, StepFollowed, StepTyped

-----------------------------------------------------------------------------
(* The invariant of any requests *)

LEMMA PristineTyped == Pristine \in Extensions
<1>1. \A h : HolderOf(h) \in Name \cup {None}
  <2>1. ASSUME NEW h, \E u \in DOMAIN Baseline : Baseline[u] = h PROVE HolderOf(h) \in Name
    BY <2>1, InventoryAssumption DEF HolderOf
  <2>2. ASSUME NEW h, ~ \E u \in DOMAIN Baseline : Baseline[u] = h PROVE HolderOf(h) = None
    BY <2>2 DEF HolderOf
  <2> QED BY <2>1, <2>2
<1>2. [h \in Hosts |-> HolderOf(h)] \in Placements
  BY <1>1 DEF Placements
<1>3. [u \in Name |-> HeldBy(u)] \in Holdings
  BY HeldByTyped DEF Holdings
<1> QED BY <1>2, <1>3, NoDevice DEF Pristine, Extensions

LEMMA InitTyped == Init => Typed
<1> SUFFICES ASSUME Init PROVE Typed
  OBVIOUS
<1>1. RecordTyped
  BY PristineTyped, ReloadTyped DEF Init, RecordTyped
<1>2. LabTyped
  BY DEF Init, LabTyped, Hosts
<1>3. DirectoryTyped
  <2> DEFINE groups == [u \in Name |->
        IF HeldBy(u) = None THEN {} ELSE {"Employees", OfficeHosts[HeldBy(u)]}]
  <2>1. ASSUME NEW u \in Name, HeldBy(u) # None PROVE OfficeHosts[HeldBy(u)] \in Floors
    BY <2>1, InventoryAssumption DEF HeldBy, Range
  <2>2. groups \in [Name -> SUBSET Groups]
    BY <2>1 DEF Groups
  <2>3. directory = [exists |-> DOMAIN Baseline, enabled |-> DOMAIN Baseline,
                     computers |-> DOMAIN OfficeHosts, groups |-> groups]
    BY DEF Init
  <2> HIDE DEF groups
  <2> QED BY <2>2, <2>3, InventoryAssumption DEF DirectoryTyped, Hosts
<1>4. DraftsTyped
  <2>1. DOMAIN <<>> = {}
    OBVIOUS
  <2> QED BY <2>1 DEF Init, DraftsTyped
<1>5. RequestsTyped
  BY IdleWellFormed DEF Init, RequestsTyped
<1> QED BY <1>1, <1>2, <1>3, <1>4, <1>5 DEF Typed, Init

LEMMA BaseInit == Init => BaseInv
<1> SUFFICES ASSUME Init PROVE BaseInv
  OBVIOUS
<1>1. MemoryFollowsRecord
  BY DEF Init, MemoryFollowsRecord, InventoryOf
<1>2. QuietTyped /\ QuietInv
  BY DEF Init, QuietTyped, QuietInv
<1> QED BY <1>1, <1>2, InitTyped DEF BaseInv

LEMMA BaseNext == BaseInv /\ [Next]_vars => BaseInv'
<1> SUFFICES ASSUME BaseInv, [Next]_vars PROVE BaseInv'
  OBVIOUS
<1>1. CASE Next
  BY <1>1, QuietNext, StepTyped, StepFollowed DEF BaseInv, Next
<1>2. CASE UNCHANGED vars
  <2>1. Typed'
    BY <1>2 DEF BaseInv, vars, memory, lab, Typed, RecordTyped, LabTyped, DirectoryTyped,
                DraftsTyped, RequestsTyped
  <2>2. MemoryFollowsRecord' /\ QuietTyped' /\ QuietInv'
    BY <1>2 DEF BaseInv, vars, memory, MemoryFollowsRecord, QuietTyped, QuietInv
  <2> QED BY <2>1, <2>2 DEF BaseInv
<1> QED BY <1>1, <1>2

LEMMA BaseInvariant == Spec => []BaseInv
BY BaseInit, BaseNext, PTL DEF Spec

LEMMA BaseImpliesTypeOK == BaseInv => TypeOK
<1> SUFFICES ASSUME BaseInv PROVE TypeOK
  OBVIOUS
<1>1. ASSUME NEW f \in Registers
      PROVE  DOMAIN f \subseteq DynamicHosts /\ Range(f) \subseteq DeviceType
  BY RegisterForm DEF Range
<1>2. /\ disk.devices \in Registers /\ inventory.devices \in Registers
      /\ disk.assigned \in Placements /\ inventory.assigned \in Placements
      /\ disk.users \subseteq Name /\ disk.deleted \subseteq Name /\ disk.holds \in Holdings
      /\ accounts.users \subseteq Name /\ accounts.deleted \subseteq Name
      /\ accounts.holds \in Holdings
  BY DEF BaseInv, Typed, RecordTyped, Extensions
<1>3. \A r \in Requests : request[r].at \in Places
  BY PlaceTellsShape DEF BaseInv, Typed, RequestsTyped
<1>4. /\ DOMAIN OfficeHosts \subseteq topology /\ topology \subseteq Hosts /\ running \subseteq Hosts
      /\ directory.enabled \subseteq directory.exists /\ directory.exists \subseteq Name
      /\ directory.groups \in [Name -> SUBSET Groups]
      /\ quiet \subseteq {r \in Requests : request[r] # Idle}
  BY DEF BaseInv, Typed, LabTyped, DirectoryTyped, QuietTyped
<1>5. \A ext \in {disk, inventory} :
        /\ DOMAIN ext.devices \subseteq DynamicHosts /\ Range(ext.devices) \subseteq DeviceType
        /\ ext.assigned \in [Hosts -> Name \cup {None}]
  BY <1>1, <1>2 DEF Placements
<1>6. \A ext \in {disk, accounts} :
        /\ ext.users \subseteq Name /\ ext.deleted \subseteq Name
        /\ ext.holds \in [Name -> Hosts \cup {None}]
  BY <1>2 DEF Holdings
<1> QED BY <1>3, <1>4, <1>5, <1>6 DEF TypeOK, Groups

\* Whatever the requests that overlap, and whatever fails: records, snapshots and requests
\* keep their types, and only hosts that can be provisioned are ever recorded as devices
\* (ProvisioningService.apply and remove_device).
THEOREM TypeCorrect == Spec => []TypeOK
BY BaseInvariant, BaseImpliesTypeOK, PTL

\* The users and the assignments in memory are those of lab_extensions.json at every moment,
\* for any number of overlapping requests: every save is followed by the reload of what it
\* changed before anything is awaited (save_extensions, reload_baseline, delete_disabled_user).
THEOREM MemoryFollows == Spec => []MemoryFollowsRecord
<1>1. BaseInv => MemoryFollowsRecord
  BY DEF BaseInv
<1> QED BY <1>1, BaseInvariant, PTL

\* membership_action: an employee whose move to Former-Employees came to its end, in a request
\* that nobody disturbed, has lost the account and every other group.
THEOREM OffboardedLoses == Spec => []OffboardedLosesAccess
<1>1. BaseInv => OffboardedLosesAccess
  <2> SUFFICES ASSUME BaseInv, NEW r \in quiet, Left(r)
               PROVE  /\ request[r].user \notin directory.enabled
                      /\ directory.groups[request[r].user] = {"Former-Employees"}
    BY DEF OffboardedLosesAccess
  <2>1. KnowsAccount(request[r], directory)
    BY DEF BaseInv, QuietInv
  <2> QED BY <2>1 DEF KnowsAccount, Left, At
<1> QED BY <1>1, BaseInvariant, PTL

\* What a request saves that nobody disturbed keeps the two sides of every assignment in
\* agreement, whatever other requests do before and after (create_employee, assign_employee,
\* unassign_employee, delete_disabled_user).
THEOREM UndisturbedAgreement == Spec => UndisturbedSaveKeepsAgreement
<1> DEFINE A == \A r \in quiet : Saves(r) /\ AssignmentsAgree => AssignmentsAgree'
<1>1. BaseInv /\ [Next]_vars => A
  <2> SUFFICES ASSUME BaseInv, [Next]_vars, NEW r \in quiet, Saves(r), AssignmentsAgree
               PROVE  AssignmentsAgree'
    OBVIOUS
  <2>1. /\ SavedFor(disk, disk', Subject(request[r]).user)
        /\ MemoryFollowsRecord' /\ Typed' /\ MemoryFollowsRecord /\ Typed
    BY QuietSave DEF BaseInv
  <2>2. Agrees(disk) => Agrees(disk')
    BY <2>1, SavedAgrees DEF Typed, RecordTyped
  <2> QED BY <2>1, <2>2, AgreementKept
<1> HIDE DEF A
<1>2. Spec => [][A]_vars
  BY <1>1, BaseInvariant, PTL DEF Spec
<1> QED BY <1>2 DEF A, UndisturbedSaveKeepsAgreement

\* What a request saves that nobody disturbed changes only the entries of its own user and
\* of the workstation that user has or gets: the update of no other request is lost.
THEOREM UndisturbedOwn == Spec => UndisturbedSaveIsItsOwn
<1> DEFINE A == \A r \in quiet : Saves(r) =>
       LET u == Subject(request[r]).user
           own == {disk.holds[u], disk'.holds[u]} IN
       /\ \A v \in Name \ {u} :
            /\ disk'.holds[v] = disk.holds[v]
            /\ v \in disk'.users <=> v \in disk.users
            /\ v \in disk'.deleted <=> v \in disk.deleted
       /\ \A h \in Hosts \ own : disk'.assigned[h] = disk.assigned[h]
<1>1. BaseInv /\ [Next]_vars => A
  <2> SUFFICES ASSUME BaseInv, [Next]_vars
               PROVE  \A r \in quiet : Saves(r) => OwnEntries(disk, disk', Subject(request[r]).user)
    BY DEF OwnEntries
  <2> SUFFICES ASSUME NEW r \in quiet, Saves(r)
               PROVE  OwnEntries(disk, disk', Subject(request[r]).user)
    OBVIOUS
  <2>1. SavedFor(disk, disk', Subject(request[r]).user) /\ disk \in Extensions
    BY QuietSave DEF BaseInv, Typed, RecordTyped
  <2> QED BY <2>1, SavedIsItsOwn
<1> HIDE DEF A
<1>2. Spec => [][A]_vars
  BY <1>1, BaseInvariant, PTL DEF Spec
<1> QED BY <1>2 DEF A, UndisturbedSaveIsItsOwn

\* A request that nobody disturbed saves an assignment, or a release, only when the user is in
\* the department group of the new floor and in no other: whatever an operator or another
\* request changes in the directory disturbs it (set_department_group).
UndisturbedSaveHasDepartment ==
  [][\A r \in quiet : Saves(r) /\ Moved(r) =>
       directory.groups[request[r].request.user] \cap Floors
         = {request[r].request.group} \ {None}]_vars

\* DepartmentFollowsAssignment, among any number of overlapping requests, of an undisturbed one.
THEOREM UndisturbedDepartment == Spec => UndisturbedSaveHasDepartment
<1> DEFINE A == \A r \in quiet : Saves(r) /\ Moved(r) =>
       directory.groups[request[r].request.user] \cap Floors
         = {request[r].request.group} \ {None}
<1>1. BaseInv => A
  <2> SUFFICES ASSUME BaseInv, NEW r \in quiet, Moved(r)
               PROVE  directory.groups[request[r].request.user] \cap Floors
                        = {request[r].request.group} \ {None}
    OBVIOUS
  <2>1. KnowsDepartment(request[r], directory, request[r].since)
    BY DEF BaseInv, QuietInv
  <2> QED BY <2>1 DEF KnowsDepartment, Moved, At
<1> HIDE DEF A
<1>2. Spec => [][A]_vars
  BY <1>1, BaseInvariant, PTL DEF Spec
<1> QED BY <1>2 DEF A, UndisturbedSaveHasDepartment
-----------------------------------------------------------------------------
(* Requests that do not overlap: assignments, lab and accounts *)

\* The parts of the record that say who is who.
LEMMA SameAccounts ==
  ASSUME NEW d, NEW e, AccountsOf(e) = AccountsOf(d)
  PROVE  e.users = d.users /\ e.holds = d.holds /\ e.deleted = d.deleted /\ Recorded(e) = Recorded(d)
<1>1. e.users = d.users /\ e.holds = d.holds /\ e.deleted = d.deleted
  BY DEF AccountsOf
<1> QED BY <1>1 DEF Recorded

LEMMA ActorAgrees ==
  ASSUME Typed, MemoryFollowsRecord, Typed', MemoryFollowsRecord', NEW r \in Requests,
         Devices(r) \/ Employees(r), KnowsRecord(request[r], disk), AssignmentsAgree
  PROVE  AssignmentsAgree'
<1>1. CASE Devices(r)
  <2>1. /\ disk'.holds = disk.holds /\ disk'.deleted = disk.deleted
        /\ Recorded(disk') = Recorded(disk) /\ disk'.assigned = disk.assigned
    BY <1>1, DevicesRecord, SameAccounts
  <2>2. Agrees(disk) => Agrees(disk')
    BY <2>1 DEF Agrees
  <2> QED BY <2>2, AgreementKept
<1>2. CASE Employees(r)
  <2>1. SavedFor(disk, disk', Subject(request[r]).user) /\ disk \in Extensions
    BY <1>2, EmployeesSaveFor DEF Typed, RecordTyped
  <2>2. Agrees(disk) => Agrees(disk')
    BY <2>1, SavedAgrees
  <2> QED BY <2>2, AgreementKept
<1> QED BY <1>1, <1>2

LEMMA SavedDevices ==
  ASSUME NEW d \in Extensions, NEW e, NEW u, SavedFor(d, e, u) PROVE e.devices = d.devices
<1>1. ASSUME NEW host, Created(d, e, u, host) PROVE e.devices = d.devices
  <2>1. CreatedFields(d, e, u, host)
    BY <1>1, CreatedForm
  <2> QED BY <2>1 DEF CreatedFields
<1>2. ASSUME NEW host, Assigned(d, e, u, host) PROVE e.devices = d.devices
  <2>1. AssignedFields(d, e, u, host)
    BY <1>2, AssignedForm
  <2> QED BY <2>1 DEF AssignedFields
<1>3. ASSUME Unassigned(d, e, u) PROVE e.devices = d.devices
  <2>1. UnassignedFields(d, e, u)
    BY <1>3, UnassignedForm
  <2> QED BY <2>1 DEF UnassignedFields
<1>4. ASSUME Deleted(d, e, u) PROVE e.devices = d.devices
  <2>1. DeletedFields(d, e, u)
    BY <1>4, DeletedForm
  <2> QED BY <2>1 DEF DeletedFields
<1> QED BY <1>1, <1>2, <1>3, <1>4 DEF SavedFor

LEMMA EmployeesKeepLab ==
  ASSUME NEW r, Employees(r) PROVE UNCHANGED lab
BY DEF Employees, CreateBegins, CreateChooses, CreatesUser, JoinsGroup, CreateSaves, RollsBack,
       LooksUp, LooksAt, Scans, AssignChooses, ReadsGroups, MovesGroup, AssignSaves, UnassignSaves,
       Erases, Forgets, Retires, DisablesRetired, ReadsRetired, LeavesGroup, Retired

LEMMA ActorLab ==
  ASSUME Typed, Alone, NEW r \in Requests, Devices(r) \/ Employees(r), LabFollows
  PROVE  LabFollows'
<1> SUFFICES ASSUME request'[r].at \in Building
             PROVE  topology' = DOMAIN OfficeHosts \cup DOMAIN disk'.devices
  BY DEF LabFollows, Alone
<1>1. ~Employees(r)
  BY EmployeesReach DEF Employees, Building
<1>2. ASSUME NEW id \in DOMAIN drafts, ApplyBegins(r, id)
      PROVE  topology' = DOMAIN OfficeHosts \cup DOMAIN disk'.devices
  BY <1>2, ApplyBeginsTyped DEF ApplyBegins, At, Building
<1>3. ASSUME NEW host \in DynamicHosts, RemoveBegins(r, host)
      PROVE  topology' = DOMAIN OfficeHosts \cup DOMAIN disk'.devices
  BY <1>3, RemoveBeginsTyped DEF RemoveBegins, At, Building
<1>4. CASE ShowsComputer(r) \/ CreatesComputer(r) \/ Destroys(r) \/ Deploys(r)
  <2>1. request[r].at \in Building
    BY <1>4 DEF ShowsComputer, CreatesComputer, Destroys, Deploys, At, Building
  <2> QED BY <1>4, <2>1 DEF ShowsComputer, CreatesComputer, Destroys, Deploys, LabFollows, lab
<1>5. ~DeletesComputer(r)
  <2>1. ASSUME DeletesComputer(r) PROVE request'[r] = Idle
    BY <2>1, GoesResult DEF DeletesComputer, Command, Typed
  <2> QED BY <2>1 DEF Idle, Building
<1> QED BY <1>1, <1>2, <1>3, <1>4, <1>5 DEF Devices

\* Requests for devices leave the accounts, and who has one, alone.
LEMMA DevicesKeepAccounts ==
  ASSUME Typed, NEW r \in Requests, Devices(r)
  PROVE  directory'.exists = directory.exists /\ unrecorded' = unrecorded
<1>1. ASSUME NEW effect, NEW next, NEW failed, Command(r, effect, next, failed),
             effect.exists = directory.exists
      PROVE  directory'.exists = directory.exists
  BY <1>1 DEF Command
<1>2. CASE ShowsComputer(r)
  BY <1>2, ReadsResult DEF ShowsComputer, Typed
<1>3. CASE CreatesComputer(r)
  <2> DEFINE effect == [directory EXCEPT !.computers = @ \cup {request[r].host}]
  <2>1. effect.exists = directory.exists
    BY DEF Typed, DirectoryTyped
  <2>2. UNCHANGED directory \/ \E next : Command(r, effect, next, Idle)
    BY <1>3 DEF CreatesComputer
  <2>3. unrecorded' = unrecorded
    BY <1>3 DEF CreatesComputer
  <2> HIDE DEF effect
  <2> QED BY <1>1, <2>1, <2>2, <2>3
<1>4. CASE DeletesComputer(r)
  <2> DEFINE effect == [directory EXCEPT !.computers = @ \ {request[r].host}]
  <2>1. effect.exists = directory.exists
    BY DEF Typed, DirectoryTyped
  <2>2. Command(r, effect, Idle, Idle) /\ unrecorded' = unrecorded
    BY <1>4 DEF DeletesComputer
  <2> HIDE DEF effect
  <2> QED BY <1>1, <2>1, <2>2
<1>5. CASE \/ \E id \in DOMAIN drafts : ApplyBegins(r, id)
           \/ \E host \in DynamicHosts : RemoveBegins(r, host)
           \/ Destroys(r) \/ Deploys(r)
  BY <1>5 DEF ApplyBegins, RemoveBegins, Destroys, Deploys
<1> QED BY <1>2, <1>3, <1>4, <1>5 DEF Devices, ShowsComputer

\* Neither the accounts nor the users of the record change, and nothing is half done.
Unrelated(q, p, d, e) ==
  /\ q.at \notin {"join", "rollback", "forget"} /\ p.at \notin {"join", "rollback", "forget"}
  /\ e.users = d.users /\ e.deleted = d.deleted

LEMMA UnrelatedFollow ==
  ASSUME NEW q, NEW p, NEW d, NEW e, NEW ex, NEW un,
         Unrelated(q, p, d, e), AccountsFollow(q, d, ex, un)
  PROVE  AccountsFollow(p, e, ex, un)
<1>1. Recorded(e) = Recorded(d)
  BY DEF Unrelated, Recorded
<1> QED BY <1>1 DEF Unrelated, AccountsFollow, PendingAsSeen, Pending

LEMMA DevicesAccounts ==
  ASSUME Typed, MemoryFollowsRecord, NEW r \in Requests, Devices(r),
         AccountsFollow(request[r], disk, directory.exists, unrecorded)
  PROVE  AccountsFollow(request'[r], disk', directory'.exists, unrecorded')
<1>1. request[r].at \notin {"join", "rollback", "forget"}
  BY DEF Devices, ApplyBegins, RemoveBegins, ShowsComputer, CreatesComputer, Destroys, Deploys,
         DeletesComputer, At
<1>2. request'[r].at \notin {"join", "rollback", "forget"}
  BY DevicesKnow DEF Knowing
<1>3. disk'.users = disk.users /\ disk'.deleted = disk.deleted
  BY DevicesRecord, SameAccounts
<1>4. Unrelated(request[r], request'[r], disk, disk')
  BY <1>1, <1>2, <1>3 DEF Unrelated
<1> QED BY <1>4, UnrelatedFollow, DevicesKeepAccounts

\* One case per action that creates or deletes an account or its record.
LEMMA CreatesUserAccounts ==
  ASSUME Typed, MemoryFollowsRecord, NEW r \in Requests, CreatesUser(r),
         KnowsRecord(request[r], disk),
         AccountsFollow(request[r], disk, directory.exists, unrecorded)
  PROVE  AccountsFollow(request'[r], disk', directory'.exists, unrecorded')
<1> DEFINE q == request[r]
           p == request'[r]
           u == q.user
           effect == [directory EXCEPT !.exists = @ \cup {u}, !.enabled = @ \cup {u},
                                       !.groups[u] = {}]
           to == [q EXCEPT !.at = "join"]
<1>1. q \in Creations /\ q.at = "create_user" /\ u \notin Recorded(disk) /\ UNCHANGED disk
  BY PlaceTellsShape DEF Typed, RequestsTyped, CreatesUser, At, KnowsRecord
<1>2. effect.exists = directory.exists \cup {u}
  BY DEF Typed, DirectoryTyped
<1>3. to.at = "join" /\ to.user = u
  BY <1>1 DEF Creations
<1>4. \/ Goes(r, Idle) /\ UNCHANGED directory
      \/ u \notin directory.exists /\ Command(r, effect, to, Idle)
  BY DEF CreatesUser
<1> HIDE DEF effect, to
<1>5. \/ p = Idle /\ UNCHANGED directory
      \/ directory' = effect /\ (p = to \/ (p = Idle /\ u \notin directory.exists))
  BY <1>4, GoesResult, CommandResult DEF Typed
<1>6. /\ disk.users \cap disk.deleted \subseteq unrecorded
      /\ \A v \in Name \ unrecorded : v \in Recorded(disk) <=> v \in directory.exists
  BY <1>1 DEF AccountsFollow, Pending
<1>7. unrecorded \subseteq unrecorded'
  BY DEF CreatesUser
<1>8. CASE p = to /\ directory' = effect
  BY <1>1, <1>2, <1>3, <1>6, <1>7, <1>8 DEF AccountsFollow, PendingAsSeen, Pending
<1>9. CASE p = Idle /\ UNCHANGED directory
  BY <1>1, <1>6, <1>7, <1>9, IdlePlace DEF AccountsFollow, PendingAsSeen, Pending
<1>10. CASE p = Idle /\ directory' = effect /\ u \notin directory.exists
  <2>1. u \in unrecorded'
    BY <1>2, <1>10, IdlePlace DEF CreatesUser
  <2> QED BY <1>1, <1>2, <1>6, <1>7, <1>10, <2>1, IdlePlace DEF AccountsFollow, PendingAsSeen
<1> QED BY <1>5, <1>8, <1>9, <1>10

LEMMA JoinsGroupAccounts ==
  ASSUME Typed, NEW r \in Requests, JoinsGroup(r),
         AccountsFollow(request[r], disk, directory.exists, unrecorded)
  PROVE  AccountsFollow(request'[r], disk', directory'.exists, unrecorded')
<1> DEFINE q == request[r]
           p == request'[r]
           u == q.user
           effect == [directory EXCEPT !.groups[u] = @ \cup {Head(q.groups)}]
           next == [q EXCEPT !.groups = Tail(@)]
           failed == [q EXCEPT !.at = "rollback"]
<1>1. q \in Creations /\ q.at = "join" /\ UNCHANGED <<disk, unrecorded>>
  BY PlaceTellsShape DEF Typed, RequestsTyped, JoinsGroup, At
<1>2. effect.exists = directory.exists
  BY DEF Typed, DirectoryTyped
<1>3. next.at = "join" /\ next.user = u /\ failed.at = "rollback" /\ failed.user = u
  BY <1>1 DEF Creations
<1>4. Command(r, effect, next, failed)
  BY DEF JoinsGroup
<1> HIDE DEF effect, next, failed
<1>5. p \in {next, failed} /\ directory'.exists = directory.exists
  BY <1>2, <1>4, CommandResult DEF Typed
<1>6. p.at \in {"join", "rollback"} /\ p.user = u
  BY <1>3, <1>5
<1> QED BY <1>1, <1>5, <1>6 DEF AccountsFollow, PendingAsSeen, Pending

LEMMA CreateSavesAccounts ==
  ASSUME Typed, NEW r \in Requests, CreateSaves(r), KnowsRecord(request[r], disk),
         AccountsFollow(request[r], disk, directory.exists, unrecorded)
  PROVE  AccountsFollow(request'[r], disk', directory'.exists, unrecorded')
<1> DEFINE q == request[r]
           p == request'[r]
           u == q.user
           failed == [q EXCEPT !.at = "rollback"]
           ext == [disk EXCEPT !.users = @ \cup {u}, !.holds[u] = q.host,
                               !.assigned = IF q.host = None THEN @ ELSE [@ EXCEPT ![q.host] = u]]
<1>1. q \in Creations /\ q.at = "join" /\ UNCHANGED directory
  BY PlaceTellsShape DEF Typed, RequestsTyped, CreateSaves, At
<1>2. u \notin Recorded(disk)
  BY <1>1 DEF KnowsRecord
<1>3. ext.users = disk.users \cup {u} /\ ext.deleted = disk.deleted
  BY DEF Typed, RecordTyped, Extensions
<1>4. failed.at = "rollback" /\ failed.user = u
  BY <1>1 DEF Creations
<1>5. Save(r, ext, failed)
  BY DEF CreateSaves
<1> HIDE DEF ext, failed
<1>6. (disk' = ext /\ p = Idle) \/ (UNCHANGED disk /\ p = failed)
  BY <1>5, SaveResult DEF Typed
<1>7. /\ u \in directory.exists /\ disk.users \cap disk.deleted \subseteq unrecorded
      /\ \A v \in Name \ unrecorded : v # u => (v \in Recorded(disk) <=> v \in directory.exists)
  BY <1>1 DEF AccountsFollow, PendingAsSeen, Pending
<1>8. unrecorded \subseteq unrecorded' /\ (disk' # disk /\ u \in disk.deleted => u \in unrecorded')
  BY DEF CreateSaves
<1>9. CASE disk' = ext /\ p = Idle
  <2>1. u \in disk.deleted => u \in unrecorded'
    <3>1. CASE disk' # disk
      BY <1>8, <3>1
    <3>2. CASE disk' = disk
      BY <1>3, <1>7, <1>8, <1>9, <3>2
    <3> QED BY <3>1, <3>2
  <2>2. Recorded(ext) = IF u \in disk.deleted THEN Recorded(disk) ELSE Recorded(disk) \cup {u}
    BY <1>3 DEF Recorded
  <2>3. ext.users \cap ext.deleted \subseteq unrecorded'
    BY <1>3, <1>7, <1>8, <2>1
  <2>4. \A v \in Name \ unrecorded' : v \in Recorded(ext) <=> v \in directory.exists
    BY <1>7, <1>8, <2>1, <2>2
  <2> QED BY <1>1, <1>9, <2>3, <2>4, IdlePlace DEF AccountsFollow, PendingAsSeen
<1>10. CASE UNCHANGED disk /\ p = failed
  BY <1>1, <1>4, <1>7, <1>8, <1>10 DEF AccountsFollow, PendingAsSeen, Pending
<1> QED BY <1>6, <1>9, <1>10

LEMMA RollsBackAccounts ==
  ASSUME Typed, NEW r \in Requests, RollsBack(r), KnowsRecord(request[r], disk),
         AccountsFollow(request[r], disk, directory.exists, unrecorded)
  PROVE  AccountsFollow(request'[r], disk', directory'.exists, unrecorded')
<1> DEFINE q == request[r]
           u == q.user
           effect == [directory EXCEPT !.exists = @ \ {u}, !.enabled = @ \ {u}]
<1>1. q.at = "rollback" /\ u \notin Recorded(disk) /\ UNCHANGED disk
  BY DEF RollsBack, At, KnowsRecord
<1>2. effect.exists = directory.exists \ {u}
  BY DEF Typed, DirectoryTyped
<1>3. Command(r, effect, Idle, Idle)
  BY DEF RollsBack
<1> HIDE DEF effect
<1>4. request'[r] = Idle /\ directory' \in {directory, effect}
  BY <1>3, CommandResult DEF Typed
<1>5. /\ disk.users \cap disk.deleted \subseteq unrecorded
      /\ \A v \in Name \ unrecorded : v # u => (v \in Recorded(disk) <=> v \in directory.exists)
  BY <1>1 DEF AccountsFollow, Pending
<1>6. unrecorded \subseteq unrecorded' /\ (u \in directory'.exists => u \in unrecorded')
  BY DEF RollsBack
<1>7. \A v \in Name \ unrecorded' : v \in Recorded(disk) <=> v \in directory'.exists
  BY <1>1, <1>2, <1>4, <1>5, <1>6
<1> QED BY <1>1, <1>4, <1>5, <1>6, <1>7, IdlePlace DEF AccountsFollow, PendingAsSeen

LEMMA ErasesAccounts ==
  ASSUME Typed, NEW r \in Requests, Erases(r),
         AccountsFollow(request[r], disk, directory.exists, unrecorded)
  PROVE  AccountsFollow(request'[r], disk', directory'.exists, unrecorded')
<1> DEFINE q == request[r]
           p == request'[r]
           u == q.user
           effect == [directory EXCEPT !.exists = @ \ {u}, !.enabled = @ \ {u}]
           to == [at |-> "forget", user |-> u]
<1>1. q.at = "erase" /\ UNCHANGED disk /\ unrecorded \subseteq unrecorded'
  BY DEF Erases, At
<1>2. effect.exists = directory.exists \ {u} /\ to.at = "forget" /\ to.user = u
  BY DEF Typed, DirectoryTyped
<1>3. (Goes(r, Idle) /\ UNCHANGED directory) \/ Command(r, effect, to, Idle)
  BY DEF Erases
<1> HIDE DEF effect, to
<1>4. \/ p = to /\ directory' = effect
      \/ p = Idle /\ directory' \in {directory, effect}
  BY <1>3, CommandResult, GoesResult DEF Typed
<1>5. /\ disk.users \cap disk.deleted \subseteq unrecorded
      /\ \A v \in Name \ unrecorded : v \in Recorded(disk) <=> v \in directory.exists
  BY <1>1 DEF AccountsFollow, Pending
<1>6. CASE p = to /\ directory' = effect
  BY <1>1, <1>2, <1>5, <1>6 DEF AccountsFollow, PendingAsSeen, Pending
<1>7. CASE p = Idle /\ directory' \in {directory, effect}
  <2>1. directory' # directory => u \in unrecorded'
    BY <1>7, IdlePlace DEF Erases
  <2>2. \A v \in Name \ unrecorded' : v \in Recorded(disk) <=> v \in directory'.exists
    BY <1>1, <1>2, <1>5, <1>7, <2>1
  <2> QED BY <1>1, <1>5, <1>7, <2>2, IdlePlace DEF AccountsFollow, PendingAsSeen
<1> QED BY <1>4, <1>6, <1>7

LEMMA ForgetsAccounts ==
  ASSUME Typed, NEW r \in Requests, Forgets(r),
         AccountsFollow(request[r], disk, directory.exists, unrecorded)
  PROVE  AccountsFollow(request'[r], disk', directory'.exists, unrecorded')
<1> DEFINE q == request[r]
           u == q.user
<1>1. q.at = "forget" /\ request'[r] = Idle /\ UNCHANGED directory
  BY GoesResult DEF Forgets, At, Typed
<1>2. /\ u \notin directory.exists /\ disk.users \cap disk.deleted \subseteq unrecorded
      /\ \A v \in Name \ unrecorded : v # u => (v \in Recorded(disk) <=> v \in directory.exists)
  BY <1>1 DEF AccountsFollow, PendingAsSeen, Pending
<1>3. \/ /\ disk'.users = disk.users \ {u} /\ disk'.deleted = disk.deleted \cup {u}
         /\ unrecorded' = unrecorded
      \/ UNCHANGED disk /\ unrecorded' = unrecorded \cup {u}
  BY DEF Forgets, Typed, RecordTyped, Extensions
<1>4. CASE /\ disk'.users = disk.users \ {u} /\ disk'.deleted = disk.deleted \cup {u}
           /\ unrecorded' = unrecorded
  <2>1. Recorded(disk') = Recorded(disk) \ {u}
    BY <1>4 DEF Recorded
  <2>2. /\ disk'.users \cap disk'.deleted \subseteq unrecorded'
        /\ \A v \in Name \ unrecorded' : v \in Recorded(disk') <=> v \in directory'.exists
    BY <1>1, <1>2, <1>4, <2>1
  <2> QED BY <1>1, <2>2, IdlePlace DEF AccountsFollow, PendingAsSeen
<1>5. CASE UNCHANGED disk /\ unrecorded' = unrecorded \cup {u}
  BY <1>1, <1>2, <1>5, IdlePlace DEF AccountsFollow, PendingAsSeen
<1> QED BY <1>3, <1>4, <1>5

\* A command of another action changes no account's existence.
LEMMA ExistsKept ==
  ASSUME Typed, NEW r \in Requests, NEW u, NEW gs, NEW effect, NEW next, NEW failed,
         \/ effect = [directory EXCEPT !.groups[u] = gs]
         \/ effect = [directory EXCEPT !.enabled = gs],
         Command(r, effect, next, failed)
  PROVE  directory'.exists = directory.exists
<1>1. effect.exists = directory.exists
  BY DEF Typed, DirectoryTyped
<1> QED BY <1>1 DEF Command

LEMMA OthersKeepAccounts ==
  ASSUME Typed, NEW r \in Requests,
         Employees(r), ~(CreatesUser(r) \/ RollsBack(r) \/ Erases(r))
  PROVE  directory'.exists = directory.exists
<1>1. CASE JoinsGroup(r)
  <2>1. \E u, gs, next, failed : Command(r, [directory EXCEPT !.groups[u] = gs], next, failed)
    BY <1>1 DEF JoinsGroup
  <2> QED BY <2>1, ExistsKept
<1>2. CASE MovesGroup(r)
  <2>1. \E u, gs, next, failed : Command(r, [directory EXCEPT !.groups[u] = gs], next, failed)
    BY <1>2 DEF MovesGroup
  <2> QED BY <2>1, ExistsKept
<1>3. CASE \E u \in Name : Retires(r, u)
  <2>1. \E u, gs, next, failed : Command(r, [directory EXCEPT !.groups[u] = gs], next, failed)
    BY <1>3 DEF Retires
  <2> QED BY <2>1, ExistsKept
<1>4. CASE LeavesGroup(r)
  <2>1. \E u, gs, next, failed : Command(r, [directory EXCEPT !.groups[u] = gs], next, failed)
    BY <1>4 DEF LeavesGroup
  <2> QED BY <2>1, ExistsKept
<1>5. CASE DisablesRetired(r)
  <2>1. \/ UNCHANGED directory
        \/ \E gs, next, failed : Command(r, [directory EXCEPT !.enabled = gs], next, failed)
    BY <1>5 DEF DisablesRetired
  <2> QED BY <2>1, ExistsKept
<1>6. CASE Scans(r) \/ LooksAt(r) \/ ReadsGroups(r) \/ ReadsRetired(r)
  BY <1>6, ReadsResult DEF Scans, LooksAt, ReadsGroups, ReadsRetired, Typed
<1>7. CASE \/ \E u \in Name, host \in Hosts \cup {None} : CreateBegins(r, u, host)
           \/ \E u, purpose, host : LooksUp(r, u, purpose, host)
           \/ CreateChooses(r) \/ CreateSaves(r) \/ AssignChooses(r) \/ AssignSaves(r)
           \/ UnassignSaves(r) \/ Forgets(r) \/ Retired(r)
  BY <1>7 DEF CreateBegins, LooksUp, CreateChooses, CreateSaves, AssignChooses, AssignSaves,
              UnassignSaves, Forgets, Retired
<1> QED BY <1>1, <1>2, <1>3, <1>4, <1>5, <1>6, <1>7 DEF Employees

LEMMA OthersUnrelated ==
  ASSUME Typed, NEW r \in Requests, KnowsRecord(request[r], disk), Employees(r),
         ~(\/ CreatesUser(r) \/ JoinsGroup(r) \/ CreateSaves(r) \/ RollsBack(r)
           \/ Erases(r) \/ Forgets(r))
  PROVE  Unrelated(request[r], request'[r], disk, disk') /\ unrecorded' = unrecorded
<1>1. /\ request[r].at \notin {"join", "rollback", "forget"}
      /\ unrecorded' = unrecorded
  BY DEF Employees, CreateBegins, CreateChooses, LooksUp, LooksAt, Scans, AssignChooses,
         ReadsGroups, MovesGroup, AssignSaves, UnassignSaves, Retires, DisablesRetired,
         ReadsRetired, LeavesGroup, Retired, At, Scanned, Moved, Left
<1>2. request'[r].at \notin {"join", "rollback", "forget"}
  BY EmployeesReach DEF Employees
<1>3. disk'.users = disk.users /\ disk'.deleted = disk.deleted
  <2>1. CASE AssignSaves(r) \/ UnassignSaves(r)
    <3> DEFINE q == request[r]
               p == q.request
    <3>1. q \in Movings /\ p \in Assignings \cup Unassignings /\ q.at = "move"
          /\ disk \in Extensions
      BY <2>1, PlaceTellsShape DEF Typed, RequestsTyped, RecordTyped, AssignSaves, UnassignSaves,
                                   Moved, At, Movings
    <3>2. \/ UNCHANGED disk
          \/ disk' = [disk EXCEPT !.assigned[p.host] = p.user, !.holds[p.user] = p.host]
          \/ disk' = p.ext /\ p.group = None
      BY <2>1 DEF AssignSaves, UnassignSaves, Save
    <3>3. p.group = None => p.ext = ReleasedFrom(disk, p.user)
      BY <3>1 DEF KnowsRecord, KnowsAssignment
    <3> QED BY <3>1, <3>2, <3>3 DEF ReleasedFrom, Extensions
  <2>2. CASE ~(AssignSaves(r) \/ UnassignSaves(r))
    BY <2>2 DEF Employees, CreateBegins, CreateChooses, LooksUp, LooksAt, Scans, AssignChooses,
                ReadsGroups, MovesGroup, Retires, DisablesRetired, ReadsRetired, LeavesGroup,
                Retired
  <2> QED BY <2>1, <2>2
<1> QED BY <1>1, <1>2, <1>3 DEF Unrelated

LEMMA ActorAccounts ==
  ASSUME Typed, MemoryFollowsRecord, NEW r \in Requests, Devices(r) \/ Employees(r),
         KnowsRecord(request[r], disk),
         AccountsFollow(request[r], disk, directory.exists, unrecorded)
  PROVE  AccountsFollow(request'[r], disk', directory'.exists, unrecorded')
<1>1. CASE Devices(r)
  BY <1>1, DevicesAccounts
<1>2. CASE \/ CreatesUser(r) \/ JoinsGroup(r) \/ CreateSaves(r) \/ RollsBack(r)
           \/ Erases(r) \/ Forgets(r)
  BY <1>2, CreatesUserAccounts, JoinsGroupAccounts, CreateSavesAccounts, RollsBackAccounts,
     ErasesAccounts, ForgetsAccounts
<1>3. CASE Employees(r) /\ ~(\/ CreatesUser(r) \/ JoinsGroup(r) \/ CreateSaves(r) \/ RollsBack(r)
                             \/ Erases(r) \/ Forgets(r))
  BY <1>3, OthersUnrelated, OthersKeepAccounts, UnrelatedFollow
<1> QED BY <1>1, <1>2, <1>3

-----------------------------------------------------------------------------
(* AloneInv is inductive for requests that do not overlap. *)

LEMMA PristineAgrees == ASSUME Init PROVE AssignmentsAgree
<1>1. /\ Known = DOMAIN Baseline /\ accounts.deleted = {}
      /\ disk.assigned = [h \in Hosts |-> HolderOf(h)]
      /\ disk.holds = [u \in Name |-> HeldBy(u)]
  BY DEF Init, Pristine, AccountsOf, Known
<1>2. /\ DOMAIN Baseline \subseteq Name /\ None \notin Name /\ None \notin Hosts
      /\ \A u, v \in DOMAIN Baseline : Baseline[u] = Baseline[v] /\ Baseline[u] # None => u = v
  BY InventoryAssumption
<1>3. \A h \in Hosts :
        \/ HolderOf(h) \in DOMAIN Baseline /\ Baseline[HolderOf(h)] = h
        \/ HolderOf(h) = None /\ \A u \in DOMAIN Baseline : Baseline[u] # h
  BY DEF HolderOf
<1>4. ASSUME NEW u \in DOMAIN Baseline, NEW h \in Hosts
      PROVE  disk.holds[u] = h <=> disk.assigned[h] = u
  <2>1. disk.holds[u] = Baseline[u] /\ disk.assigned[h] = HolderOf(h)
    BY <1>1, <1>2, <1>4 DEF HeldBy
  <2>2. Baseline[u] = h => HolderOf(h) = u
    BY <1>2, <1>3
  <2>3. HolderOf(h) = u => Baseline[u] = h
    BY <1>2, <1>3
  <2> QED BY <2>1, <2>2, <2>3
<1>5. Range(disk.assigned) \subseteq DOMAIN Baseline \cup {None}
  BY <1>1, <1>3 DEF Range
<1> QED BY <1>1, <1>4, <1>5 DEF AssignmentsAgree

LEMMA PristineFollows == ASSUME Init PROVE AccountsFollow(Idle, disk, directory.exists, unrecorded)
<1>1. /\ Recorded(disk) = DOMAIN Baseline /\ disk.users = {} /\ directory.exists = DOMAIN Baseline
  BY DEF Init, Pristine, Recorded
<1> QED BY <1>1, IdlePlace DEF AccountsFollow, PendingAsSeen

LEMMA AloneInit == Init => AloneInv
<1> SUFFICES ASSUME Init PROVE AloneInv
  OBVIOUS
<1>1. \A r \in Requests : request[r] = Idle
  BY DEF Init
<1>2. LabFollows
  BY <1>1 DEF LabFollows, Idle, Building
<1> QED BY <1>1, <1>2, PristineAgrees, PristineFollows, IdleKnows, IdlePlace DEF AloneInv, At

\* One request acts, and it is the only one.
LEMMA ActorAlone ==
  ASSUME BaseInv, BaseInv', Alone, AloneInv, NEW r \in Requests, Devices(r) \/ Employees(r)
  PROVE  AloneInv'
<1>1. /\ Typed /\ MemoryFollowsRecord /\ Typed' /\ MemoryFollowsRecord'
      /\ AssignmentsAgree /\ LabFollows
      /\ KnowsRecord(request[r], disk) /\ KnowsDepartment(request[r], directory, changes)
      /\ AccountsFollow(request[r], disk, directory.exists, unrecorded)
  BY DEF BaseInv, AloneInv
<1>2. AssignmentsAgree' /\ LabFollows'
  BY <1>1, ActorAgrees, ActorLab
<1>3. KnowsRecord(request'[r], disk')
  BY <1>1, DevicesKnow, EmployeesKnow, NothingToKnow
<1>4. KnowsDepartment(request'[r], directory', changes')
  BY <1>1, ActorDepartment
<1>5. request'[r].at = "deploy" => running' = {}
  <2>1. CASE Devices(r)
    BY <1>1, <2>1, DevicesKnow
  <2>2. CASE Employees(r)
    BY <1>1, <2>2, EmployeesReach DEF Employees
  <2> QED BY <2>1, <2>2
<1>6. AccountsFollow(request'[r], disk', directory'.exists, unrecorded')
  BY <1>1, ActorAccounts
<1>7. \A s \in Requests : s = r
  BY DEF Alone
<1> QED BY <1>2, <1>3, <1>4, <1>5, <1>6, <1>7 DEF AloneInv, At

\* Operators change the directory, and count it.
LEMMA OperatorAlone ==
  ASSUME Typed, AloneInv, UNCHANGED <<disk, memory, lab, request, unrecorded>>,
         directory'.exists = directory.exists, changes' = changes + 1
  PROVE  AloneInv'
<1>1. AssignmentsAgree' /\ LabFollows'
  BY DEF AloneInv, AssignmentsAgree, LabFollows, Known, memory, lab
<1>2. ASSUME NEW r \in Requests PROVE KnowsDepartment(request[r], directory', changes')
  <2>1. KnowsDepartment(request[r], directory, changes) /\ changes \in Nat
    BY DEF AloneInv, Typed
  <2>2. ASSUME request[r].at = "move"
        PROVE  request[r].since \leq changes' /\ request[r].since # changes'
    <3>1. request[r] \in Movings /\ request[r].since \leq changes
      BY <2>1, <2>2, PlaceTellsShape DEF Typed, RequestsTyped, KnowsDepartment
    <3>2. request[r].since \in Nat
      BY <3>1 DEF Movings
    <3> HIDE DEF Movings
    <3> QED BY <2>1, <3>1, <3>2
  <2> QED BY <2>2 DEF KnowsDepartment
<1> QED BY <1>1, <1>2 DEF AloneInv, At, lab

\* Nothing but drafts changes.
LEMMA DraftAlone ==
  ASSUME AloneInv, UNCHANGED <<disk, accounts, lab, directory, request, changes, unrecorded>>
  PROVE  AloneInv'
<1>1. AssignmentsAgree' /\ LabFollows'
  BY DEF AloneInv, AssignmentsAgree, LabFollows, Known, lab
<1> QED BY <1>1 DEF AloneInv, At, lab

LEMMA RestartAlone ==
  ASSUME BaseInv, BaseInv', AloneInv, Restart
  PROVE  AloneInv'
<1>1. UNCHANGED <<disk, lab, directory, changes>> /\ \A r \in Requests : request'[r] = Idle
  BY DEF Restart
<1>2. AssignmentsAgree'
  BY <1>1, AgreementKept DEF BaseInv, AloneInv
<1>3. LabFollows'
  BY <1>1 DEF LabFollows, Idle, Building
<1>4. ASSUME NEW r \in Requests
      PROVE  AccountsFollow(Idle, disk, directory.exists, unrecorded')
  <2>1. AccountsFollow(request[r], disk, directory.exists, unrecorded)
    BY DEF AloneInv
  <2>2. \A u : Pending(request[r], u) => u \in unrecorded'
    BY DEF Restart, Pending
  <2>3. unrecorded \subseteq unrecorded'
    BY DEF Restart
  <2> QED BY <2>1, <2>2, <2>3, IdlePlace DEF AccountsFollow, PendingAsSeen
<1>5. Requests = {} => AccountsFollow(Idle, disk, directory.exists, unrecorded')
  <2>1. unrecorded \subseteq unrecorded'
    BY DEF Restart
  <2> QED BY <2>1, IdlePlace DEF AloneInv, AccountsFollow, PendingAsSeen
<1> QED BY <1>1, <1>2, <1>3, <1>4, <1>5, IdleKnows, IdlePlace DEF AloneInv, At

LEMMA AloneNext == ASSUME BaseInv, Alone, AloneInv, [Next]_vars PROVE AloneInv'
<1>1. BaseInv'
  BY BaseNext
<1>2. CASE UNCHANGED vars
  BY <1>2, DraftAlone DEF vars, memory, lab
<1>3. ASSUME Step PROVE AloneInv'
  <2>1. ASSUME NEW id \in Drafts, NEW host \in DynamicHosts, NEW floor \in Floors,
               Draft(id, host, floor)
        PROVE  AloneInv'
    BY <2>1, DraftAlone DEF Draft
  <2>2. ASSUME NEW r \in Requests, Devices(r) \/ Employees(r) PROVE AloneInv'
    BY <1>1, <2>2, ActorAlone
  <2>3. ASSUME NEW u \in Name, UserAction(u) \/ \E g \in Floors : MembershipAction(u, g)
        PROVE  AloneInv'
    <3>1. directory'.exists = directory.exists
      BY <2>3 DEF BaseInv, Typed, DirectoryTyped, UserAction, MembershipAction
    <3> QED BY <2>3, <3>1, OperatorAlone DEF BaseInv, UserAction, MembershipAction
  <2>4. CASE Restart
    BY <1>1, <2>4, RestartAlone
  <2> QED BY <1>3, <2>1, <2>2, <2>3, <2>4 DEF Step
<1> QED BY <1>2, <1>3 DEF Next

LEMMA Inductive == IInv /\ [Next]_vars => IInv'
<1> SUFFICES ASSUME IInv, [Next]_vars PROVE IInv'
  OBVIOUS
<1>1. BaseInv'
  BY BaseNext DEF IInv
<1>2. Alone => AloneInv'
  BY AloneNext DEF IInv
<1> QED BY <1>1, <1>2 DEF IInv

LEMMA Invariant == Spec => []IInv
<1>1. Init => IInv
  BY BaseInit, AloneInit DEF IInv
<1> QED BY <1>1, Inductive, PTL DEF Spec

\* Requests that do not overlap keep the two sides of every assignment in agreement, whatever
\* fails, and with every restart.
THEOREM AloneAgreement == ASSUME Alone PROVE Spec => []AssignmentsAgree
<1>1. IInv => AssignmentsAgree
  BY DEF IInv, AloneInv
<1> QED BY <1>1, Invariant, PTL

\* Between requests that do not overlap, accounts and record differ only by what a lost answer,
\* a failed rollback, a failed save or a restart left behind.
THEOREM AloneRecords == ASSUME Alone PROVE Spec => []RecordsMatchDirectory
<1>1. IInv => RecordsMatchDirectory
  <2> SUFFICES ASSUME IInv, \A r \in Requests : At(r, "idle"), NEW u \in Name \ unrecorded
               PROVE  u \in Known <=> u \in directory.exists
    BY DEF RecordsMatchDirectory
  <2>1. Known = Recorded(disk)
    BY MemoryTells DEF IInv, BaseInv
  <2>2. CASE Requests = {}
    BY <2>1, <2>2, IdlePlace DEF IInv, AloneInv, AccountsFollow, Pending
  <2>3. ASSUME NEW r \in Requests PROVE u \in Recorded(disk) <=> u \in directory.exists
    BY DEF IInv, AloneInv, AccountsFollow, Pending, At
  <2> QED BY <2>1, <2>2, <2>3
<1> QED BY <1>1, Invariant, PTL

\* Requests that do not overlap deploy what is recorded: the generated file follows the record
\* through every failure, and nothing of an earlier lab runs when a deployment starts.
THEOREM AloneDeployment == ASSUME Alone PROVE Spec => DeployedIsRecorded
<1> DEFINE A == \A r \in Requests :
       At(r, "deploy") /\ running' # {} => running' = DOMAIN OfficeHosts \cup DOMAIN disk.devices
<1>1. IInv /\ [Next]_vars => A
  <2> SUFFICES ASSUME IInv, [Next]_vars, NEW r \in Requests, At(r, "deploy")
               PROVE  running' = running \/ running' = topology
    BY DEF IInv, AloneInv, LabFollows, At, Building
  <2>1. CASE UNCHANGED vars
    BY <2>1 DEF vars, lab
  <2>2. ASSUME NEW s \in Requests, Employees(s) PROVE running' = running
    BY <2>2, EmployeesKeepLab DEF IInv, BaseInv, lab
  <2>3. ASSUME NEW s \in Requests, Devices(s) PROVE running' = running \/ running' = topology
    <3>1. At(s, "deploy")
      BY DEF Alone
    <3> QED BY <2>3, <3>1 DEF Devices, ApplyBegins, RemoveBegins, ShowsComputer, CreatesComputer,
                              Destroys, Deploys, DeletesComputer, At, lab
  <2>4. ASSUME Step PROVE running' = running \/ running' = topology
    BY <2>2, <2>3, <2>4 DEF Step, Draft, UserAction, MembershipAction, Restart, lab
  <2> QED BY <2>1, <2>4 DEF Next
<1> HIDE DEF A
<1>2. Spec => [][A]_vars
  BY <1>1, Invariant, PTL DEF Spec
<1> QED BY <1>2 DEF A, DeployedIsRecorded

\* When a request that nobody overlaps saves an assignment, the user is in the department group
\* of the new floor and in no other, unless an operator changed a membership meanwhile.
THEOREM AloneDepartment == ASSUME Alone PROVE Spec => DepartmentFollowsAssignment
<1> DEFINE A == \A r \in Requests :
       Moved(r) /\ disk' # disk /\ request[r].since = changes =>
         directory.groups[request[r].request.user] \cap Floors
           = {request[r].request.group} \ {None}
<1>1. IInv => A
  <2> SUFFICES ASSUME IInv, NEW r \in Requests, Moved(r), request[r].since = changes
               PROVE  directory.groups[request[r].request.user] \cap Floors
                        = {request[r].request.group} \ {None}
    OBVIOUS
  <2>1. KnowsDepartment(request[r], directory, changes)
    BY DEF IInv, AloneInv
  <2> QED BY <2>1 DEF KnowsDepartment, Moved, At
<1> HIDE DEF A
<1>2. Spec => [][A]_vars
  BY <1>1, Invariant, PTL DEF Spec
<1> QED BY <1>2 DEF A, DepartmentFollowsAssignment
=============================================================================
