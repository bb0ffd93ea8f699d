--------------------------- MODULE DirectoryBoot ----------------------------
(***************************************************************************)
(* How DC01 boots: entrypoint.sh creates the domain, and provision.py      *)
(* brings the directory to the baseline, both in                           *)
(* containers/domain-controller/.                                          *)
(*                                                                         *)
(* The script is a sequence of commands on a directory that outlives the   *)
(* container.  A crash, or a command that fails, ends the boot; the next   *)
(* one starts the script from its first command, and finds what is there   *)
(* already.  A marker file ends this: with it the script does nothing.     *)
(* Samba serves only after the script, but the backend runs samba-tool     *)
(* inside the container, on the same database: what operators do to users  *)
(* may fall between any two commands of the script.                        *)
(*                                                                         *)
(* samba-tool is external: the domain is created in two steps, of which    *)
(* the first leaves smb.conf, and other commands are atomic; moving a      *)
(* computer to where it is succeeds.                                       *)
(***************************************************************************)
EXTENDS Integers, Sequences, SequencesExt

CONSTANTS
  Ous,              \* sequence of organizational units
  Groups,           \* sequence of the baseline's groups
  Users,            \* sequence of the baseline's users
  Baseline,         \* [users -> set of groups]
  Disabled,         \* users the baseline wants disabled
  Attended,         \* users of whom the script sets a password, an expiry or a lock
  DeprecatedUsers,  \* sequence
  DeprecatedGroups, \* sequence
  Computers,        \* sequence
  Place,            \* [computers -> organizational unit]
  Laptops,          \* computers that are moved to their place
  Existing,         \* directories of an earlier version that a boot may find
  MaxDisturbances   \* bound on crashes, failed commands, restarts and, in the script, operators

AllUsers  == Range(Users) \cup Range(DeprecatedUsers)
AllGroups == Range(Groups) \cup Range(DeprecatedGroups)

ASSUME BaselineAssumption ==
  /\ \A names \in {Ous, Groups, Users, DeprecatedUsers, DeprecatedGroups, Computers} :
       names \in Seq(Range(names))
  /\ Baseline \in [Range(Users) -> SUBSET Range(Groups)]
  /\ Place \in [Range(Computers) -> Range(Ous)] /\ "none" \notin Range(Ous)
  /\ Disabled \subseteq Range(Users) /\ Attended \subseteq Range(Users) /\ Laptops \subseteq Range(Computers)
  /\ Range(Users) \cap Range(DeprecatedUsers) = {}
  /\ Range(Groups) \cap Range(DeprecatedGroups) = {}
  /\ {"user", "account"} \cap Range(Groups) = {}
  /\ MaxDisturbances \in Nat

\* A directory of managed users, groups and computers: members and disabled users exist.
Directory ==
  [ous : SUBSET Range(Ous), groups : SUBSET AllGroups, users : SUBSET AllUsers,
   member : [AllUsers -> SUBSET AllGroups], disabled : SUBSET AllUsers,
   place : [Range(Computers) -> Range(Ous) \cup {"none"}], nested : BOOLEAN, settings : BOOLEAN]

Consistent(d) ==
  /\ d.disabled \subseteq d.users
  /\ \A u \in AllUsers : d.member[u] \subseteq IF u \in d.users THEN d.groups ELSE {}

ASSUME ExistingAssumption == Existing \subseteq Directory /\ \A d \in Existing : Consistent(d)

VARIABLES
  status,   \* of the container: "down", "creating", "script", "serving"
  domain,   \* "absent", "partial" (smb.conf exists) or "ready"
  dir,      \* the directory
  marker,   \* .netops-baseline-v5 exists
  pc,       \* the command of the script that is next
  fresh,    \* is_new of the current user
  disturbances, \* of boots, counted
  created,  \* history: users that a boot has created
  cut,      \* history: users whose turn was interrupted after they were created
  operated  \* history: <<user, group, "user" or "account">>, changed since the script last set it

vars == <<status, domain, dir, marker, pc, fresh, disturbances, created, cut, operated>>
-----------------------------------------------------------------------------
Empty == [ous |-> {}, groups |-> {}, users |-> {}, member |-> [u \in AllUsers |-> {}],
          disabled |-> {}, place |-> [c \in Range(Computers) |-> "none"],
          nested |-> FALSE, settings |-> FALSE]

Each(do, names) == [i \in 1..Len(names) |-> [do |-> do, name |-> names[i], group |-> "none"]]

\* Mutant of Turn: the groups of a user come before the user.
TurnGroupsFirst(u) ==
  [j \in 1..Len(Groups) |-> [do |-> "member", name |-> u, group |-> Groups[j]]]
    \o Each("user", <<u>>) \o Each("disable", <<u>>)

\* The commands of one user: create, the groups in their order, disable.
Turn(u) ==
  Each("user", <<u>>) \o [j \in 1..Len(Groups) |-> [do |-> "member", name |-> u, group |-> Groups[j]]]
    \o Each("disable", <<u>>)

Script ==
  Each("ou", Ous) \o Each("group", Groups)
    \o FlattenSeq([i \in 1..Len(Users) |-> Turn(Users[i])])
    \o Each("drop_user", DeprecatedUsers) \o Each("drop_group", DeprecatedGroups)
    \o Each("computer", Computers)
    \o <<[do |-> "nest", name |-> "IT-Admins", group |-> "Domain-Admins"]>>
    \o Each("settings", <<"password-policy">>) \o Each("marker", <<"baseline-v5">>)

Step == Script[pc]

Init ==
  /\ status = "down" /\ marker = FALSE /\ pc = 1 /\ fresh = FALSE
  /\ \/ domain = "absent" /\ dir = Empty
     \/ domain = "ready" /\ dir \in Existing
  /\ disturbances = 0 /\ created = {} /\ cut = {} /\ operated = {}
-----------------------------------------------------------------------------
(* entrypoint.sh *)

Boot ==
  /\ status = "down"
  /\ IF domain = "absent" THEN domain' = "partial" /\ status' = "creating"
     ELSE UNCHANGED domain /\ status' = IF marker THEN "serving" ELSE "script"
  /\ pc' = 1 /\ fresh' = FALSE
  /\ UNCHANGED <<dir, marker, disturbances, created, cut, operated>>

DomainCreated ==
  /\ status = "creating"
  /\ domain' = "ready" /\ status' = "script"
  /\ UNCHANGED <<dir, marker, pc, fresh, disturbances, created, cut, operated>>

\* The first command finds no directory behind smb.conf: the boot ends.
NoDirectory ==
  /\ status = "script" /\ domain = "partial"
  /\ status' = "down"
  /\ UNCHANGED <<domain, dir, marker, pc, fresh, disturbances, created, cut, operated>>

\* The user whose turn it is, once created and not yet done with.
InTurn == IF status = "script" /\ fresh /\ Step.do \in {"member", "disable"} THEN {Step.name} ELSE {}

\* A crash, a failing command or a restart.
Crash ==
  /\ status # "down" /\ disturbances < MaxDisturbances
  /\ status' = "down" /\ disturbances' = disturbances + 1
  /\ cut' = cut \cup InTurn
  /\ UNCHANGED <<domain, dir, marker, pc, fresh, created, operated>>
-----------------------------------------------------------------------------
(* provision.py: every command first asks whether it is still needed. *)

Doing(do) == status = "script" /\ domain = "ready" /\ Step.do = do

\* The command fails, and with it the boot.
Fails ==
  /\ status' = "down" /\ cut' = cut \cup InTurn
  /\ UNCHANGED <<domain, dir, marker, pc, fresh, disturbances, created, operated>>

\* On to the next command, with directory d.
Continue(d) ==
  /\ dir' = d /\ pc' = pc + 1
  /\ UNCHANGED <<status, domain, marker, disturbances, cut>>

MakesOu ==
  /\ Doing("ou")
  /\ Continue([dir EXCEPT !.ous = @ \cup {Step.name}])
  /\ UNCHANGED <<fresh, created, operated>>

\* Mutant of MakesGroup: the group is created without asking, which fails if it is there.
MakesGroupAnyway ==
  /\ Doing("group")
  /\ IF Step.name \in dir.groups THEN Fails
     ELSE /\ Continue([dir EXCEPT !.groups = @ \cup {Step.name}])
          /\ UNCHANGED <<fresh, created, operated>>

MakesGroup ==
  /\ Doing("group")
  /\ Continue([dir EXCEPT !.groups = @ \cup {Step.name}])
  /\ UNCHANGED <<fresh, created, operated>>

\* Mutant of MakesUser: is_new is asked after the creation.
MakesUserFirst ==
  /\ Doing("user")
  /\ Continue([dir EXCEPT !.users = @ \cup {Step.name}])
  /\ fresh' = FALSE
  /\ created' = IF Step.name \in dir.users THEN created ELSE created \cup {Step.name}
  /\ operated' = operated \ {<<Step.name, "user">>}

\* A new user is enabled.
MakesUser ==
  /\ Doing("user")
  /\ Continue([dir EXCEPT !.users = @ \cup {Step.name}])
  /\ fresh' = (Step.name \notin dir.users)
  /\ created' = IF Step.name \in dir.users THEN created ELSE created \cup {Step.name}
  /\ operated' = operated \ {<<Step.name, "user">>}

\* Mutant of SetsMember: only a new user is given its groups.
SetsMemberIfNew ==
  /\ Doing("member")
  /\ Continue(IF ~fresh THEN dir
       ELSE [dir EXCEPT !.member[Step.name] =
               IF Step.group \in Baseline[Step.name] THEN @ \cup {Step.group} ELSE @ \ {Step.group}])
  /\ UNCHANGED <<fresh, created, operated>>

\* A user deleted in the meantime can be given no group.
SetsMember ==
  /\ Doing("member")
  /\ IF Step.name \notin dir.users /\ Step.group \in Baseline[Step.name] THEN Fails
     ELSE /\ Continue([dir EXCEPT !.member[Step.name] =
               IF Step.group \in Baseline[Step.name] THEN @ \cup {Step.group} ELSE @ \ {Step.group}])
          /\ operated' = operated \ {<<Step.name, Step.group>>}
          /\ UNCHANGED <<fresh, created>>

Disables ==
  /\ Doing("disable")
  /\ \/ /\ ~(fresh /\ Step.name \in Disabled)
        /\ Continue(dir) /\ UNCHANGED <<fresh, created, operated>>
     \/ /\ fresh /\ Step.name \in Disabled /\ Step.name \in dir.users
        /\ Continue([dir EXCEPT !.disabled = @ \cup {Step.name}])
        /\ operated' = operated \ {<<Step.name, "account">>}
        /\ UNCHANGED <<fresh, created>>
     \/ fresh /\ Step.name \in Disabled /\ Step.name \notin dir.users /\ Fails

DropsUser ==
  /\ Doing("drop_user")
  /\ Continue([dir EXCEPT !.users = @ \ {Step.name}, !.disabled = @ \ {Step.name},
                          !.member[Step.name] = {}])
  /\ UNCHANGED <<fresh, created, operated>>

DropsGroup ==
  /\ Doing("drop_group")
  /\ Continue([dir EXCEPT !.groups = @ \ {Step.name},
                          !.member = [u \in AllUsers |-> @[u] \ {Step.name}]])
  /\ UNCHANGED <<fresh, created, operated>>

\* A computer that exists stays where it is, unless it is a laptop.
PlacesComputer ==
  /\ Doing("computer")
  /\ Continue([dir EXCEPT !.place[Step.name] =
       IF @ = "none" \/ Step.name \in Laptops THEN Place[Step.name] ELSE @])
  /\ UNCHANGED <<fresh, created, operated>>

NestsAdmins ==
  /\ Doing("nest") /\ Continue([dir EXCEPT !.nested = TRUE])
  /\ UNCHANGED <<fresh, created, operated>>

\* Accounts' expiry, password and lock, and the password policy: the same at every boot.
Settles ==
  /\ Doing("settings")
  /\ IF Attended \subseteq dir.users
     THEN Continue([dir EXCEPT !.settings = TRUE]) /\ UNCHANGED <<fresh, created, operated>>
     ELSE Fails

Marks ==
  /\ Doing("marker")
  /\ marker' = TRUE /\ status' = "serving"
  /\ UNCHANGED <<domain, dir, pc, fresh, disturbances, created, cut, operated>>

Provisioning ==
  \/ MakesOu \/ MakesGroup \/ MakesUser \/ SetsMember \/ Disables \/ DropsUser \/ DropsGroup
  \/ PlacesComputer \/ NestsAdmins \/ Settles \/ Marks

-----------------------------------------------------------------------------
(* active_directory.py: samba-tool commands for operators, also while the script runs. *)

\* The directory becomes d, and until the script sets them again, the changed are the operator's.
Operates(d, changed) ==
  /\ status \in {"script", "serving"} /\ domain = "ready"
  /\ IF marker THEN UNCHANGED <<disturbances, operated>>
     ELSE /\ disturbances < MaxDisturbances /\ disturbances' = disturbances + 1
          /\ operated' = operated \cup changed
  /\ dir' = d
  /\ UNCHANGED <<status, domain, marker, pc, fresh, created, cut>>

Managed == dir.users \cap Range(Users)

OperatorSetsMember ==
  \E u \in Managed, g \in dir.groups \cap Range(Groups) :
    Operates([dir EXCEPT !.member[u] = IF g \in @ THEN @ \ {g} ELSE @ \cup {g}], {<<u, g>>})

OperatorSetsAccount ==
  \E u \in Managed :
    Operates([dir EXCEPT !.disabled = IF u \in @ THEN @ \ {u} ELSE @ \cup {u}], {<<u, "account">>})

AllOf(u) == {u} \X (Range(Groups) \cup {"user", "account"})

\* Only a disabled account is deleted.
OperatorDeletes ==
  \E u \in Managed \cap dir.disabled :
    Operates([dir EXCEPT !.users = @ \ {u}, !.disabled = @ \ {u}, !.member[u] = {}], AllOf(u))

\* The name of a deleted account is free for a new employee.  (The backend does not manage
\* that account any more; here operators may go on to change it.)
OperatorCreates ==
  \E u \in Range(Users) \ dir.users :
    /\ marker \/ <<u, "user">> \in operated
    /\ Operates([dir EXCEPT !.users = @ \cup {u}], AllOf(u))

Operate == OperatorSetsMember \/ OperatorSetsAccount \/ OperatorDeletes \/ OperatorCreates

Next == Boot \/ DomainCreated \/ NoDirectory \/ Crash \/ Provisioning \/ Operate

\* DC01 is started again after it went down, and a script that runs goes on.
Spec == Init /\ [][Next]_vars /\ WF_vars(Boot) /\ WF_vars(DomainCreated \/ NoDirectory \/ Provisioning)
-----------------------------------------------------------------------------
(* Properties *)

\* The directory keeps its types, its members are users and groups that exist, and nothing
\* is in it before the domain is ready.
TypeOK ==
  /\ status \in {"down", "creating", "script", "serving"}
  /\ domain \in {"absent", "partial", "ready"} /\ marker \in BOOLEAN /\ fresh \in BOOLEAN
  /\ pc \in 1..Len(Script) /\ disturbances \in 0..MaxDisturbances
  /\ created \subseteq Range(Users) /\ cut \subseteq created
  /\ operated \subseteq Range(Users) \X (Range(Groups) \cup {"user", "account"})
  /\ dir \in Directory /\ Consistent(dir)
  /\ domain # "ready" => dir = Empty /\ ~marker

\* provision: after whatever interruptions, and whatever operators did meanwhile, the marker is
\* set on a directory that is the baseline's: its users, its computers, nothing deprecated,
\* and exactly its memberships, but for users that an operator deleted and memberships that
\* one changed after the script had set them.  Under the marker no restart changes anything.
MarkedIsComplete ==
  [][/\ ~marker /\ marker' =>
          /\ dir.ous = Range(Ous)
          /\ Range(Groups) = dir.groups
          /\ dir.users \subseteq Range(Users)
          /\ \A u \in Range(Users) : u \in dir.users \/ <<u, "user">> \in operated
          /\ \A u \in Range(Users), g \in AllGroups :
               <<u, g>> \in operated \/ (g \in dir.member[u] <=> g \in Baseline[u])
          /\ \A c \in Range(Computers) : dir.place[c] # "none" /\ (c \in Laptops => dir.place[c] = Place[c])
          /\ dir.nested /\ dir.settings
     /\ marker /\ status # "serving" => dir' = dir]_vars

\* The users whose account an operator changed since the script disabled it.
Overruled == {u \in Range(Users) : <<u, "account">> \in operated}

\* provision: a former employee that a boot created is disabled when DC01 first serves,
\* whatever operators did during the turn, unless that boot was interrupted between the
\* creation and the end of the user's turn, or an operator changed the account after it.
FormerEmployeesAreDisabled ==
  [][~marker /\ marker' => (created \cap Disabled) \ (cut \cup Overruled) \subseteq dir.disabled]_vars

\* entrypoint.sh, provision: interrupted anywhere, the boot can be repeated and ends in a
\* DC01 that serves, unless it was the creation of the domain that was interrupted.
BootCompletes ==
  status = "down" ~> \/ status = "serving"
                     \/ domain = "partial" /\ status # "creating"
=============================================================================
