----------------------------- MODULE FileServer -----------------------------
(***************************************************************************)
(* FILE01: the container's service (containers/file-server/                *)
(* fileserver_api.py) and the backend's requests to it                     *)
(* (backend/app/services/fileserver.py).                                   *)
(*                                                                         *)
(* Every POST runs in a thread of its own; no lock is held over the ip     *)
(* commands or over the test and the start of smbd.  A backend that gives  *)
(* up after two seconds leaves its thread running.  The backend's requests *)
(* read first, await, and act or judge afterwards.                         *)
(*                                                                         *)
(* One smbd serves at a time: one that finds another's pid file or port    *)
(* taken ends.  smb_process is the last one started, so that the one that  *)
(* serves may be another: the orphan.  One user stands for all, requests   *)
(* about different users do not meet.                                      *)
(***************************************************************************)
EXTENDS Integers, Sequences, FiniteSets, Functions

CONSTANTS
  Shares,       \* names of the configured shares
  ReadGroups,   \* [Shares -> sequence of groups]
  WriteGroups,  \* [Shares -> sequence of groups]
  Requests      \* requests that may be in flight together

\* fileserver_shares.json: the groups are lists, and who may write a share may read it.
ASSUME GroupsAssumption ==
  \A s \in Shares : /\ ReadGroups[s] \in Seq(Range(ReadGroups[s]))
                    /\ Range(WriteGroups[s]) \subseteq Range(ReadGroups[s])

VARIABLES
  link,      \* eth1 is up
  route,     \* the route to 10.10.0.0/16 is installed
  smbd,      \* the smbd that serves: "none", "owned" by smb_process, or "orphan"
  dying,     \* it has been told to terminate
  disabled,  \* disabled_shares
  readOnly,  \* read_only_shares
  account,   \* the user in DC01: enabled, groups
  request,   \* each request: where it is and what it knows
  halfway    \* history: the interface was raised without its route

device == <<link, route, smbd, dying, disabled, readOnly>>
vars == <<device, account, request, halfway>>
-----------------------------------------------------------------------------
Groups == UNION {Range(ReadGroups[s]) : s \in Shares}
Idle   == [at |-> "idle"]

PlainFaults == {"offline", "online", "service-stop", "service-start"}
ShareFaults == {"share-disable", "share-enable", "read-only", "read-write"}

\* What a request is about, or changes.
Link    == <<"link", "none">>
Smb     == <<"smb", "none">>
Account == <<"account", "none">>
Members == <<"members", "none">>
All     == <<"all", "none">>

Target(do, s) ==
  CASE do \in {"offline", "online"}             -> Link
    [] do \in {"service-stop", "service-start"} -> Smb
    [] do \in {"share-disable", "share-enable"} -> <<"disabled", s>>
    [] do \in {"read-only", "read-write"}       -> <<"readOnly", s>>

\* smb_running
Running == smbd = "owned"

Init ==
  /\ link = TRUE /\ route = TRUE
  /\ smbd = "owned" /\ dying = FALSE
  /\ disabled = {} /\ readOnly = {}
  /\ account \in [enabled : BOOLEAN, groups : SUBSET Groups]
  /\ request = [r \in Requests |-> Idle]
  /\ halfway = FALSE
-----------------------------------------------------------------------------
(* Requests.  A request begins with its first reading, as it knows nothing      *)
(* before.  alone is history: nobody else has changed what it is about since.   *)
(* A request for smbd that finds an orphan, or one on its way down, is not so.   *)

InOrder(target) == target = Smb => smbd # "orphan" /\ ~dying

New(at, do, s, target) ==
  [at |-> at, do |-> do, share |-> s, target |-> target, changed |-> TRUE,
   alone |-> InOrder(target), ok |-> TRUE, seen |-> {}, left |-> {}]

Concerns(q, target) ==
  /\ q # Idle
  /\ q.target \in {target, All} \/ (q.target = Members /\ target = Account)

Disturbed(q, target) == IF Concerns(q, target) THEN [q EXCEPT !.alone = FALSE] ELSE q

\* The requests after request r has changed the target.
Noticed(r, target) ==
  [k \in Requests |-> IF k = r THEN request[k] ELSE Disturbed(request[k], target)]

Moves(r, at) == request' = [request EXCEPT ![r].at = at]
Ends(r)      == request' = [request EXCEPT ![r] = Idle]
At(r, at)    == request[r].at = at

Begins(r, q) ==
  /\ request[r] = Idle
  /\ request' = [request EXCEPT ![r] = q]
  /\ UNCHANGED <<device, account, halfway>>

\* fault.  Looking up the share before the POST tells nothing that changes.
FaultBegins(r) ==
  \/ \E do \in PlainFaults : Begins(r, New("act", do, "none", Target(do, "none")))
  \/ \E do \in ShareFaults, s \in Shares : Begins(r, New("act", do, s, Target(do, s)))

\* needs_change, of the four faults that remediate posts
Needed(do, s) ==
  CASE do = "online"        -> ~link
    [] do = "service-start" -> ~Running
    [] do = "share-enable"  -> s \in disabled
    [] do = "read-write"    -> s \in readOnly

\* remediate reads the status: the state is right already, or the fault is posted later.
Remediates(r, do, s) ==
  Begins(r, [New("act", do, s, Target(do, s)) EXCEPT
               !.changed = Needed(do, s), !.at = IF Needed(do, s) THEN "act" ELSE "done"])

RemediationBegins(r) ==
  \/ \E do \in {"online", "service-start"} : Remediates(r, do, "none")
  \/ \E do \in {"share-enable", "read-write"}, s \in Shares : Remediates(r, do, s)

\* An await that fails, or an answer that is late: the request ends where it is.
GivesUp(r) ==
  /\ request[r].at \in {"act", "status", "share", "list", "done"}
  /\ Ends(r)
  /\ UNCHANGED <<device, account, halfway>>
-----------------------------------------------------------------------------
(* The threads of the container: action.                                        *)

Acting(r, do) == At(r, "act") /\ request[r].do = do

\* An interface that goes down takes its route along.
Offline(r) ==
  /\ Acting(r, "offline")
  /\ link' = FALSE /\ route' = FALSE
  /\ request' = [Noticed(r, Link) EXCEPT ![r].at = "done"]
  /\ UNCHANGED <<smbd, dying, disabled, readOnly, account, halfway>>

\* online: the first command.
RaisesLink(r) ==
  /\ Acting(r, "online")
  /\ link' = TRUE
  /\ request' = [Noticed(r, Link) EXCEPT ![r].at = "route"]
  /\ UNCHANGED <<route, smbd, dying, disabled, readOnly, account, halfway>>

\* Mutant of SetsRoute: the route is left to the kernel.
ExpectsRoute(r) ==
  /\ At(r, "route") /\ link
  /\ halfway' = FALSE
  /\ Moves(r, "done")
  /\ UNCHANGED <<device, account>>

\* online: the second command; it needs the interface.
SetsRoute(r) ==
  /\ At(r, "route") /\ link
  /\ route' = TRUE /\ halfway' = FALSE
  /\ request' = [Noticed(r, Link) EXCEPT ![r].at = "done"]
  /\ UNCHANGED <<link, smbd, dying, disabled, readOnly, account>>

RouteFails(r) ==
  /\ At(r, "route") /\ Ends(r)
  /\ halfway' = TRUE
  /\ UNCHANGED <<device, account>>

\* stop_smb: the test.
TestsStop(r) ==
  /\ Acting(r, "service-stop")
  /\ Moves(r, IF Running THEN "terminate" ELSE "done")
  /\ UNCHANGED <<device, account, halfway>>

\* Mutant of Terminates: the process is signalled, whether it is there or not.
TerminatesAnyway(r) ==
  /\ At(r, "terminate")
  /\ dying' = TRUE
  /\ request' = [Noticed(r, Smb) EXCEPT ![r].at = "wait"]
  /\ UNCHANGED <<link, route, smbd, disabled, readOnly, account, halfway>>

\* stop_smb: SIGTERM to whatever smb_process is by now.
Terminates(r) ==
  /\ At(r, "terminate")
  /\ dying' = (dying \/ Running)
  /\ request' = [Noticed(r, Smb) EXCEPT ![r].at = "wait"]
  /\ UNCHANGED <<link, route, smbd, disabled, readOnly, account, halfway>>

\* Mutant of Waits: stop_smb does not wait for the end of the process.
WaitsNot(r) ==
  /\ At(r, "wait") /\ Moves(r, "done")
  /\ UNCHANGED <<device, account, halfway>>

Waits(r) ==
  /\ At(r, "wait") /\ ~Running /\ Moves(r, "done")
  /\ UNCHANGED <<device, account, halfway>>

\* TimeoutExpired after three seconds: an error, and the process may still end.
WaitExpires(r) ==
  /\ At(r, "wait") /\ Running /\ Ends(r)
  /\ UNCHANGED <<device, account, halfway>>

\* Mutant of TestsStart: every start opens a process.
StartsAnyway(r) ==
  /\ Acting(r, "service-start") /\ Moves(r, "spawn")
  /\ UNCHANGED <<device, account, halfway>>

\* start_smb: the test.
TestsStart(r) ==
  /\ Acting(r, "service-start")
  /\ Moves(r, IF Running THEN "done" ELSE "spawn")
  /\ UNCHANGED <<device, account, halfway>>

\* start_smb: Popen.  Of two that start together either may survive; an established one does.
Spawns(r) ==
  /\ At(r, "spawn")
  /\ \/ smbd = "none" /\ smbd' = "owned" /\ dying' = FALSE
     \/ smbd = "owned" /\ ~dying /\ UNCHANGED <<smbd, dying>>
     \/ smbd # "none" /\ smbd' = "orphan" /\ UNCHANGED dying
  /\ request' = [Noticed(r, Smb) EXCEPT ![r].at = "done"]
  /\ UNCHANGED <<link, route, disabled, readOnly, account, halfway>>

\* A process that was told to terminate ends.
SmbdEnds ==
  /\ dying
  /\ smbd' = "none" /\ dying' = FALSE
  /\ request' = [k \in Requests |-> Disturbed(request[k], All)]
  /\ UNCHANGED <<link, route, disabled, readOnly, account, halfway>>

\* smbd ends by itself, soon after its start or later.
SmbdFails ==
  /\ smbd # "none" /\ ~dying
  /\ smbd' = "none"
  /\ request' = [k \in Requests |-> Disturbed(request[k], Smb)]
  /\ UNCHANGED <<link, route, dying, disabled, readOnly, account, halfway>>

Toggled(set, s, on) == IF on THEN set \cup {s} ELSE set \ {s}

\* The four changes of a share.
SetsShare(r) ==
  LET q == request[r] IN
  /\ At(r, "act") /\ q.do \in ShareFaults
  /\ disabled' = IF q.do \in {"share-disable", "share-enable"}
                 THEN Toggled(disabled, q.share, q.do = "share-disable") ELSE disabled
  /\ readOnly' = IF q.do \in {"read-only", "read-write"}
                 THEN Toggled(readOnly, q.share, q.do = "read-only") ELSE readOnly
  /\ request' = [Noticed(r, q.target) EXCEPT ![r].at = "done"]
  /\ UNCHANGED <<link, route, smbd, dying, account, halfway>>

ContainerStep(r) ==
  \/ Offline(r) \/ RaisesLink(r) \/ SetsRoute(r) \/ RouteFails(r)
  \/ TestsStop(r) \/ Terminates(r) \/ Waits(r) \/ WaitExpires(r)
  \/ TestsStart(r) \/ Spawns(r) \/ SetsShare(r)
-----------------------------------------------------------------------------
(* Access: user -> group -> share. *)

Required(s, op) == Range(IF op = "write" THEN WriteGroups[s] ELSE ReadGroups[s])

\* access_check reads the directory, then the status, then the share.
CheckBegins(r) ==
  \E op \in {"read", "write"}, s \in Shares :
    Begins(r, [New("status", op, s, All) EXCEPT
      !.ok = account.enabled /\ account.groups \cap Required(s, op) # {}])

ChecksStatus(r) ==
  /\ At(r, "status")
  /\ request' = [request EXCEPT ![r].at = "share", ![r].ok = @ /\ link /\ Running]
  /\ UNCHANGED <<device, account, halfway>>

ChecksShare(r) ==
  LET q == request[r] IN
  /\ At(r, "share")
  /\ request' = [request EXCEPT ![r].at = "done",
       ![r].ok = @ /\ q.share \notin disabled /\ (q.do = "write" => q.share \notin readOnly)]
  /\ UNCHANGED <<device, account, halfway>>

Listing(s) == [New("list", "list", s, Members) EXCEPT !.left = Range(ReadGroups[s])]

\* effective_access by itself.
ListBegins(r) == \E s \in Shares : Begins(r, Listing(s))

\* membership_action: one command, for a group of the share only; then the list is read,
\* unless the answer of the command is lost.
ChangesMembership(r) ==
  /\ request[r] = Idle
  /\ \E s \in Shares, add \in BOOLEAN : \E g \in Range(ReadGroups[s]), q \in {Idle, Listing(s)} :
       /\ account' = [account EXCEPT !.groups = Toggled(@, g, add)]
       /\ request' = [Noticed(r, Account) EXCEPT ![r] = q]
  /\ UNCHANGED <<device, halfway>>

\* One of the listmembers commands, in any order.
ListsGroup(r) ==
  /\ At(r, "list")
  /\ \E g \in request[r].left :
       request' = [request EXCEPT ![r].left = @ \ {g},
                                  ![r].seen = IF g \in account.groups THEN @ \cup {g} ELSE @]
  /\ UNCHANGED <<device, account, halfway>>

ListComplete(r) ==
  /\ At(r, "list") /\ request[r].left = {} /\ Moves(r, "done")
  /\ UNCHANGED <<device, account, halfway>>

GroupLevel(s, g) == IF g \in Range(WriteGroups[s]) THEN "Read/Write" ELSE "Read"

\* Mutant of Level: the level of the group that comes last.
LevelOfLast(s, seen) ==
  LET last[i \in 0..Len(ReadGroups[s])] ==
        IF i = 0 THEN "none"
        ELSE IF ReadGroups[s][i] \in seen THEN GroupLevel(s, ReadGroups[s][i]) ELSE last[i - 1]
  IN last[Len(ReadGroups[s])]

\* effective: Read/Write is kept, anything else is replaced by the level of the group.
Level(s, seen) ==
  LET level[i \in 0..Len(ReadGroups[s])] ==
        IF i = 0 THEN "none"
        ELSE IF ReadGroups[s][i] \notin seen \/ level[i - 1] = "Read/Write" THEN level[i - 1]
        ELSE GroupLevel(s, ReadGroups[s][i])
  IN level[Len(ReadGroups[s])]
-----------------------------------------------------------------------------
\* infrastructure_action on FILE01 raises or lowers the interface and knows no route.
Infrastructure(up) ==
  /\ link' = up /\ route' = (route /\ up)
  /\ halfway' = (halfway \/ (up /\ ~link))
  /\ request' = [k \in Requests |-> Disturbed(request[k], Link)]
  /\ UNCHANGED <<smbd, dying, disabled, readOnly, account>>

\* user_action: enable, disable.
UserAction ==
  /\ account' = [account EXCEPT !.enabled = ~@]
  /\ request' = [k \in Requests |-> Disturbed(request[k], All)]
  /\ UNCHANGED <<device, halfway>>

Next ==
  \/ \E r \in Requests :
       \/ FaultBegins(r) \/ RemediationBegins(r) \/ GivesUp(r)
       \/ ContainerStep(r)
       \/ CheckBegins(r) \/ ChecksStatus(r) \/ ChecksShare(r)
       \/ ListBegins(r) \/ ChangesMembership(r)
       \/ ListsGroup(r) \/ ListComplete(r)
  \/ SmbdEnds \/ SmbdFails
  \/ \E up \in BOOLEAN : Infrastructure(up)
  \/ UserAction

Spec == Init /\ [][Next]_vars
-----------------------------------------------------------------------------
(* Properties *)

RequestType ==
  {Idle} \cup
  [at : {"act", "route", "terminate", "wait", "spawn", "status", "share", "list", "done"},
   do : PlainFaults \cup ShareFaults \cup {"read", "write", "list"},
   share : Shares \cup {"none"},
   target : {Link, Smb, All, Members} \cup ({"disabled", "readOnly"} \X Shares),
   changed : BOOLEAN, alone : BOOLEAN, ok : BOOLEAN,
   seen : SUBSET Groups, left : SUBSET Groups]

\* The device and the requests keep their types; a route needs the interface, and only a
\* process that exists can be dying.
TypeOK ==
  /\ link \in BOOLEAN /\ route \in BOOLEAN /\ (route => link)
  /\ smbd \in {"none", "owned", "orphan"} /\ dying \in BOOLEAN /\ (dying => smbd # "none")
  /\ disabled \subseteq Shares /\ readOnly \subseteq Shares
  /\ account \in [enabled : BOOLEAN, groups : SUBSET Groups]
  /\ request \in [Requests -> RequestType]
  /\ halfway \in BOOLEAN

\* What the reply to a fault or a remediation says of the device.
Holds(q) ==
  CASE q.do = "offline"       -> ~link
    [] q.do = "online"        -> link /\ (q.changed => route)
    [] q.do = "service-stop"  -> smbd = "none"
    [] q.do = "service-start" -> smbd = "owned" /\ ~dying
    [] q.do = "share-disable" -> q.share \in disabled
    [] q.do = "share-enable"  -> q.share \notin disabled
    [] q.do = "read-only"     -> q.share \in readOnly
    [] q.do = "read-write"    -> q.share \notin readOnly

\* action, fault, remediate: the reply to a request that nobody disturbed is true, whether
\* the state was changed or said to be right already, after any history of races and failures.
UndisturbedReplyIsTrue ==
  \A r \in Requests :
    At(r, "done") /\ request[r].do \in PlainFaults \cup ShareFaults /\ request[r].alone
      => Holds(request[r])

\* start_smb and stop_smb: smb_process remains the smbd that serves; it is lost only to a
\* start that another request for smbd disturbed between its test and its Popen.
OrphanOnlyAfterRace ==
  [][smbd # "orphan" /\ smbd' = "orphan"
       => \E r \in Requests : At(r, "spawn") /\ ~request[r].alone /\ request'[r].at = "done"]_vars

\* An interface that is up has its route to the lab, unless the last restoration ended
\* half-way or was the infrastructure one: then "online" is reported, and nothing is mended.
OnlineIsRouted ==
  link /\ ~halfway /\ (\A r \in Requests : ~At(r, "route")) => route

\* access_check and effective_access: readings at several moments amount to one when nothing
\* changed between them.  The list then names the groups of the user, and the check grants
\* what device and share allow to the level that the list computes from these groups.
AccessIsDecidedAsListed ==
  \A r \in Requests :
    LET q == request[r]  level == Level(q.share, account.groups) IN
    At(r, "done") /\ q.alone =>
      /\ q.do = "list" => q.seen = account.groups \cap Range(ReadGroups[q.share])
      /\ q.do \in {"read", "write"} /\ smbd # "orphan" /\ ~dying =>
           (q.ok <=> /\ account.enabled /\ link /\ smbd # "none" /\ q.share \notin disabled
                     /\ IF q.do = "read" THEN level # "none"
                        ELSE level = "Read/Write" /\ q.share \notin readOnly)
=============================================================================
