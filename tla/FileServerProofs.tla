-------------------------- MODULE FileServerProofs --------------------------
(***************************************************************************)
(* Theorems about FileServer, for all shares, groups and numbers of        *)
(* requests in flight.  What an undisturbed request knows of the device    *)
(* and of the directory is true at every moment of its life (Knows); a     *)
(* step of another request keeps it so, because whoever changes a thing    *)
(* disturbs those that are about it (NoticeSound).  Both are stated of one *)
(* request q and of the state d that it knows.                             *)
(***************************************************************************)
EXTENDS FileServer, SequenceTheorems, WellFoundedInduction, TLAPS

\* The state that requests are about.
Now == [link |-> link, route |-> route, smbd |-> smbd, dying |-> dying,
        disabled |-> disabled, readOnly |-> readOnly,
        enabled |-> account.enabled, groups |-> account.groups]

Live ==
  [at : {"act", "route", "terminate", "wait", "spawn", "status", "share", "list", "done"},
   do : PlainFaults \cup ShareFaults \cup {"read", "write", "list"},
   share : Shares \cup {"none"},
   target : {Link, Smb, All, Members} \cup ({"disabled", "readOnly"} \X Shares),
   changed : BOOLEAN, alone : BOOLEAN, ok : BOOLEAN,
   seen : SUBSET Groups, left : SUBSET Groups]

\* Where a request can be follows from what it does, and so does its target.
WellFormed(q) ==
  \/ q = Idle
  \/ /\ q \in Live
     /\ q.do \in PlainFaults => q.target = Target(q.do, "none")
     /\ q.do \in ShareFaults => q.share \in Shares /\ q.target = Target(q.do, q.share)
     /\ q.do \in {"read", "write"} => q.share \in Shares /\ q.target = All
     /\ q.do = "list" => q.share \in Shares /\ q.target = Members
     /\ q.at = "act"                  => q.do \in PlainFaults \cup ShareFaults
     /\ q.at = "route"                => q.do = "online"
     /\ q.at \in {"terminate", "wait"} => q.do = "service-stop"
     /\ q.at = "spawn"                => q.do = "service-start"
     /\ q.at \in {"status", "share"}  => q.do \in {"read", "write"}
     /\ q.at = "list"                 => q.do = "list"

\* What the directory allows.
Entitled(q, d) == d.enabled /\ d.groups \cap Required(q.share, q.do) # {}

\* What the share allows.
Permits(q, d) == q.share \notin d.disabled /\ (q.do = "write" => q.share \notin d.readOnly)

KnowsFault(q, d) ==
  /\ q.do = "offline" /\ q.at = "done" => ~d.link
  /\ q.do = "online"  /\ q.at = "done" => d.link /\ (q.changed => d.route)
  /\ q.do = "service-stop" =>
       /\ q.at \in {"act", "terminate"} => d.smbd # "orphan" /\ ~d.dying
       /\ q.at = "terminate" => d.smbd = "owned"
       /\ q.at = "wait" => d.smbd = "none" \/ (d.smbd = "owned" /\ d.dying)
       /\ q.at = "done" => d.smbd = "none"
  /\ q.do = "service-start" =>
       /\ q.at = "act"   => d.smbd # "orphan" /\ ~d.dying
       /\ q.at = "spawn" => d.smbd = "none"
       /\ q.at = "done"  => d.smbd = "owned" /\ ~d.dying
  /\ q.at = "done" => /\ q.do = "share-disable" => q.share \in d.disabled
                      /\ q.do = "share-enable"  => q.share \notin d.disabled
                      /\ q.do = "read-only"     => q.share \in d.readOnly
                      /\ q.do = "read-write"    => q.share \notin d.readOnly

KnowsAccess(q, d) ==
  /\ q.do \in {"read", "write"} =>
       /\ q.at = "status" => (q.ok <=> Entitled(q, d))
       /\ q.at = "share"  => (q.ok <=> Entitled(q, d) /\ d.link /\ d.smbd = "owned")
       /\ q.at = "done"   => (q.ok <=> Entitled(q, d) /\ d.link /\ d.smbd = "owned" /\ Permits(q, d))
  /\ q.do = "list" =>
       /\ q.left \subseteq Range(ReadGroups[q.share])
       /\ q.seen = d.groups \cap (Range(ReadGroups[q.share]) \ q.left)
       /\ q.at = "done" => q.left = {}

\* What a request that nobody disturbed has set or read holds.
Knows(q, d) == q # Idle /\ q.alone => KnowsFault(q, d) /\ KnowsAccess(q, d)

Sound(q, d) == WellFormed(q) /\ Knows(q, d)

IInv == TypeOK /\ OnlineIsRouted /\ \A r \in Requests : Sound(request[r], Now)
-----------------------------------------------------------------------------
(* Requests *)

USE DEF Link, Smb, Account, Members, All, PlainFaults, ShareFaults

LEMMA LiveIsNotIdle == \A q \in Live : q # Idle
<1> SUFFICES ASSUME NEW q \in Live, q = Idle PROVE FALSE
  OBVIOUS
<1>1. q.at = "idle"
  BY DEF Idle
<1> QED BY <1>1 DEF Live

LEMMA IdleSound == \A d : Sound(Idle, d)
BY DEF Sound, WellFormed, Knows

\* Members of Live are all that the type of requests has besides Idle.
LEMMA SoundIsTyped == \A q : WellFormed(q) => q \in RequestType
BY DEF WellFormed, Live, RequestType

Targets == {Link, Smb, Account} \cup ({"disabled", "readOnly"} \X Shares)

\* From d to e nothing changes but the target.
OnlyChanges(target, d, e) ==
  /\ target # Link => e.link = d.link /\ e.route = d.route
  /\ target # Smb  => e.smbd = d.smbd /\ e.dying = d.dying
  /\ \A s \in Shares : target # <<"disabled", s>> => (s \in e.disabled <=> s \in d.disabled)
  /\ \A s \in Shares : target # <<"readOnly", s>> => (s \in e.readOnly <=> s \in d.readOnly)
  /\ target # Account => e.groups = d.groups
  /\ e.enabled = d.enabled

\* A request that is not concerned is left alone; the other one is not undisturbed any more.
LEMMA DisturbedForm ==
  ASSUME NEW q, WellFormed(q), q # Idle, NEW target
  PROVE  /\ WellFormed(Disturbed(q, target)) /\ Disturbed(q, target) # Idle
         /\ Disturbed(q, target).at = q.at
         /\ \/ ~Disturbed(q, target).alone
            \/ Disturbed(q, target) = q /\ q.target \notin {target, All}
                 /\ ~(q.target = Members /\ target = Account)
<1>1. q \in Live
  BY DEF WellFormed
<1>2. CASE Concerns(q, target)
  <2> DEFINE p == [q EXCEPT !.alone = FALSE]
  <2>1. /\ p \in Live /\ ~p.alone
        /\ p.at = q.at /\ p.do = q.do /\ p.share = q.share /\ p.target = q.target
    BY <1>1 DEF Live
  <2>2. Disturbed(q, target) = p
    BY <1>2 DEF Disturbed
  <2> HIDE DEF p
  <2>3. WellFormed(p)
    BY <2>1 DEF WellFormed
  <2> QED BY <2>1, <2>2, <2>3, LiveIsNotIdle
<1>3. CASE ~Concerns(q, target)
  BY <1>3 DEF Disturbed, Concerns
<1> QED BY <1>2, <1>3

\* A change of the target by another request, or from elsewhere.
LEMMA NoticeSound ==
  ASSUME NEW q, NEW d, NEW e, Sound(q, d), NEW target \in Targets, OnlyChanges(target, d, e)
  PROVE  Sound(Disturbed(q, target), e)
<1>1. CASE q = Idle
  BY <1>1, IdleSound DEF Disturbed, Concerns
<1>2. CASE q # Idle /\ ~Disturbed(q, target).alone
  BY <1>2, DisturbedForm DEF Sound, Knows
<1>3. CASE /\ q # Idle /\ q.alone /\ Disturbed(q, target) = q
           /\ q.target \notin {target, All} /\ ~(q.target = Members /\ target = Account)
  <2>1. WellFormed(q) /\ KnowsFault(q, d) /\ KnowsAccess(q, d) /\ q \in Live
    BY <1>3 DEF Sound, Knows, WellFormed
  <2>2. KnowsFault(q, e)
    <3>1. CASE q.do \in {"offline", "online"}
      BY <1>3, <2>1, <3>1 DEF KnowsFault, OnlyChanges, WellFormed, Target
    <3>2. CASE q.do \in {"service-stop", "service-start"}
      BY <1>3, <2>1, <3>2 DEF KnowsFault, OnlyChanges, WellFormed, Target
    <3>3. CASE q.do \in {"share-disable", "share-enable"}
      BY <1>3, <2>1, <3>3 DEF KnowsFault, OnlyChanges, WellFormed, Target
    <3>4. CASE q.do \in {"read-only", "read-write"}
      BY <1>3, <2>1, <3>4 DEF KnowsFault, OnlyChanges, WellFormed, Target
    <3>5. CASE q.do \in {"read", "write", "list"}
      BY <3>5 DEF KnowsFault
    <3> QED BY <2>1, <3>1, <3>2, <3>3, <3>4, <3>5 DEF Live
  <2>3. KnowsAccess(q, e)
    <3>1. q.do \notin {"read", "write"}
      BY <1>3, <2>1 DEF WellFormed
    <3>2. CASE q.do = "list"
      BY <1>3, <2>1, <3>2 DEF KnowsAccess, OnlyChanges, WellFormed
    <3> QED BY <3>1, <3>2 DEF KnowsAccess
  <2> QED BY <1>3, <2>1, <2>2, <2>3 DEF Sound, Knows
<1> QED BY <1>1, <1>2, <1>3, DisturbedForm DEF Sound

\* The end of smbd, or of the account's state, disturbs access checks only; requests for
\* smbd that began in order know of a process on its way down.
LEMMA AllSound ==
  ASSUME NEW q, NEW d, NEW e, Sound(q, d),
         e.link = d.link, e.route = d.route, e.disabled = d.disabled, e.readOnly = d.readOnly,
         e.groups = d.groups,
         \/ e.smbd = d.smbd /\ e.dying = d.dying
         \/ d.dying /\ e.smbd = "none" /\ ~e.dying
  PROVE  Sound(Disturbed(q, All), e)
<1>1. CASE q = Idle
  BY <1>1, IdleSound DEF Disturbed, Concerns
<1>2. CASE q # Idle /\ ~Disturbed(q, All).alone
  BY <1>2, DisturbedForm DEF Sound, Knows
<1>3. CASE q # Idle /\ q.alone /\ Disturbed(q, All) = q /\ q.target # All
  <2>1. WellFormed(q) /\ KnowsFault(q, d) /\ KnowsAccess(q, d) /\ q \in Live
    BY <1>3 DEF Sound, Knows, WellFormed
  <2>2. KnowsFault(q, e)
    BY <2>1 DEF KnowsFault, WellFormed, Live
  <2>3. KnowsAccess(q, e)
    BY <1>3, <2>1 DEF KnowsAccess, WellFormed
  <2> QED BY <1>3, <2>1, <2>2, <2>3 DEF Sound, Knows
<1> QED BY <1>1, <1>2, <1>3, DisturbedForm DEF Sound
-----------------------------------------------------------------------------
(* One request *)

Moved(q, at) == [q EXCEPT !.at = at]

SmbdTyped(d) == d.smbd \in {"none", "owned", "orphan"} /\ (d.dying => d.smbd # "none")

LEMMA MovedForm ==
  ASSUME NEW q \in Live,
         NEW at \in {"act", "route", "terminate", "wait", "spawn", "status", "share", "list", "done"}
  PROVE  LET p == Moved(q, at) IN
         /\ p \in Live /\ p # Idle /\ p.at = at
         /\ p.do = q.do /\ p.share = q.share /\ p.target = q.target /\ p.changed = q.changed
         /\ p.alone = q.alone /\ p.ok = q.ok /\ p.seen = q.seen /\ p.left = q.left
<1> DEFINE p == Moved(q, at)
<1>1. /\ p \in Live /\ p.at = at
      /\ p.do = q.do /\ p.share = q.share /\ p.target = q.target /\ p.changed = q.changed
      /\ p.alone = q.alone /\ p.ok = q.ok /\ p.seen = q.seen /\ p.left = q.left
  BY DEF Moved, Live
<1> HIDE DEF p
<1> QED BY <1>1, LiveIsNotIdle DEF p

\* What the thread of a fault does next, and what it leaves of the state.
FaultMoves(q, d, e, at) ==
  \/ q.do = "offline" /\ q.at = "act" /\ at = "done" /\ ~e.link
  \/ q.do = "online" /\ q.at = "act" /\ at = "route"
  \/ q.do = "online" /\ q.at = "route" /\ at = "done" /\ e.link /\ e.route
  \/ q.do = "service-stop" /\ q.at = "act" /\ e = d
       /\ at = IF d.smbd = "owned" THEN "terminate" ELSE "done"
  \/ q.do = "service-stop" /\ q.at = "terminate" /\ at = "wait"
       /\ e.smbd = d.smbd /\ (d.smbd = "owned" => e.dying)
  \/ q.do = "service-stop" /\ q.at = "wait" /\ at = "done" /\ e = d /\ d.smbd # "owned"
  \/ q.do = "service-start" /\ q.at = "act" /\ e = d
       /\ at = IF d.smbd = "owned" THEN "done" ELSE "spawn"
  \/ q.do = "service-start" /\ q.at = "spawn" /\ at = "done"
       /\ (d.smbd = "none" => e.smbd = "owned" /\ ~e.dying)
  \/ q.do \in ShareFaults /\ q.at = "act" /\ at = "done"
       /\ (q.do = "share-disable" => q.share \in e.disabled)
       /\ (q.do = "share-enable"  => q.share \notin e.disabled)
       /\ (q.do = "read-only"     => q.share \in e.readOnly)
       /\ (q.do = "read-write"    => q.share \notin e.readOnly)

LEMMA FaultSound ==
  ASSUME NEW q, NEW d, NEW e, NEW at, Sound(q, d), q # Idle, SmbdTyped(d), FaultMoves(q, d, e, at)
  PROVE  Sound(Moved(q, at), e)
<1> DEFINE p == Moved(q, at)
<1>1. q \in Live /\ WellFormed(q)
  BY DEF Sound, WellFormed
<1>2. at \in {"route", "terminate", "wait", "spawn", "done"} /\ q.do \in PlainFaults \cup ShareFaults
  BY DEF FaultMoves
<1>3. /\ p \in Live /\ p # Idle /\ p.at = at
      /\ p.do = q.do /\ p.share = q.share /\ p.target = q.target /\ p.changed = q.changed
      /\ p.alone = q.alone
  BY <1>1, <1>2, MovedForm
<1> HIDE DEF p
<1>4. WellFormed(p)
  BY <1>1, <1>2, <1>3 DEF WellFormed, FaultMoves
<1>5. ASSUME q.alone PROVE KnowsFault(p, e)
  <2>1. KnowsFault(q, d)
    BY <1>5 DEF Sound, Knows
  <2>2. CASE q.do \in {"offline", "online"}
    BY <1>3, <2>2 DEF KnowsFault, FaultMoves
  <2>3. CASE q.do = "service-stop"
    BY <1>3, <2>1, <2>3 DEF KnowsFault, FaultMoves, SmbdTyped
  <2>4. CASE q.do = "service-start"
    BY <1>3, <2>1, <2>4 DEF KnowsFault, FaultMoves, SmbdTyped
  <2>5. CASE q.do \in ShareFaults
    BY <1>3, <2>5 DEF KnowsFault, FaultMoves
  <2> QED BY <1>2, <2>2, <2>3, <2>4, <2>5
<1>6. KnowsAccess(p, e)
  BY <1>2, <1>3 DEF KnowsAccess
<1> QED BY <1>3, <1>4, <1>5, <1>6 DEF Sound, Knows, p

\* The readings of an access check and of a listing.
LEMMA StatusSound ==
  ASSUME NEW q, NEW d, Sound(q, d), q # Idle, q.at = "status",
         NEW up \in BOOLEAN, up <=> d.link /\ d.smbd = "owned"
  PROVE  Sound([q EXCEPT !.at = "share", !.ok = @ /\ up], d)
<1> DEFINE p == [q EXCEPT !.at = "share", !.ok = @ /\ up]
<1>1. q \in Live /\ q.do \in {"read", "write"} /\ q.share \in Shares /\ q.target = All
  BY DEF Sound, WellFormed
<1>2. /\ p \in Live /\ p.at = "share" /\ p.do = q.do /\ p.share = q.share /\ p.target = q.target
      /\ p.alone = q.alone /\ (p.ok <=> q.ok /\ up)
  BY <1>1 DEF Live
<1> HIDE DEF p
<1>3. WellFormed(p) /\ KnowsFault(p, d)
  BY <1>1, <1>2 DEF WellFormed, KnowsFault
<1>4. ASSUME p.alone PROVE KnowsAccess(p, d)
  BY <1>1, <1>2, <1>4 DEF Sound, Knows, KnowsAccess, Entitled
<1> QED BY <1>3, <1>4 DEF Sound, Knows, p

LEMMA ShareSound ==
  ASSUME NEW q, NEW d, Sound(q, d), q # Idle, q.at = "share"
  PROVE  Sound([q EXCEPT !.at = "done", !.ok = @ /\ q.share \notin d.disabled
                                                 /\ (q.do = "write" => q.share \notin d.readOnly)], d)
<1> DEFINE p == [q EXCEPT !.at = "done", !.ok = @ /\ q.share \notin d.disabled
                                                 /\ (q.do = "write" => q.share \notin d.readOnly)]
<1>1. q \in Live /\ q.do \in {"read", "write"} /\ q.share \in Shares /\ q.target = All
  BY DEF Sound, WellFormed
<1>2. /\ p \in Live /\ p.at = "done" /\ p.do = q.do /\ p.share = q.share /\ p.target = q.target
      /\ p.alone = q.alone /\ (p.ok <=> q.ok /\ Permits(q, d))
  BY <1>1 DEF Live, Permits
<1> HIDE DEF p
<1>3. WellFormed(p) /\ KnowsFault(p, d)
  BY <1>1, <1>2 DEF WellFormed, KnowsFault
<1>4. ASSUME p.alone PROVE KnowsAccess(p, d)
  BY <1>1, <1>2, <1>4 DEF Sound, Knows, KnowsAccess, Entitled, Permits
<1> QED BY <1>3, <1>4 DEF Sound, Knows, p

LEMMA ListsSound ==
  ASSUME NEW q, NEW d, Sound(q, d), q # Idle, q.at = "list", NEW g \in q.left
  PROVE  Sound([q EXCEPT !.left = @ \ {g}, !.seen = IF g \in d.groups THEN @ \cup {g} ELSE @], d)
<1> DEFINE p == [q EXCEPT !.left = @ \ {g}, !.seen = IF g \in d.groups THEN @ \cup {g} ELSE @]
<1>1. /\ q \in Live /\ q.do = "list" /\ q.share \in Shares /\ q.target = Members
      /\ q.left \subseteq Groups /\ q.seen \subseteq Groups
  BY DEF Sound, WellFormed, Live
<1>2. /\ p \in Live /\ p.at = "list" /\ p.do = q.do /\ p.share = q.share /\ p.target = q.target
      /\ p.alone = q.alone /\ p.left = q.left \ {g}
      /\ p.seen = IF g \in d.groups THEN q.seen \cup {g} ELSE q.seen
  <2>1. /\ (q.left \ {g}) \in SUBSET Groups
        /\ (IF g \in d.groups THEN q.seen \cup {g} ELSE q.seen) \in SUBSET Groups
    BY <1>1
  <2> QED BY <1>1, <2>1 DEF Live
<1> HIDE DEF p
<1>3. WellFormed(p) /\ KnowsFault(p, d)
  BY <1>1, <1>2 DEF WellFormed, KnowsFault
<1>4. ASSUME p.alone PROVE KnowsAccess(p, d)
  <2>1. /\ q.left \subseteq Range(ReadGroups[q.share])
        /\ q.seen = d.groups \cap (Range(ReadGroups[q.share]) \ q.left)
    BY <1>1, <1>2, <1>4 DEF Sound, Knows, KnowsAccess
  <2> QED BY <1>1, <1>2, <2>1 DEF KnowsAccess
<1> QED BY <1>3, <1>4 DEF Sound, Knows, p

LEMMA ListedSound ==
  ASSUME NEW q, NEW d, Sound(q, d), q # Idle, q.at = "list", q.left = {}
  PROVE  Sound(Moved(q, "done"), d)
<1> DEFINE p == Moved(q, "done")
<1>1. q \in Live /\ q.do = "list" /\ q.share \in Shares /\ q.target = Members
  BY DEF Sound, WellFormed
<1>2. /\ p \in Live /\ p.at = "done" /\ p.do = q.do /\ p.share = q.share /\ p.target = q.target
      /\ p.alone = q.alone /\ p.left = q.left /\ p.seen = q.seen
  BY <1>1, MovedForm
<1> HIDE DEF p
<1>3. WellFormed(p) /\ KnowsFault(p, d)
  BY <1>1, <1>2 DEF WellFormed, KnowsFault
<1>4. ASSUME p.alone PROVE KnowsAccess(p, d)
  BY <1>1, <1>2, <1>4 DEF Sound, Knows, KnowsAccess
<1> QED BY <1>3, <1>4 DEF Sound, Knows, p
-----------------------------------------------------------------------------
(* Steps *)

\* The type invariant, without the requests.
StateOK ==
  /\ link \in BOOLEAN /\ route \in BOOLEAN /\ (route => link)
  /\ smbd \in {"none", "owned", "orphan"} /\ dying \in BOOLEAN /\ (dying => smbd # "none")
  /\ disabled \subseteq Shares /\ readOnly \subseteq Shares
  /\ account \in [enabled : BOOLEAN, groups : SUBSET Groups]
  /\ halfway \in BOOLEAN

LEMMA NowFields ==
  /\ Now.link = link /\ Now.route = route /\ Now.smbd = smbd /\ Now.dying = dying
  /\ Now.disabled = disabled /\ Now.readOnly = readOnly
  /\ Now.enabled = account.enabled /\ Now.groups = account.groups
  /\ Now'.link = link' /\ Now'.route = route' /\ Now'.smbd = smbd' /\ Now'.dying = dying'
  /\ Now'.disabled = disabled' /\ Now'.readOnly = readOnly'
  /\ Now'.enabled = account'.enabled /\ Now'.groups = account'.groups
BY DEF Now

\* The requests after request r has become p and has changed the target.
After(r, p, target) ==
  [k \in Requests |-> IF k = r THEN p ELSE Disturbed(request[k], target)]

\* Nobody who is not told of it moves: a disturbed request stays where it is.
LEMMA DisturbedStays ==
  ASSUME NEW q, WellFormed(q), NEW target
  PROVE  Disturbed(q, target).at = q.at
<1>1. CASE q = Idle
  BY <1>1 DEF Disturbed, Concerns
<1> QED BY <1>1, DisturbedForm

LEMMA Assemble ==
  ASSUME StateOK', OnlineIsRouted', DOMAIN request' = Requests,
         request' = [r \in Requests |-> request'[r]],
         \A r \in Requests : Sound(request'[r], Now')
  PROVE  IInv'
<1>1. \A r \in Requests : request'[r] \in RequestType
  BY SoundIsTyped DEF Sound
<1>2. request' \in [Requests -> RequestType]
  BY <1>1
<1>3. TypeOK'
  BY <1>2 DEF StateOK, TypeOK
<1> QED BY <1>3 DEF IInv

\* Why the route is there after a step, or need not be.
Excused(r, p) ==
  \/ ~link' \/ route' \/ halfway' \/ p.at = "route"
  \/ UNCHANGED <<link, route, halfway>> /\ request[r].at # "route"

\* A step of request r that changes the target.
LEMMA Change ==
  ASSUME IInv, StateOK', NEW r \in Requests, NEW p, NEW target \in Targets,
         request' = After(r, p, target), OnlyChanges(target, Now, Now'),
         Sound(p, Now'), Excused(r, p)
  PROVE  IInv'
<1>1. DOMAIN request' = Requests /\ request' = [k \in Requests |-> request'[k]]
  BY DEF After
<1>2. \A k \in Requests : Sound(request[k], Now) /\ WellFormed(request[k])
  BY DEF IInv, Sound
<1>3. /\ request'[r] = p
      /\ \A k \in Requests : k # r => request'[k] = Disturbed(request[k], target)
  BY DEF After
<1>4. \A k \in Requests : k # r => Sound(request'[k], Now')
  BY <1>2, <1>3, NoticeSound
<1>5. \A k \in Requests : Sound(request'[k], Now')
  BY <1>3, <1>4
<1>6. OnlineIsRouted'
  <2>1. \A k \in Requests : k # r => request'[k].at = request[k].at
    BY <1>2, <1>3, DisturbedStays
  <2> QED BY <1>3, <2>1 DEF Excused, OnlineIsRouted, At, IInv
<1> QED BY <1>1, <1>5, <1>6, Assemble

\* A step of request r that changes nothing it could tell of.
LEMMA MoveOn ==
  ASSUME IInv, NEW r \in Requests, NEW p, request' = [request EXCEPT ![r] = p],
         UNCHANGED <<device, account>>, halfway' \in BOOLEAN, Sound(p, Now), Excused(r, p)
  PROVE  IInv'
<1>1. request \in [Requests -> RequestType] /\ \A k \in Requests : Sound(request[k], Now)
  BY DEF IInv, TypeOK
<1>2. /\ DOMAIN request' = Requests /\ request' = [k \in Requests |-> request'[k]]
      /\ request'[r] = p /\ \A k \in Requests : k # r => request'[k] = request[k]
  BY <1>1
<1>3. Now' = Now
  BY DEF Now, device
<1>4. \A k \in Requests : Sound(request'[k], Now')
  BY <1>1, <1>2, <1>3
<1>5. StateOK'
  BY DEF IInv, TypeOK, StateOK, device
<1>6. OnlineIsRouted'
  BY <1>2 DEF Excused, OnlineIsRouted, At, IInv
<1> QED BY <1>2, <1>4, <1>5, <1>6, Assemble

\* A step from elsewhere that changes the target, or the account or smbd as a whole.
LEMMA External ==
  ASSUME IInv, StateOK', NEW target,
         request' = [k \in Requests |-> Disturbed(request[k], target)],
         \A k \in Requests : Sound(Disturbed(request[k], target), Now'),
         ~link' \/ halfway' \/ UNCHANGED <<link, route, halfway>>
  PROVE  IInv'
<1>1. /\ DOMAIN request' = Requests /\ request' = [k \in Requests |-> request'[k]]
      /\ \A k \in Requests : Sound(request'[k], Now')
  OBVIOUS
<1>2. \A k \in Requests : request'[k].at = request[k].at
  BY DisturbedStays DEF IInv, Sound
<1>3. OnlineIsRouted'
  BY <1>2 DEF OnlineIsRouted, At, IInv
<1> QED BY <1>1, <1>3, Assemble
-----------------------------------------------------------------------------
(* Beginnings *)

\* The targets of the faults.
LEMMA TargetType ==
  /\ \A do \in PlainFaults : Target(do, "none") = IF do \in {"offline", "online"} THEN Link ELSE Smb
  /\ \A do \in ShareFaults, s \in Shares :
       Target(do, s) = IF do \in {"share-disable", "share-enable"} THEN <<"disabled", s>>
                                                                  ELSE <<"readOnly", s>>
BY DEF Target

\* A fault, or a remediation, that finds what it needs.
LEMMA FaultBeginSound ==
  ASSUME NEW do \in PlainFaults \cup ShareFaults, NEW s \in Shares \cup {"none"},
         IF do \in PlainFaults THEN s = "none" ELSE s \in Shares,
         NEW p \in Live, p.do = do, p.share = s, p.target = Target(do, s),
         p.alone = InOrder(Target(do, s)), p.at = IF p.changed THEN "act" ELSE "done",
         ~p.changed => do \in {"online", "service-start", "share-enable", "read-write"} /\ ~Needed(do, s)
  PROVE  Sound(p, Now)
<1>1. WellFormed(p)
  BY DEF WellFormed
<1>2. ASSUME p.alone PROVE KnowsFault(p, Now)
  <2>1. CASE do \in PlainFaults
    BY <1>2, <2>1, TargetType, NowFields DEF KnowsFault, InOrder, Needed, Running
  <2>2. CASE do \in ShareFaults
    BY <2>2, NowFields DEF KnowsFault, Needed
  <2> QED BY <2>1, <2>2
<1>3. KnowsAccess(p, Now)
  BY DEF KnowsAccess
<1> QED BY <1>1, <1>2, <1>3 DEF Sound, Knows

LEMMA PostForm ==
  ASSUME NEW do \in PlainFaults \cup ShareFaults, NEW s \in Shares \cup {"none"},
         IF do \in PlainFaults THEN s = "none" ELSE s \in Shares
  PROVE  LET n == New("act", do, s, Target(do, s)) IN
         /\ n \in Live /\ n.at = "act" /\ n.do = do /\ n.share = s /\ n.target = Target(do, s)
         /\ n.changed = TRUE /\ n.alone = InOrder(Target(do, s))
<1>1. Target(do, s) \in {Link, Smb, All, Members} \cup ({"disabled", "readOnly"} \X Shares)
  BY TargetType
<1> HIDE DEF Link, Smb, All, Members
<1> QED BY <1>1 DEF New, Live, InOrder

\* A fault that is posted at once.
LEMMA PostSound ==
  ASSUME NEW do \in PlainFaults \cup ShareFaults, NEW s \in Shares \cup {"none"},
         IF do \in PlainFaults THEN s = "none" ELSE s \in Shares
  PROVE  Sound(New("act", do, s, Target(do, s)), Now)
<1> DEFINE n == New("act", do, s, Target(do, s))
<1>1. /\ n \in Live /\ n.at = "act" /\ n.do = do /\ n.share = s /\ n.target = Target(do, s)
      /\ n.changed = TRUE /\ n.alone = InOrder(Target(do, s))
  BY PostForm, ZenonT(30)
<1> HIDE DEF n
<1>2. Sound(n, Now)
  BY <1>1, FaultBeginSound
<1> QED BY <1>2 DEF n

\* A remediation, which has read whether the state needs a change.
LEMMA RemediationSound ==
  ASSUME NEW do \in PlainFaults \cup ShareFaults, NEW s \in Shares \cup {"none"},
         do \in {"online", "service-start", "share-enable", "read-write"},
         IF do \in PlainFaults THEN s = "none" ELSE s \in Shares
  PROVE  Sound([New("act", do, s, Target(do, s)) EXCEPT
                  !.changed = Needed(do, s), !.at = IF Needed(do, s) THEN "act" ELSE "done"], Now)
<1> DEFINE n == New("act", do, s, Target(do, s))
           p == [n EXCEPT !.changed = Needed(do, s), !.at = IF Needed(do, s) THEN "act" ELSE "done"]
<1>1. /\ n \in Live /\ n.at = "act" /\ n.do = do /\ n.share = s /\ n.target = Target(do, s)
      /\ n.changed = TRUE /\ n.alone = InOrder(Target(do, s))
  BY PostForm, ZenonT(30)
<1>2. Needed(do, s) \in BOOLEAN
  <2>1. CASE do = "online"
    BY <2>1 DEF Needed
  <2>2. CASE do = "service-start"
    BY <2>2 DEF Needed
  <2>3. CASE do = "share-enable"
    BY <2>3 DEF Needed
  <2>4. CASE do = "read-write"
    BY <2>4 DEF Needed
  <2> QED BY <2>1, <2>2, <2>3, <2>4
<1> HIDE DEF n
<1>3. /\ p \in Live /\ p.do = do /\ p.share = s /\ p.target = Target(do, s)
      /\ p.alone = InOrder(Target(do, s)) /\ p.changed = Needed(do, s)
      /\ p.at = IF p.changed THEN "act" ELSE "done"
  <2>1. CASE Needed(do, s) = TRUE
    <3>1. p = [n EXCEPT !.changed = TRUE, !.at = "act"]
      BY <2>1
    <3> HIDE DEF p
    <3> QED BY <1>1, <2>1, <3>1 DEF Live
  <2>2. CASE Needed(do, s) = FALSE
    <3>1. p = [n EXCEPT !.changed = FALSE, !.at = "done"]
      BY <2>2
    <3> HIDE DEF p
    <3> QED BY <1>1, <2>2, <3>1 DEF Live
  <2> QED BY <1>2, <2>1, <2>2
<1> HIDE DEF p
<1>4. Sound(p, Now)
  BY <1>3, FaultBeginSound
<1> QED BY <1>4 DEF p, n

LEMMA CheckSound ==
  ASSUME NEW op \in {"read", "write"}, NEW s \in Shares,
         NEW ok \in BOOLEAN, ok <=> account.enabled /\ account.groups \cap Required(s, op) # {}
  PROVE  Sound([New("status", op, s, All) EXCEPT !.ok = ok], Now)
<1> DEFINE n == New("status", op, s, All)
           p == [n EXCEPT !.ok = ok]
<1>0. All \in {Link, Smb, All, Members} \cup ({"disabled", "readOnly"} \X Shares)
  OBVIOUS
<1>1. n \in Live /\ n.at = "status" /\ n.do = op /\ n.share = s /\ n.target = All
  <2>1. op \in PlainFaults \cup ShareFaults \cup {"read", "write", "list"}
    OBVIOUS
  <2> HIDE DEF All, PlainFaults, ShareFaults
  <2> QED BY <1>0, <2>1 DEF New, Live, InOrder
<1> HIDE DEF n
<1>2. p \in Live /\ p.at = "status" /\ p.do = op /\ p.share = s /\ p.target = All /\ p.ok = ok
  BY <1>1 DEF Live
<1> HIDE DEF p
<1>3. WellFormed(p) /\ KnowsFault(p, Now)
  BY <1>2 DEF WellFormed, KnowsFault
<1>4. KnowsAccess(p, Now)
  BY <1>2, NowFields DEF KnowsAccess, Entitled
<1> QED BY <1>3, <1>4 DEF Sound, Knows, p, n

LEMMA ListingSound ==
  ASSUME NEW s \in Shares, NEW d
  PROVE  Sound(Listing(s), d)
<1> DEFINE n == New("list", "list", s, Members)
           p == [n EXCEPT !.left = Range(ReadGroups[s])]
<1>0. Members \in {Link, Smb, All, Members} \cup ({"disabled", "readOnly"} \X Shares)
  OBVIOUS
<1>1. n \in Live /\ n.at = "list" /\ n.do = "list" /\ n.share = s /\ n.target = Members /\ n.seen = {}
  <2>1. "list" \in PlainFaults \cup ShareFaults \cup {"read", "write", "list"}
    OBVIOUS
  <2> HIDE DEF Members, PlainFaults, ShareFaults
  <2> QED BY <1>0, <2>1 DEF New, Live, InOrder
<1>2. Range(ReadGroups[s]) \in SUBSET Groups
  BY DEF Groups
<1> HIDE DEF n
<1>3. /\ p \in Live /\ p.at = "list" /\ p.do = "list" /\ p.share = s /\ p.target = Members
      /\ p.seen = {} /\ p.left = Range(ReadGroups[s])
  BY <1>1, <1>2 DEF Live
<1> HIDE DEF p
<1>4. WellFormed(p) /\ KnowsFault(p, d) /\ KnowsAccess(p, d)
  BY <1>3 DEF WellFormed, KnowsFault, KnowsAccess
<1> QED BY <1>4 DEF Sound, Knows, p, n, Listing
-----------------------------------------------------------------------------
(* The actions *)

LEMMA NoticedForm ==
  ASSUME NEW r \in Requests, NEW target, NEW at, request' = [Noticed(r, target) EXCEPT ![r].at = at]
  PROVE  request' = After(r, Moved(request[r], at), target)
BY DEF Noticed, After, Moved

\* What is known before a step of request r.
Before(r) ==
  /\ Sound(request[r], Now) /\ SmbdTyped(Now) /\ StateOK
  /\ request[r] # Idle => request[r] \in Live /\ WellFormed(request[r])
  /\ request[r].at # "idle" => request[r] # Idle

LEMMA InvBefore == ASSUME IInv, NEW r \in Requests PROVE Before(r)
<1>1. Sound(request[r], Now) /\ StateOK
  BY DEF IInv, TypeOK, StateOK
<1>2. SmbdTyped(Now)
  BY <1>1, NowFields DEF SmbdTyped, StateOK
<1> QED BY <1>1, <1>2 DEF Before, Sound, WellFormed, Idle

\* A thread of the container that changes what its request is about.
LEMMA FaultChanges ==
  ASSUME IInv, NEW r \in Requests, NEW at, NEW target \in Targets, request[r].at # "idle",
         FaultMoves(request[r], Now, Now', at), OnlyChanges(target, Now, Now'), StateOK',
         request' = [Noticed(r, target) EXCEPT ![r].at = at],
         ~link' \/ route' \/ at = "route" \/ UNCHANGED <<link, route, halfway>>,
         request[r].at = "route" => route'
  PROVE  IInv'
<1>1. Before(r)
  BY InvBefore
<1>2. Sound(Moved(request[r], at), Now')
  BY <1>1, FaultSound DEF Before
<1>3. Moved(request[r], at).at = at
  BY <1>1 DEF Before, Moved, Live
<1>4. Excused(r, Moved(request[r], at))
  BY <1>3 DEF Excused
<1> QED BY <1>2, <1>4, NoticedForm, Change

\* A thread that only tests.
LEMMA FaultTests ==
  ASSUME IInv, NEW r \in Requests, NEW at, request[r].at \notin {"idle", "route"},
         FaultMoves(request[r], Now, Now, at), Moves(r, at), UNCHANGED <<device, account, halfway>>
  PROVE  IInv'
<1>1. Before(r)
  BY InvBefore
<1>2. Sound(Moved(request[r], at), Now)
  BY <1>1, FaultSound DEF Before
<1>3. request' = [request EXCEPT ![r] = Moved(request[r], at)]
  BY DEF Moves, Moved
<1>4. Excused(r, Moved(request[r], at)) /\ halfway' \in BOOLEAN
  BY <1>1 DEF Excused, Before, StateOK, device
<1> QED BY <1>2, <1>3, <1>4, MoveOn

LEMMA ContainerInv == ASSUME IInv, NEW r \in Requests, ContainerStep(r) PROVE IInv'
<1> DEFINE q == request[r]
<1>0. Before(r)
  BY InvBefore
<1>1. {Link, Smb} \subseteq Targets
  BY DEF Targets
<1>2. CASE Offline(r)
  <2>1. FaultMoves(q, Now, Now', "done") /\ OnlyChanges(Link, Now, Now')
    BY <1>2, NowFields DEF Offline, Acting, At, FaultMoves, OnlyChanges
  <2>2. StateOK'
    BY <1>0, <1>2 DEF Offline, Before, StateOK
  <2> QED BY <1>1, <1>2, <2>1, <2>2, FaultChanges DEF Offline, Acting, At
<1>3. CASE RaisesLink(r)
  <2>1. FaultMoves(q, Now, Now', "route") /\ OnlyChanges(Link, Now, Now')
    BY <1>3, NowFields DEF RaisesLink, Acting, At, FaultMoves, OnlyChanges
  <2>2. StateOK'
    BY <1>0, <1>3 DEF RaisesLink, Before, StateOK
  <2> QED BY <1>1, <1>3, <2>1, <2>2, FaultChanges DEF RaisesLink, Acting, At
<1>4. CASE SetsRoute(r)
  <2>1. q.do = "online" /\ q.at = "route" /\ link' /\ route'
    BY <1>0, <1>4 DEF SetsRoute, At, Before, WellFormed
  <2>2. FaultMoves(q, Now, Now', "done") /\ OnlyChanges(Link, Now, Now')
    BY <1>4, <2>1, NowFields DEF SetsRoute, FaultMoves, OnlyChanges
  <2>3. StateOK'
    BY <1>0, <1>4 DEF SetsRoute, Before, StateOK
  <2> QED BY <1>1, <1>4, <2>1, <2>2, <2>3, FaultChanges DEF SetsRoute
<1>5. CASE RouteFails(r)
  <2>1. request' = [request EXCEPT ![r] = Idle] /\ UNCHANGED <<device, account>> /\ halfway'
    BY <1>5 DEF RouteFails, Ends
  <2> QED BY <2>1, <1>5, IdleSound, MoveOn DEF RouteFails, Excused
<1>6. CASE TestsStop(r)
  <2> DEFINE at == IF Running THEN "terminate" ELSE "done"
  <2>1. FaultMoves(q, Now, Now, at) /\ Moves(r, at)
    BY <1>6, NowFields DEF TestsStop, Acting, At, FaultMoves, Running
  <2> HIDE DEF at
  <2> QED BY <1>6, <2>1, FaultTests DEF TestsStop, Acting, At
<1>7. CASE Terminates(r)
  <2>1. q.do = "service-stop" /\ q.at = "terminate"
    BY <1>0, <1>7 DEF Terminates, At, Before, WellFormed
  <2>2. FaultMoves(q, Now, Now', "wait") /\ OnlyChanges(Smb, Now, Now')
    BY <1>7, <2>1, NowFields DEF Terminates, FaultMoves, OnlyChanges, Running
  <2>3. StateOK'
    BY <1>0, <1>7 DEF Terminates, Before, StateOK, Running
  <2> QED BY <1>1, <1>7, <2>1, <2>2, <2>3, FaultChanges DEF Terminates
<1>8. CASE Waits(r)
  <2>1. q.do = "service-stop" /\ q.at = "wait"
    BY <1>0, <1>8 DEF Waits, At, Before, WellFormed
  <2>2. FaultMoves(q, Now, Now, "done")
    BY <1>8, <2>1, NowFields DEF Waits, FaultMoves, Running
  <2> QED BY <1>8, <2>1, <2>2, FaultTests DEF Waits
<1>9. CASE WaitExpires(r)
  <2>1. Excused(r, Idle) /\ halfway' \in BOOLEAN /\ request' = [request EXCEPT ![r] = Idle]
    BY <1>0, <1>9 DEF WaitExpires, At, Excused, Ends, Before, StateOK, device
  <2> QED BY <1>9, <2>1, IdleSound, MoveOn DEF WaitExpires
<1>10. CASE TestsStart(r)
  <2> DEFINE at == IF Running THEN "done" ELSE "spawn"
  <2>1. FaultMoves(q, Now, Now, at) /\ Moves(r, at)
    BY <1>10, NowFields DEF TestsStart, Acting, At, FaultMoves, Running
  <2> HIDE DEF at
  <2> QED BY <1>10, <2>1, FaultTests DEF TestsStart, Acting, At
<1>11. CASE Spawns(r)
  <2>1. q.do = "service-start" /\ q.at = "spawn"
    BY <1>0, <1>11 DEF Spawns, At, Before, WellFormed
  <2>2. FaultMoves(q, Now, Now', "done") /\ OnlyChanges(Smb, Now, Now')
    BY <1>11, <2>1, NowFields DEF Spawns, FaultMoves, OnlyChanges
  <2>3. StateOK'
    BY <1>0, <1>11 DEF Spawns, Before, StateOK
  <2> QED BY <1>1, <1>11, <2>1, <2>2, <2>3, FaultChanges DEF Spawns
<1>12. CASE SetsShare(r)
  <2>1. /\ q.at = "act" /\ q.do \in ShareFaults /\ q.share \in Shares
        /\ q.target = Target(q.do, q.share)
    BY <1>0, <1>12 DEF SetsShare, At, Before, WellFormed
  <2>2. q.target \in Targets
    BY <2>1, TargetType DEF Targets
  <2>3. FaultMoves(q, Now, Now', "done")
    BY <1>12, <2>1, NowFields DEF SetsShare, FaultMoves, Toggled
  <2>4. OnlyChanges(q.target, Now, Now')
    <3>1. CASE q.do \in {"share-disable", "share-enable"}
      BY <1>12, <2>1, <3>1, TargetType, NowFields DEF SetsShare, OnlyChanges, Toggled
    <3>2. CASE q.do \in {"read-only", "read-write"}
      BY <1>12, <2>1, <3>2, TargetType, NowFields DEF SetsShare, OnlyChanges, Toggled
    <3> QED BY <2>1, <3>1, <3>2
  <2>5. StateOK'
    BY <1>0, <1>12, <2>1 DEF SetsShare, Before, StateOK, Toggled
  <2> QED BY <1>12, <2>1, <2>2, <2>3, <2>4, <2>5, FaultChanges DEF SetsShare
<1> QED BY <1>2, <1>3, <1>4, <1>5, <1>6, <1>7, <1>8, <1>9, <1>10, <1>11, <1>12 DEF ContainerStep

\* A request that begins.
LEMMA BeginInv ==
  ASSUME IInv, NEW r \in Requests, NEW p, Begins(r, p), Sound(p, Now)
  PROVE  IInv'
<1>1. /\ request' = [request EXCEPT ![r] = p] /\ UNCHANGED <<device, account>>
      /\ halfway' \in BOOLEAN
  BY DEF Begins, IInv, TypeOK
<1>2. Excused(r, p)
  BY DEF Begins, Excused, Idle, device
<1> QED BY <1>1, <1>2, MoveOn

LEMMA BeginningInv ==
  ASSUME IInv, NEW r \in Requests,
         FaultBegins(r) \/ RemediationBegins(r) \/ CheckBegins(r) \/ ListBegins(r)
  PROVE  IInv'
<1>1. CASE FaultBegins(r)
  <2>1. ASSUME NEW do \in PlainFaults, Begins(r, New("act", do, "none", Target(do, "none")))
        PROVE  IInv'
    BY <2>1, PostSound, BeginInv
  <2>2. ASSUME NEW do \in ShareFaults, NEW s \in Shares, Begins(r, New("act", do, s, Target(do, s)))
        PROVE  IInv'
    BY <2>2, PostSound, BeginInv
  <2> QED BY <1>1, <2>1, <2>2 DEF FaultBegins
<1>2. CASE RemediationBegins(r)
  <2>1. ASSUME NEW do \in PlainFaults \cup ShareFaults, NEW s \in Shares \cup {"none"},
               do \in {"online", "service-start", "share-enable", "read-write"},
               IF do \in PlainFaults THEN s = "none" ELSE s \in Shares, Remediates(r, do, s)
        PROVE  IInv'
    BY <2>1, RemediationSound, BeginInv DEF Remediates
  <2>2. ASSUME NEW do \in {"online", "service-start"}, Remediates(r, do, "none") PROVE IInv'
    BY <2>1, <2>2
  <2>3. ASSUME NEW do \in {"share-enable", "read-write"}, NEW s \in Shares, Remediates(r, do, s)
        PROVE  IInv'
    BY <2>1, <2>3
  <2> QED BY <1>2, <2>2, <2>3 DEF RemediationBegins
<1>3. CASE CheckBegins(r)
  <2>1. PICK op \in {"read", "write"}, s \in Shares :
          Begins(r, [New("status", op, s, All) EXCEPT
                       !.ok = account.enabled /\ account.groups \cap Required(s, op) # {}])
    BY <1>3 DEF CheckBegins
  <2> DEFINE ok == account.enabled /\ account.groups \cap Required(s, op) # {}
  <2>2. ok \in BOOLEAN /\ (ok <=> account.enabled /\ account.groups \cap Required(s, op) # {})
    OBVIOUS
  <2>3. Begins(r, [New("status", op, s, All) EXCEPT !.ok = ok])
    BY <2>1
  <2> HIDE DEF ok
  <2>4. Sound([New("status", op, s, All) EXCEPT !.ok = ok], Now)
    BY <2>2, CheckSound
  <2> QED BY <2>3, <2>4, BeginInv
<1>4. CASE ListBegins(r)
  BY <1>4, ListingSound, BeginInv DEF ListBegins
<1> QED BY <1>1, <1>2, <1>3, <1>4

\* A step that only request r sees.
LEMMA PrivateInv ==
  ASSUME IInv, NEW r \in Requests, request[r].at # "route", NEW p, request' = [request EXCEPT ![r] = p],
         UNCHANGED <<device, account, halfway>>, Sound(p, Now)
  PROVE  IInv'
BY MoveOn DEF Excused, device, IInv, TypeOK

LEMMA ReadingInv ==
  ASSUME IInv, NEW r \in Requests,
         GivesUp(r) \/ ChecksStatus(r) \/ ChecksShare(r) \/ ListsGroup(r) \/ ListComplete(r)
  PROVE  IInv'
<1> DEFINE q == request[r]
<1>0. Before(r)
  BY InvBefore
<1>1. CASE GivesUp(r)
  BY <1>1, IdleSound, PrivateInv DEF GivesUp, Ends
<1>2. CASE ChecksStatus(r)
  <2> DEFINE up == link /\ Running
  <2>1. /\ q.at = "status" /\ UNCHANGED <<device, account, halfway>>
        /\ request' = [request EXCEPT ![r] = [q EXCEPT !.at = "share", !.ok = @ /\ up]]
    BY <1>0, <1>2 DEF ChecksStatus, At
  <2>2. up \in BOOLEAN /\ (up <=> Now.link /\ Now.smbd = "owned")
    BY NowFields DEF Running
  <2> HIDE DEF up
  <2>3. Sound([q EXCEPT !.at = "share", !.ok = @ /\ up], Now)
    BY <1>0, <2>1, <2>2, StatusSound DEF Before
  <2> QED BY <2>1, <2>3, PrivateInv
<1>3. CASE ChecksShare(r)
  <2> DEFINE p == [q EXCEPT !.at = "done", !.ok = @ /\ q.share \notin Now.disabled
                                                   /\ (q.do = "write" => q.share \notin Now.readOnly)]
  <2>1. /\ q.at = "share" /\ UNCHANGED <<device, account, halfway>>
        /\ request' = [request EXCEPT ![r] = p]
    BY <1>0, <1>3, NowFields DEF ChecksShare, At
  <2>2. Sound(p, Now)
    BY <1>0, <2>1, ShareSound DEF Before
  <2> QED BY <2>1, <2>2, PrivateInv
<1>4. CASE ListsGroup(r)
  <2>1. PICK g \in q.left :
          request' = [request EXCEPT ![r].left = @ \ {g},
                                     ![r].seen = IF g \in account.groups THEN @ \cup {g} ELSE @]
    BY <1>4 DEF ListsGroup
  <2> DEFINE p == [q EXCEPT !.left = @ \ {g}, !.seen = IF g \in Now.groups THEN @ \cup {g} ELSE @]
  <2>2. /\ q.at = "list" /\ UNCHANGED <<device, account, halfway>>
        /\ request' = [request EXCEPT ![r] = p]
    BY <1>0, <1>4, <2>1, NowFields DEF ListsGroup, At
  <2>3. Sound(p, Now)
    BY <1>0, <2>2, ListsSound DEF Before
  <2> QED BY <2>2, <2>3, PrivateInv
<1>5. CASE ListComplete(r)
  <2>1. /\ q.at = "list" /\ q.left = {} /\ UNCHANGED <<device, account, halfway>>
        /\ request' = [request EXCEPT ![r] = Moved(q, "done")]
    BY <1>5 DEF ListComplete, At, Moves, Moved
  <2>2. Sound(Moved(q, "done"), Now)
    BY <1>0, <2>1, ListedSound DEF Before
  <2> QED BY <2>1, <2>2, PrivateInv
<1> QED BY <1>1, <1>2, <1>3, <1>4, <1>5

LEMMA MembershipInv == ASSUME IInv, NEW r \in Requests, ChangesMembership(r) PROVE IInv'
<1>1. PICK s \in Shares, add \in BOOLEAN : \E g \in Range(ReadGroups[s]), q \in {Idle, Listing(s)} :
        /\ account' = [account EXCEPT !.groups = Toggled(@, g, add)]
        /\ request' = [Noticed(r, Account) EXCEPT ![r] = q]
  BY DEF ChangesMembership
<1>2. PICK g \in Range(ReadGroups[s]), q \in {Idle, Listing(s)} :
        /\ account' = [account EXCEPT !.groups = Toggled(@, g, add)]
        /\ request' = [Noticed(r, Account) EXCEPT ![r] = q]
  BY <1>1
<1>3. Before(r) /\ request[r] = Idle /\ UNCHANGED <<device, halfway>>
  BY InvBefore DEF ChangesMembership
<1>4. request' = After(r, q, Account) /\ Account \in Targets
  BY <1>2 DEF Noticed, After, Targets
<1>5. /\ account' \in [enabled : BOOLEAN, groups : SUBSET Groups]
      /\ account'.enabled = account.enabled
  <2>1. account \in [enabled : BOOLEAN, groups : SUBSET Groups] /\ g \in Groups
    BY <1>3 DEF Before, StateOK, Groups
  <2>2. Toggled(account.groups, g, add) \in SUBSET Groups
    BY <2>1 DEF Toggled
  <2> QED BY <1>2, <2>1, <2>2
<1>6. StateOK' /\ OnlyChanges(Account, Now, Now')
  BY <1>3, <1>5, NowFields DEF Before, StateOK, OnlyChanges, device
<1>7. Sound(q, Now')
  BY IdleSound, ListingSound
<1>8. Excused(r, q)
  BY <1>3 DEF Excused, device, Idle
<1> QED BY <1>4, <1>6, <1>7, <1>8, Change

LEMMA ExternalInv ==
  ASSUME IInv, SmbdEnds \/ SmbdFails \/ UserAction \/ \E up \in BOOLEAN : Infrastructure(up)
  PROVE  IInv'
<1>0. StateOK /\ \A r \in Requests : Sound(request[r], Now)
  BY DEF IInv, TypeOK, StateOK
<1>1. CASE SmbdEnds
  <2>1. StateOK'
    BY <1>0, <1>1 DEF SmbdEnds, StateOK
  <2>2. \A r \in Requests : Sound(Disturbed(request[r], All), Now')
    BY <1>0, <1>1, NowFields, AllSound DEF SmbdEnds
  <2> QED BY <1>1, <2>1, <2>2, External DEF SmbdEnds
<1>2. CASE UserAction
  <2>1. /\ account' \in [enabled : BOOLEAN, groups : SUBSET Groups]
        /\ account'.groups = account.groups
    BY <1>0, <1>2 DEF UserAction, StateOK
  <2>2. StateOK'
    BY <1>0, <1>2, <2>1 DEF UserAction, StateOK, device
  <2>3. \A r \in Requests : Sound(Disturbed(request[r], All), Now')
    BY <1>0, <1>2, <2>1, NowFields, AllSound DEF UserAction, device
  <2> QED BY <1>2, <2>2, <2>3, External DEF UserAction, device
<1>3. CASE \E up \in BOOLEAN : Infrastructure(up)
  <2>1. PICK up \in BOOLEAN : Infrastructure(up)
    BY <1>3
  <2>2. StateOK'
    BY <1>0, <2>1 DEF Infrastructure, StateOK
  <2>3. OnlyChanges(Link, Now, Now') /\ Link \in Targets
    BY <2>1, NowFields DEF Infrastructure, OnlyChanges, Targets
  <2>4. \A r \in Requests : Sound(Disturbed(request[r], Link), Now')
    BY <1>0, <2>3, NoticeSound
  <2>5. ~link' \/ halfway' \/ UNCHANGED <<link, route, halfway>>
    BY <1>0, <2>1 DEF Infrastructure, StateOK
  <2> QED BY <2>1, <2>2, <2>4, <2>5, External DEF Infrastructure
<1>4. CASE SmbdFails
  <2>1. StateOK'
    BY <1>0, <1>4 DEF SmbdFails, StateOK
  <2>2. OnlyChanges(Smb, Now, Now') /\ Smb \in Targets
    BY <1>4, NowFields DEF SmbdFails, OnlyChanges, Targets
  <2>3. \A r \in Requests : Sound(Disturbed(request[r], Smb), Now')
    BY <1>0, <2>2, NoticeSound
  <2> QED BY <1>4, <2>1, <2>3, External DEF SmbdFails
<1> QED BY <1>1, <1>2, <1>3, <1>4

LEMMA InvInit == Init => IInv
<1> SUFFICES ASSUME Init PROVE IInv
  OBVIOUS
<1>1. TypeOK /\ OnlineIsRouted
  BY DEF Init, TypeOK, OnlineIsRouted, RequestType
<1>2. \A r \in Requests : Sound(request[r], Now)
  BY IdleSound DEF Init
<1> QED BY <1>1, <1>2 DEF IInv

LEMMA InvNext == IInv /\ [Next]_vars => IInv'
<1> SUFFICES ASSUME IInv, [Next]_vars PROVE IInv'
  OBVIOUS
<1>1. CASE UNCHANGED vars
  BY <1>1 DEF vars, device, IInv, TypeOK, OnlineIsRouted, At, Now
<1>2. CASE Next
  BY <1>2, ContainerInv, BeginningInv, ReadingInv, MembershipInv, ExternalInv DEF Next
<1> QED BY <1>1, <1>2

LEMMA Invariant == Spec => []IInv
BY InvInit, InvNext, PTL DEF Spec
-----------------------------------------------------------------------------
(* The level of a list of groups *)

\* Induction over the numbers, for a set instead of a predicate.
Less == OpToRel(<, Nat)
LEMMA LessThan == Less = {ss \in Nat \X Nat : ss[1] < ss[2]}
BY DEF OpToRel, Less

LEMMA LeastElement ==
  ASSUME NEW T, T \subseteq Nat, T # {}
  PROVE  \E m \in T : \A k \in T : m <= k
<1>1. IsWellFoundedOn(Less, Nat)
  BY NatLessThanWellFounded DEF Less
<1>2. PICK x \in T : \A y \in T : ~ (<<y, x>> \in Less)
  BY <1>1, WFMin
<1>3. ASSUME NEW k \in T PROVE x <= k
  <2>1. <<k, x>> \notin {ss \in Nat \X Nat : ss[1] < ss[2]}
    BY <1>2, LessThan
  <2>2. <<k, x>> \in Nat \X Nat /\ <<k, x>>[1] = k /\ <<k, x>>[2] = x
    OBVIOUS
  <2>3. ~(k < x)
    BY <2>1, <2>2
  <2> QED BY <2>3
<1> QED BY <1>3

LEMMA Induction ==
  ASSUME NEW S, 0 \in S, \A n \in Nat : n \in S => n + 1 \in S
  PROVE  Nat \subseteq S
<1> SUFFICES ASSUME Nat \ S # {} PROVE FALSE
  OBVIOUS
<1>1. PICK m \in Nat \ S : \A k \in Nat \ S : m <= k
  BY LeastElement
<1>2. m # 0 /\ m - 1 \in Nat /\ m - 1 \in S
  <2>1. m # 0
    BY <1>1
  <2>2. m-1 \in Nat
    BY <2>1
  <2> QED BY <2>1, <2>2, <1>1
<1> QED BY <1>2

\* f is the table of levels of the first k groups.
Levels(f, s, seen, k) ==
  f = [i \in 0..k |->
        IF i = 0 THEN "none"
        ELSE IF ReadGroups[s][i] \notin seen \/ f[i - 1] = "Read/Write" THEN f[i - 1]
        ELSE GroupLevel(s, ReadGroups[s][i])]

LEMMA LevelsExist == ASSUME NEW s, NEW seen PROVE \A k \in Nat : \E f : Levels(f, s, seen, k)
<1> DEFINE S == {k \in Nat : \E f : Levels(f, s, seen, k)}
<1>1. 0 \in S
  <2>1. Levels([i \in 0..0 |-> "none"], s, seen, 0)
     BY DEF Levels
  <2> QED BY <2>1
<1>2. ASSUME NEW k \in Nat, k \in S PROVE k + 1 \in S
  <2>1. PICK f : Levels(f, s, seen, k)
    BY <1>2
  <2> DEFINE last == ReadGroups[s][k + 1]
             g == [i \in 0..k+1 |-> IF i # k + 1 THEN f[i]
                     ELSE IF last \notin seen \/ f[k] = "Read/Write" THEN f[k] ELSE GroupLevel(s, last)]
  <2>2. \A i \in 0..k : g[i] = f[i]
    OBVIOUS
  <2>3. Levels(g, s, seen, k + 1)
     <3> DEFINE h == [i \in 0..k+1 |->
        IF i = 0 THEN "none"
        ELSE IF ReadGroups[s][i] \notin seen \/ g[i - 1] = "Read/Write" THEN g[i - 1]
        ELSE GroupLevel(s, ReadGroups[s][i])]
     <3>1. ASSUME NEW i \in 0..k+1 PROVE g[i] = h[i]
        <4>1. CASE i = 0
           BY <4>1, <2>1 DEF Levels
        <4>2. CASE i \in 1..k
           <5>1. i-1 \in 0..k /\ i \in 0..k /\ i # 0
             BY <4>2
           <5>2. f[i] = IF ReadGroups[s][i] \notin seen \/ f[i - 1] = "Read/Write" THEN f[i - 1]
        ELSE GroupLevel(s, ReadGroups[s][i])
             BY <2>1, <5>1 DEF Levels
           <5> QED BY <5>1, <5>2, <2>2
        <4>3. CASE i = k + 1
           <5>1. i # 0 /\ i - 1 = k /\ k \in 0..k
             BY <4>3
           <5> QED BY <5>1, <2>2, <4>3
        <4> QED BY <4>1, <4>2, <4>3
     <3>2. g = h
        BY <3>1
     <3> QED BY <3>2 DEF Levels
  <2> QED BY <2>3
<1> HIDE DEF S
<1>3. Nat \subseteq S
  BY <1>1, <1>2, Induction
<1> QED BY <1>3 DEF S

LEMMA LevelIsLast == ASSUME NEW s, NEW seen, Len(ReadGroups[s]) \in Nat
 PROVE \E f : Levels(f, s, seen, Len(ReadGroups[s])) /\ Level(s, seen) = f[Len(ReadGroups[s])]
<1> DEFINE n == Len(ReadGroups[s])
           f == CHOOSE f : Levels(f, s, seen, n)
<1>1. Levels(f, s, seen, n)
  BY LevelsExist
<1>2. Level(s, seen) = f[n]
  BY DEF Level, Levels
<1> QED BY <1>1, <1>2

\* Among the first i groups of share s there is one of the set.
Meets(s, i, set) == \E j \in 1..i : ReadGroups[s][j] \in set

LEMMA LevelOfFirst ==
  ASSUME NEW s, NEW seen, NEW f, NEW k \in Nat, Levels(f, s, seen, k)
  PROVE  \A i \in 0..k :
           /\ f[i] \in {"none", "Read", "Read/Write"}
           /\ f[i] # "none" <=> Meets(s, i, seen)
           /\ f[i] = "Read/Write" <=> Meets(s, i, seen \cap Range(WriteGroups[s]))
<1> DEFINE Right(i) == /\ f[i] \in {"none", "Read", "Read/Write"}
                       /\ f[i] # "none" <=> Meets(s, i, seen)
                       /\ f[i] = "Read/Write" <=> Meets(s, i, seen \cap Range(WriteGroups[s]))
           S == {i \in Nat : i \in 0..k => Right(i)}
<1>1. 0 \in S
  <2>1. f[0] = "none"
    BY DEF Levels
  <2> QED BY <2>1 DEF Meets
<1>2. ASSUME NEW i \in Nat, i \in S PROVE i + 1 \in S
  <2> SUFFICES ASSUME i + 1 \in 0..k PROVE Right(i + 1)
    OBVIOUS
  <2>1. Right(i) /\ i + 1 # 0 /\ (i + 1) - 1 = i
    BY <1>2
  <2> DEFINE g == ReadGroups[s][i + 1]
  <2>2. f[i + 1] = IF g \notin seen \/ f[i] = "Read/Write" THEN f[i] ELSE GroupLevel(s, g)
    BY <2>1 DEF Levels
  <2>3. \A set : Meets(s, i + 1, set) <=> Meets(s, i, set) \/ g \in set
    <3>1. 1..(i + 1) = (1..i) \cup {i + 1}
      OBVIOUS
    <3> QED BY <3>1 DEF Meets
  <2>4. GroupLevel(s, g) = IF g \in Range(WriteGroups[s]) THEN "Read/Write" ELSE "Read"
    BY DEF GroupLevel
  <2>5. Meets(s, i, seen \cap Range(WriteGroups[s])) => Meets(s, i, seen)
    BY DEF Meets
  <2> HIDE DEF g
  <2> QED BY <2>1, <2>2, <2>3, <2>4, <2>5
<1> HIDE DEF S
<1>3. Nat \subseteq S
  BY <1>1, <1>2, Induction
<1> QED BY <1>3 DEF S

\* The level that the list computes: Read/Write if the user has one of the groups that may
\* write, in whatever order they are listed, else Read if there is one that may read.
LEMMA LevelOfGroups ==
  ASSUME NEW s \in Shares, NEW seen
  PROVE  /\ Level(s, seen) # "none" <=> seen \cap Range(ReadGroups[s]) # {}
         /\ Level(s, seen) = "Read/Write" <=> seen \cap Range(WriteGroups[s]) # {}
<1> DEFINE n == Len(ReadGroups[s])
<1>1. /\ n \in Nat /\ DOMAIN ReadGroups[s] = 1..n
      /\ Range(WriteGroups[s]) \subseteq Range(ReadGroups[s])
  BY GroupsAssumption
<1>2. \A set : Meets(s, n, set) <=> set \cap Range(ReadGroups[s]) # {}
  BY <1>1 DEF Meets, Range
<1>3. PICK f : Levels(f, s, seen, n) /\ Level(s, seen) = f[n]
  BY <1>1, LevelIsLast
<1>4. n \in 0..n
  BY <1>1
<1> HIDE DEF n
<1>5. /\ f[n] # "none" <=> Meets(s, n, seen)
      /\ f[n] = "Read/Write" <=> Meets(s, n, seen \cap Range(WriteGroups[s]))
  BY <1>1, <1>3, <1>4, LevelOfFirst
<1> QED BY <1>1, <1>2, <1>3, <1>5
-----------------------------------------------------------------------------
(* Theorems *)

\* Type correctness, for every set of shares and groups and any number of requests.
THEOREM TypeCorrect == Spec => []TypeOK
<1>1. IInv => TypeOK
  BY DEF IInv
<1> QED BY <1>1, Invariant, PTL

\* An interface that is up has its route, but for a restoration that ended half-way.
THEOREM OnlineRouted == Spec => []OnlineIsRouted
<1>1. IInv => OnlineIsRouted
  BY DEF IInv
<1> QED BY <1>1, Invariant, PTL

\* What the reply to an undisturbed fault or remediation says of the device is true.
THEOREM UndisturbedReply == Spec => []UndisturbedReplyIsTrue
<1>1. IInv => UndisturbedReplyIsTrue
  <2> SUFFICES ASSUME IInv, NEW r \in Requests, request[r].at = "done",
                      request[r].do \in PlainFaults \cup ShareFaults, request[r].alone
               PROVE  Holds(request[r])
    BY DEF UndisturbedReplyIsTrue, At
  <2> DEFINE q == request[r]
  <2>1. q # Idle /\ KnowsFault(q, Now)
    BY DEF IInv, Sound, Knows, Idle
  <2>2. CASE q.do \in {"offline", "online"}
    BY <2>1, <2>2, NowFields DEF KnowsFault, Holds
  <2>3. CASE q.do \in {"service-stop", "service-start"}
    BY <2>1, <2>3, NowFields DEF KnowsFault, Holds
  <2>4. CASE q.do \in {"share-disable", "share-enable"}
    BY <2>1, <2>4, NowFields DEF KnowsFault, Holds
  <2>5. CASE q.do \in {"read-only", "read-write"}
    BY <2>1, <2>5, NowFields DEF KnowsFault, Holds
  <2> QED BY <2>2, <2>3, <2>4, <2>5
<1> QED BY <1>1, Invariant, PTL

\* Only a start that was disturbed between its test and its Popen loses smb_process: one
\* that was not knows that no smbd serves.
THEOREM OrphanAfterRace == Spec => OrphanOnlyAfterRace
<1>1. IInv /\ [Next]_vars =>
        [smbd # "orphan" /\ smbd' = "orphan"
           => \E r \in Requests : At(r, "spawn") /\ ~request[r].alone /\ request'[r].at = "done"]_vars
  <2> SUFFICES ASSUME IInv, Next, smbd # "orphan", smbd' = "orphan"
               PROVE  \E r \in Requests :
                        At(r, "spawn") /\ ~request[r].alone /\ request'[r].at = "done"
    BY DEF vars
  <2>1. PICK r \in Requests : Spawns(r)
    BY DEF Next, FaultBegins, RemediationBegins, Remediates, GivesUp, ContainerStep, CheckBegins,
           ChecksStatus, ChecksShare, ListBegins, ChangesMembership, ListsGroup, ListComplete, Begins,
           Ends, Offline, RaisesLink, SetsRoute, RouteFails, TestsStop, Terminates, Waits,
           WaitExpires, TestsStart, SetsShare, SmbdEnds, SmbdFails, Infrastructure, UserAction,
           device
  <2>2. smbd # "none" /\ request[r].at = "spawn" /\ Before(r)
    BY <2>1, InvBefore DEF Spawns, At
  <2>3. request[r] # Idle /\ request[r].do = "service-start" /\ request[r] \in Live
    BY <2>2 DEF Before, WellFormed, Idle, Sound
  <2>4. ~request[r].alone
    BY <2>2, <2>3, NowFields DEF Before, Sound, Knows, KnowsFault
  <2>5. request'[r].at = "done"
    BY <2>1, <2>3 DEF Spawns, Noticed, Live
  <2> QED BY <2>2, <2>4, <2>5 DEF At
<1> QED BY <1>1, Invariant, PTL DEF Spec, OrphanOnlyAfterRace

\* Readings at several moments amount to one when nothing changed between them, and the
\* check grants what the level of the list allows.
THEOREM AccessAsListed == Spec => []AccessIsDecidedAsListed
<1>1. IInv => AccessIsDecidedAsListed
  <2> SUFFICES ASSUME IInv, NEW r \in Requests, request[r].at = "done", request[r].alone
               PROVE  LET q == request[r]  level == Level(q.share, account.groups) IN
                      /\ q.do = "list" => q.seen = account.groups \cap Range(ReadGroups[q.share])
                      /\ q.do \in {"read", "write"} /\ smbd # "orphan" /\ ~dying =>
                           (q.ok <=> /\ account.enabled /\ link /\ smbd # "none"
                                     /\ q.share \notin disabled
                                     /\ IF q.do = "read" THEN level # "none"
                                        ELSE level = "Read/Write" /\ q.share \notin readOnly)
    BY DEF AccessIsDecidedAsListed, At
  <2> DEFINE q == request[r]
             level == Level(q.share, account.groups)
  <2>1. q # Idle /\ KnowsAccess(q, Now) /\ WellFormed(q) /\ smbd \in {"none", "owned", "orphan"}
    BY DEF IInv, TypeOK, Sound, Knows, Idle
  <2>2. ASSUME q.do = "list" PROVE q.seen = account.groups \cap Range(ReadGroups[q.share])
    BY <2>1, <2>2, NowFields DEF KnowsAccess
  <2>3. ASSUME q.do \in {"read", "write"}, smbd # "orphan"
        PROVE  q.ok <=> /\ account.enabled /\ link /\ smbd # "none" /\ q.share \notin disabled
                        /\ IF q.do = "read" THEN level # "none"
                           ELSE level = "Read/Write" /\ q.share \notin readOnly
    <3>1. q.share \in Shares
      BY <2>1, <2>3 DEF WellFormed
    <3>2. /\ level # "none" <=> account.groups \cap Range(ReadGroups[q.share]) # {}
          /\ level = "Read/Write" <=> account.groups \cap Range(WriteGroups[q.share]) # {}
      BY <3>1, LevelOfGroups
    <3>3. q.ok <=> /\ account.enabled /\ account.groups \cap Required(q.share, q.do) # {}
                   /\ link /\ smbd = "owned" /\ q.share \notin disabled
                   /\ (q.do = "write" => q.share \notin readOnly)
      BY <2>1, <2>3, NowFields DEF KnowsAccess, Entitled, Permits
    <3> HIDE DEF level
    <3>4. CASE q.do = "read"
      BY <2>1, <2>3, <3>2, <3>3, <3>4 DEF Required
    <3>5. CASE q.do = "write"
      BY <2>1, <2>3, <3>2, <3>3, <3>5 DEF Required
    <3> QED BY <2>3, <3>4, <3>5
  <2> QED BY <2>2, <2>3
<1> QED BY <1>1, Invariant, PTL
=============================================================================
