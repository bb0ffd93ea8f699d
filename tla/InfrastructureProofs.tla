------------------------ MODULE InfrastructureProofs ------------------------
(***************************************************************************)
(* Theorems about Infrastructure, for every topology and every number of   *)
(* requests in flight.  The inductive invariant binds what a request has   *)
(* set or read so far to the links.  It is stated of one request q and of  *)
(* the links l, so that each step is a lemma about one request, and one    *)
(* lemma (NoticeSound) says that a step of another request leaves it true. *)
(***************************************************************************)
EXTENDS Infrastructure, SequenceTheorems, TLAPS

Live == [at : {"check", "set", "report"}, device : Devices, up : BOOLEAN, next : Nat,
         dark : SUBSET UNION {Ports(d) : d \in Devices},
         misread : SUBSET (Devices \X UNION {Ports(d) : d \in Devices}),
         alone : BOOLEAN, steady : BOOLEAN]

\* Only interfaces are held misread on which the state of their device depends.
RequiredOnes(misread) == \A pair \in misread : pair[2] \in Required(pair[1])

SubjectOf(q) == IF q.at = "check" THEN Core ELSE q.device

\* The command a request is about to issue exists, and its readings are of its subject.
WellFormed(q) ==
  \/ q = Idle
  \/ /\ q \in Live
     /\ q.dark \subseteq Ports(SubjectOf(q))
     /\ q.next \in 1..(Len(Interfaces[SubjectOf(q)]) + 1)
     /\ q.at = "set" => q.next <= Len(Interfaces[q.device])
     /\ q.at = "check" => q.up /\ q.device \in Switches
     /\ RequiredOnes(q.misread)

\* The interfaces of device d that a request has been through before its next command.
Passed(q, d) == {Interfaces[d][k] : k \in 1..(q.next - 1)}

\* The request was told wrongly of a required interface.
ToldWrongly(q, d, i) == <<d, i>> \in q.misread

\* An undisturbed request: the interfaces it has been through are as it set them, and its
\* readback has found them so, but for those it was told wrongly.
SetSoFar(q, l) ==
  q # Idle /\ q.alone =>
    /\ q.at = "set" => /\ \A i \in Passed(q, q.device) : l[q.device][i] = q.up
                       /\ q.dark = {}
    /\ q.at = "report" =>
         /\ \A i \in Ports(q.device) : l[q.device][i] = q.up
         /\ \A i \in Passed(q, q.device) \cap Required(q.device) :
              (i \in q.dark) = ~q.up \/ ToldWrongly(q, q.device, i)
         /\ q.dark \subseteq Passed(q, q.device)

\* A restoration whose CORE01 nobody changed: what it has read of CORE01 still holds.
CoreSoFar(q, l) ==
  q # Idle /\ q.steady =>
    /\ q.at = "check" => \A i \in Passed(q, Core) \cap Required(Core) :
                           i \in q.dark \/ l[Core][i] \/ ToldWrongly(q, Core, i)
    /\ q.at \in {"set", "report"} /\ q.up /\ q.device \in Switches =>
         \A i \in Required(Core) : l[Core][i] \/ ToldWrongly(q, Core, i)

Sound(q, l) == WellFormed(q) /\ SetSoFar(q, l) /\ CoreSoFar(q, l)

LinkType(l) == DOMAIN l = Devices /\ \A d \in Devices : l[d] \in [Ports(d) -> BOOLEAN]

CommandOK(c) == c.device \in Devices /\ c.port \in Ports(c.device) /\ c.up \in BOOLEAN

IInv == TypeOK /\ \A r \in Requests : Sound(request[r], link)
-----------------------------------------------------------------------------
(* Topology *)

\* The interfaces of a device are the elements of its sequence, and there is one.
LEMMA PortsAreListed ==
  ASSUME NEW d \in Devices
  PROVE  /\ Len(Interfaces[d]) \in Nat \ {0}
         /\ \A k \in 1..Len(Interfaces[d]) : Interfaces[d][k] \in Ports(d)
         /\ Ports(d) = {Interfaces[d][k] : k \in 1..Len(Interfaces[d])}
<1>1. Interfaces[d] \in Seq(Ports(d)) /\ Interfaces[d] # <<>>
  BY DeviceAssumption
<1>2. Len(Interfaces[d]) \in Nat /\ DOMAIN Interfaces[d] = 1..Len(Interfaces[d])
  BY <1>1, LenProperties
<1>3. Len(Interfaces[d]) # 0
  BY <1>1, EmptySeq
<1> QED BY <1>2, <1>3 DEF Ports, Range

\* A request in flight is never mistaken for an idle one.
LEMMA LiveIsNotIdle == \A q \in Live : q # Idle
<1> SUFFICES ASSUME NEW q \in Live, q = Idle PROVE FALSE
  OBVIOUS
<1>1. q.at = "idle"
  BY DEF Idle
<1> QED BY <1>1 DEF Live

\* A live request reads or sets a device of the topology.
LEMMA SubjectIsDevice == \A q \in Live : SubjectOf(q) \in Devices
BY DeviceAssumption DEF Live, SubjectOf
-----------------------------------------------------------------------------
(* One request *)

LEMMA IdleSound == \A l : Sound(Idle, l)
BY DEF Sound, WellFormed, SetSoFar, CoreSoFar

LEMMA BeginSound ==
  ASSUME NEW d \in Devices, NEW up \in BOOLEAN, NEW l
  PROVE  Sound([at |-> IF up /\ d \in Switches THEN "check" ELSE "set",
                device |-> d, up |-> up, next |-> 1, dark |-> {}, misread |-> {},
                alone |-> TRUE, steady |-> TRUE], l)
<1> DEFINE q == [at |-> IF up /\ d \in Switches THEN "check" ELSE "set",
                 device |-> d, up |-> up, next |-> 1, dark |-> {}, misread |-> {},
                 alone |-> TRUE, steady |-> TRUE]
<1>1. /\ q \in Live /\ q.device = d /\ q.up = up /\ q.next = 1 /\ q.dark = {}
      /\ q.misread = {}
      /\ q.at = IF up /\ d \in Switches THEN "check" ELSE "set"
  BY DEF Live
<1> HIDE DEF q
<1>2. WellFormed(q)
  <2>1. Len(Interfaces[SubjectOf(q)]) \in Nat \ {0} /\ Len(Interfaces[q.device]) \in Nat \ {0}
    BY <1>1, SubjectIsDevice, PortsAreListed
  <2> QED BY <1>1, <2>1 DEF WellFormed, RequiredOnes
<1>3. Passed(q, d) = {} /\ Passed(q, Core) = {}
  BY <1>1 DEF Passed
<1>4. SetSoFar(q, l)
  BY <1>1, <1>3 DEF SetSoFar
<1>5. CoreSoFar(q, l)
  BY <1>1, <1>3 DEF CoreSoFar
<1> QED BY <1>2, <1>4, <1>5 DEF q, Sound

\* Going one interface further adds that interface to those passed.
LEMMA PassedGrows ==
  ASSUME NEW q, NEW p, NEW d \in Devices,
         q.next \in 1..Len(Interfaces[d]), p.next = q.next + 1
  PROVE  Passed(p, d) = Passed(q, d) \cup {Interfaces[d][q.next]}
<1>1. 1..(p.next - 1) = 1..(q.next - 1) \cup {q.next}
  BY PortsAreListed
<1> QED BY <1>1 DEF Passed

\* Once past the last interface, a request has passed them all.
LEMMA PassedAll ==
  ASSUME NEW q, NEW d \in Devices, q.next = Len(Interfaces[d]) + 1
  PROVE  Passed(q, d) = Ports(d)
<1>1. 1..(q.next - 1) = 1..Len(Interfaces[d])
  BY PortsAreListed
<1> QED BY <1>1, PortsAreListed DEF Passed

\* The request after one reading that said up or down, wrongly perhaps.
Told(q, l, up) ==
  LET d == SubjectOf(q)
      i == Interfaces[d][q.next] IN
  [q EXCEPT !.next = @ + 1,
            !.dark = IF up THEN @ ELSE @ \cup {i},
            !.misread = IF l[d][i] = up \/ i \in Optional[d] THEN @ ELSE @ \cup {<<d, i>>}]

LEMMA ReadSound ==
  ASSUME NEW l, LinkType(l), NEW q, q # Idle, Sound(q, l), q.at \in {"check", "report"},
         q.next <= Len(Interfaces[SubjectOf(q)]), NEW up \in BOOLEAN
  PROVE  Sound(Told(q, l, up), l)
<1> DEFINE s == SubjectOf(q)
           i == Interfaces[s][q.next]
           dark == IF up THEN q.dark ELSE q.dark \cup {i}
           misread == IF l[s][i] = up \/ i \in Optional[s] THEN q.misread
                                                        ELSE q.misread \cup {<<s, i>>}
           p == Told(q, l, up)
<1>1. /\ q \in Live /\ s \in Devices /\ q.dark \subseteq Ports(s)
      /\ q.next \in 1..Len(Interfaces[s]) /\ i \in Ports(s) /\ l[s][i] \in BOOLEAN
  <2>1. q \in Live /\ q.dark \subseteq Ports(s) /\ q.next \in 1..(Len(Interfaces[s]) + 1)
    BY DEF Sound, WellFormed
  <2>2. s \in Devices
    BY <2>1, SubjectIsDevice
  <2>3. q.next \in 1..Len(Interfaces[s])
    BY <2>1, <2>2, PortsAreListed
  <2>4. i \in Ports(s)
    BY <2>2, <2>3, PortsAreListed
  <2> HIDE DEF s, i
  <2>5. l[s][i] \in BOOLEAN
    BY <2>2, <2>4 DEF LinkType
  <2> QED BY <2>1, <2>2, <2>3, <2>4, <2>5 DEF s
<1>2. /\ p \in Live
      /\ p.at = q.at /\ p.device = q.device /\ p.up = q.up /\ p.alone = q.alone
      /\ p.steady = q.steady /\ p.next = q.next + 1
      /\ p.dark = dark /\ p.misread = misread
  <2>1. dark \in SUBSET UNION {Ports(d) : d \in Devices}
    BY <1>1
  <2>2. misread \in SUBSET (Devices \X UNION {Ports(d) : d \in Devices})
    <3>1. q.misread \in SUBSET (Devices \X UNION {Ports(d) : d \in Devices})
      BY <1>1 DEF Live
    <3>2. <<s, i>> \in Devices \X UNION {Ports(d) : d \in Devices}
      BY <1>1
    <3> QED BY <3>1, <3>2
  <2>3. q.next + 1 \in Nat
    BY <1>1, PortsAreListed
  <2>4. p = [q EXCEPT !.next = q.next + 1, !.dark = dark, !.misread = misread]
    BY DEF Told
  <2> HIDE DEF p, dark, misread, s, i
  <2>5. p \in Live
    BY <1>1, <2>1, <2>2, <2>3, <2>4 DEF Live
  <2> QED BY <1>1, <2>4, <2>5 DEF Live
<1>3. SubjectOf(p) = s
  BY <1>2 DEF SubjectOf
<1> HIDE DEF p, i
<1>4. Passed(p, s) = Passed(q, s) \cup {i}
  BY <1>1, <1>2, PassedGrows DEF i
<1>10. /\ \A d, x : ToldWrongly(q, d, x) => ToldWrongly(p, d, x)
       /\ i \in Required(s) /\ l[s][i] # up => ToldWrongly(p, s, i)
  BY <1>2 DEF ToldWrongly, Required
<1>11. q.dark \subseteq p.dark /\ p.dark \subseteq q.dark \cup {i} /\ (i \in p.dark \/ up)
       /\ (up => p.dark = q.dark)
  BY <1>2
<1> HIDE DEF s, dark, misread
<1>5. WellFormed(p)
  <2>1. p.dark \subseteq Ports(s)
    BY <1>1, <1>11
  <2>2. p.next \in 1..(Len(Interfaces[s]) + 1)
    BY <1>1, <1>2, PortsAreListed
  <2>3. q.at = "check" => q.up /\ q.device \in Switches
    BY DEF Sound, WellFormed
  <2>4. RequiredOnes(p.misread)
    <3>1. RequiredOnes(q.misread)
      BY DEF Sound, WellFormed
    <3>2. \A pair \in p.misread : pair \in q.misread \/ (pair = <<s, i>> /\ i \in Required(s))
      BY <1>1, <1>2 DEF misread, Required
    <3> QED BY <3>1, <3>2 DEF RequiredOnes
  <2> QED BY <1>2, <1>3, <2>1, <2>2, <2>3, <2>4 DEF WellFormed
<1>6. SetSoFar(p, l)
  <2> SUFFICES ASSUME p.alone, p.at = "report"
               PROVE  /\ \A x \in Ports(p.device) : l[p.device][x] = p.up
                      /\ \A x \in Passed(p, p.device) \cap Required(p.device) :
                           (x \in p.dark) = ~p.up \/ ToldWrongly(p, p.device, x)
                      /\ p.dark \subseteq Passed(p, p.device)
    BY <1>2 DEF SetSoFar
  <2>1. s = q.device
    BY <1>2 DEF s, SubjectOf
  <2>2. /\ \A x \in Ports(s) : l[s][x] = q.up
        /\ \A x \in Passed(q, s) \cap Required(s) : (x \in q.dark) = ~q.up \/ ToldWrongly(q, s, x)
        /\ q.dark \subseteq Passed(q, s)
    BY <1>2, <2>1 DEF Sound, SetSoFar
  <2>3. l[s][i] = q.up
    BY <1>1, <2>2
  <2>4. ASSUME NEW x \in Passed(p, s) \cap Required(s)
        PROVE  (x \in p.dark) = ~q.up \/ ToldWrongly(p, s, x)
    <3>1. q.up \in BOOLEAN
      BY <1>1 DEF Live
    <3>2. CASE x = i
      <4>1. CASE up # q.up
        BY <1>10, <2>3, <2>4, <3>2, <4>1
      <4>2. CASE up = q.up /\ ~up
        BY <1>11, <3>2, <4>2
      <4>3. CASE up = q.up /\ up
        <5>1. CASE i \in q.dark
          <6>1. i \in Passed(q, s) \cap Required(s)
            BY <2>2, <2>4, <3>2, <5>1
          <6> QED BY <1>10, <2>2, <3>2, <4>3, <5>1, <6>1
        <5>2. CASE i \notin q.dark
          <6>1. q.up = TRUE
            BY <3>1, <4>3
          <6>2. i \notin p.dark
            BY <1>11, <4>3, <5>2
          <6> QED BY <3>2, <6>1, <6>2
        <5> QED BY <5>1, <5>2
      <4> QED BY <3>1, <4>1, <4>2, <4>3
    <3>3. CASE x # i
      <4>1. x \in Passed(q, s) \cap Required(s) /\ (x \in p.dark <=> x \in q.dark)
        BY <1>4, <1>11, <2>4, <3>3
      <4> QED BY <1>10, <2>2, <4>1
    <3> QED BY <3>2, <3>3
  <2>5. p.dark \subseteq Passed(p, s)
    BY <1>4, <1>11, <2>2
  <2> QED BY <1>2, <2>1, <2>2, <2>4, <2>5
<1>7. CoreSoFar(p, l)
  <2>1. ASSUME p.steady, p.at = "check", NEW x \in Passed(p, Core) \cap Required(Core)
        PROVE  x \in p.dark \/ l[Core][x] \/ ToldWrongly(p, Core, x)
    <3>1. s = Core
      BY <1>2, <2>1 DEF s, SubjectOf
    <3>2. \A y \in Passed(q, Core) \cap Required(Core) :
            y \in q.dark \/ l[Core][y] \/ ToldWrongly(q, Core, y)
      BY <1>2, <2>1 DEF Sound, CoreSoFar
    <3>3. CASE x = i
      BY <1>1, <1>10, <1>11, <2>1, <3>1, <3>3
    <3>4. CASE x # i
      BY <1>4, <1>10, <1>11, <2>1, <3>1, <3>2, <3>4
    <3> QED BY <3>3, <3>4
  <2>2. ASSUME p.steady, p.at \in {"set", "report"}, p.up, p.device \in Switches,
               NEW x \in Required(Core)
        PROVE  l[Core][x] \/ ToldWrongly(p, Core, x)
    BY <1>2, <1>10, <2>2 DEF Sound, CoreSoFar
  <2> QED BY <2>1, <2>2 DEF CoreSoFar
<1> QED BY <1>5, <1>6, <1>7 DEF p, Sound

\* A request that found CORE01 operational goes on to its switch.
LEMMA CheckedSound ==
  ASSUME NEW l, LinkType(l), NEW q, q # Idle, Sound(q, l), q.at = "check",
         q.next > Len(Interfaces[Core]), q.dark \cap Required(Core) = {}
  PROVE  Sound([q EXCEPT !.at = "set", !.next = 1, !.dark = {}], l)
<1> DEFINE p == [q EXCEPT !.at = "set", !.next = 1, !.dark = {}]
<1>1. q \in Live /\ SubjectOf(q) = Core /\ q.up /\ q.device \in Switches /\ q.device \in Devices
      /\ q.next = Len(Interfaces[Core]) + 1
  <2>1. q \in Live /\ SubjectOf(q) = Core /\ q.up /\ q.device \in Switches
        /\ q.next \in 1..(Len(Interfaces[Core]) + 1)
    BY DEF Sound, WellFormed, SubjectOf
  <2> QED BY <2>1, PortsAreListed, DeviceAssumption DEF Live
<1>2. /\ p \in Live /\ p.at = "set" /\ p.next = 1 /\ p.dark = {} /\ p.device = q.device
      /\ p.up = q.up /\ p.steady = q.steady /\ p.misread = q.misread
  BY <1>1 DEF Live
<1> HIDE DEF p
<1>3. WellFormed(p)
  <2>1. SubjectOf(p) = q.device /\ Len(Interfaces[q.device]) \in Nat \ {0}
    BY <1>1, <1>2, PortsAreListed DEF SubjectOf
  <2>2. RequiredOnes(p.misread)
    BY <1>2 DEF Sound, WellFormed
  <2> QED BY <1>2, <2>1, <2>2 DEF WellFormed
<1>4. Passed(p, q.device) = {}
  BY <1>2 DEF Passed
<1>5. SetSoFar(p, l)
  BY <1>2, <1>4 DEF SetSoFar
<1>6. CoreSoFar(p, l)
  <2> SUFFICES ASSUME p.steady, NEW i \in Required(Core)
               PROVE  l[Core][i] \/ ToldWrongly(q, Core, i)
    BY <1>2 DEF CoreSoFar, ToldWrongly
  <2>1. i \in Ports(Core) /\ i \notin q.dark
    BY DEF Required
  <2>2. Passed(q, Core) = Ports(Core)
    BY <1>1, DeviceAssumption, PassedAll
  <2>3. \A x \in Passed(q, Core) \cap Required(Core) :
          x \in q.dark \/ l[Core][x] \/ ToldWrongly(q, Core, x)
    BY <1>2 DEF Sound, CoreSoFar
  <2> QED BY <2>1, <2>2, <2>3
<1> QED BY <1>3, <1>5, <1>6 DEF p, Sound

\* One command of set_network_state: the request goes on, or on to its readback.
LEMMA SetSound ==
  ASSUME NEW l, LinkType(l), NEW q, q # Idle, Sound(q, l), q.at = "set"
  PROVE  LET d == q.device
             m == [l EXCEPT ![d][Interfaces[d][q.next]] = q.up] IN
         Sound(IF q.next = Len(Interfaces[d]) THEN [q EXCEPT !.at = "report", !.next = 1]
                                              ELSE [q EXCEPT !.next = @ + 1], m)
<1> DEFINE d == q.device
           n == Len(Interfaces[d])
           i == Interfaces[d][q.next]
           m == [l EXCEPT ![d][i] = q.up]
           p == IF q.next = n THEN [q EXCEPT !.at = "report", !.next = 1]
                              ELSE [q EXCEPT !.next = @ + 1]
<1>1. /\ q \in Live /\ d \in Devices /\ SubjectOf(q) = d /\ q.dark \subseteq Ports(d)
      /\ n \in Nat \ {0} /\ q.next \in 1..n /\ i \in Ports(d) /\ q.up \in BOOLEAN
  <2>1. q \in Live /\ SubjectOf(q) = d /\ q.dark \subseteq Ports(d)
        /\ q.next \in 1..(n + 1) /\ q.next <= n
    BY DEF Sound, WellFormed, SubjectOf
  <2>2. d \in Devices /\ q.up \in BOOLEAN
    BY <2>1 DEF Live
  <2>3. n \in Nat \ {0}
    BY <2>2, PortsAreListed
  <2>4. q.next \in 1..n
    BY <2>1, <2>3
  <2> QED BY <2>1, <2>2, <2>3, <2>4, PortsAreListed
<1>2. /\ p \in Live /\ p.device = d /\ p.up = q.up /\ p.dark = q.dark
      /\ p.alone = q.alone /\ p.steady = q.steady /\ p.misread = q.misread
      /\ IF q.next = n THEN p.at = "report" /\ p.next = 1
                       ELSE p.at = "set" /\ p.next = q.next + 1
  <2>1. CASE q.next = n
    <3>1. p = [q EXCEPT !.at = "report", !.next = 1]
      BY <2>1
    <3> HIDE DEF p
    <3> QED BY <1>1, <2>1, <3>1 DEF Live
  <2>2. CASE q.next # n
    <3>1. p = [q EXCEPT !.next = q.next + 1] /\ q.next + 1 \in Nat
      BY <1>1, <2>2
    <3> HIDE DEF p
    <3> QED BY <1>1, <2>2, <3>1 DEF Live
  <2> QED BY <2>1, <2>2
<1>3. /\ \A x \in Ports(d) : m[d][x] = IF x = i THEN q.up ELSE l[d][x]
      /\ \A e \in Devices : e # d => m[e] = l[e]
  BY <1>1 DEF LinkType
<1> HIDE DEF p, m, i
<1>4. WellFormed(p)
  <2>1. SubjectOf(p) = d
    BY <1>2 DEF SubjectOf
  <2>2. p.next \in 1..(n + 1) /\ (p.at = "set" => p.next <= n)
    BY <1>1, <1>2
  <2>3. p.at # "check"
    BY <1>2
  <2>4. RequiredOnes(p.misread)
    BY <1>2 DEF Sound, WellFormed
  <2> QED BY <1>1, <1>2, <2>1, <2>2, <2>3, <2>4 DEF WellFormed
<1>5. SetSoFar(p, m)
  <2> SUFFICES ASSUME p.alone
               PROVE  /\ p.at = "set" => /\ \A x \in Passed(p, d) : m[d][x] = p.up
                                         /\ p.dark = {}
                      /\ p.at = "report" =>
                           /\ \A x \in Ports(d) : m[d][x] = p.up
                           /\ \A x \in Passed(p, d) \cap Required(d) :
                                (x \in p.dark) = ~p.up \/ ToldWrongly(p, d, x)
                           /\ p.dark \subseteq Passed(p, d)
    BY <1>2 DEF SetSoFar
  <2>1. (\A x \in Passed(q, d) : l[d][x] = q.up) /\ q.dark = {}
    BY <1>2 DEF Sound, SetSoFar
  <2>2. \A x \in Passed(q, d) : x \in Ports(d)
    BY <1>1, PortsAreListed DEF Passed
  <2>3. \A x \in Passed(q, d) \cup {i} : m[d][x] = q.up
    BY <1>1, <1>3, <2>1, <2>2
  <2>4. CASE q.next = n
    <3>1. Ports(d) = Passed(q, d) \cup {i}
      <4>1. 1..n = 1..(q.next - 1) \cup {q.next}
        BY <1>1, <2>4
      <4> QED BY <1>1, <4>1, PortsAreListed DEF Passed, i
    <3>2. Passed(p, d) = {}
      BY <1>2, <2>4 DEF Passed
    <3> QED BY <1>2, <2>1, <2>3, <2>4, <3>1, <3>2
  <2>5. CASE q.next # n
    <3>1. Passed(p, d) = Passed(q, d) \cup {i}
      <4>1. p.next = q.next + 1
        BY <1>2, <2>5
      <4> HIDE DEF d
      <4> QED BY <1>1, <4>1, PassedGrows DEF i
    <3> QED BY <1>2, <2>1, <2>3, <2>5, <3>1
  <2> QED BY <2>4, <2>5
<1>6. CoreSoFar(p, m)
  <2> SUFFICES ASSUME p.steady, p.up, d \in Switches, NEW x \in Required(Core)
               PROVE  m[Core][x] \/ ToldWrongly(p, Core, x)
    BY <1>2 DEF CoreSoFar
  <2>1. l[Core][x] \/ ToldWrongly(q, Core, x)
    BY <1>2 DEF Sound, CoreSoFar
  <2>2. Core \in Devices /\ Core # d
    BY DeviceAssumption
  <2> QED BY <1>2, <1>3, <2>1, <2>2 DEF ToldWrongly
<1> QED BY <1>4, <1>5, <1>6 DEF p, m, i, Sound

\* A change of device d by another request leaves this one sound.
LEMMA NoticeSound ==
  ASSUME NEW l, NEW m, NEW q, q # Idle, Sound(q, l), NEW d \in Devices,
         \A e \in Devices : e # d => m[e] = l[e]
  PROVE  Sound(Noticed(q, d), m)
<1> DEFINE p == Noticed(q, d)
<1>1. q \in Live /\ WellFormed(q)
  BY DEF Sound, WellFormed
<1>2. /\ p \in Live /\ p.at = q.at /\ p.device = q.device /\ p.up = q.up /\ p.next = q.next
      /\ p.dark = q.dark /\ p.misread = q.misread
      /\ p.alone = (q.alone /\ q.device # d) /\ p.steady = (q.steady /\ d # Core)
  BY <1>1 DEF Live, Noticed
<1> HIDE DEF p
<1>3. /\ \A e : Passed(p, e) = Passed(q, e)
      /\ \A e, x : ToldWrongly(p, e, x) <=> ToldWrongly(q, e, x)
  BY <1>2 DEF Passed, ToldWrongly
<1>4. WellFormed(p)
  BY <1>1, <1>2 DEF WellFormed, SubjectOf
<1>5. SetSoFar(p, m)
  <2> SUFFICES ASSUME p.alone PROVE SetSoFar(p, m)
    BY DEF SetSoFar
  <2>1. q.device \in Devices /\ m[q.device] = l[q.device]
    BY <1>1, <1>2 DEF Live
  <2>2. q.alone /\ q # Idle /\ SetSoFar(q, l)
    BY <1>2 DEF Sound
  <2> QED BY <1>2, <1>3, <2>1, <2>2 DEF SetSoFar
<1>6. CoreSoFar(p, m)
  <2> SUFFICES ASSUME p.steady PROVE CoreSoFar(p, m)
    BY DEF CoreSoFar
  <2>1. m[Core] = l[Core]
    BY <1>2, DeviceAssumption
  <2> QED BY <1>2, <1>3, <2>1 DEF Sound, CoreSoFar
<1> QED BY <1>4, <1>5, <1>6 DEF p, Sound
-----------------------------------------------------------------------------
(* Steps *)

\* A request that is sound is typed.
LEMMA SoundIsTyped ==
  ASSUME NEW q, WellFormed(q)
  PROVE  /\ q \in RequestType
         /\ q # Idle => /\ q.dark \subseteq Ports(SubjectOf(q))
                        /\ q.next <= Len(Interfaces[SubjectOf(q)]) + 1
<1>1. q \in RequestType
  BY DEF WellFormed, Live, RequestType
<1>2. ASSUME q # Idle PROVE q.next <= Len(Interfaces[SubjectOf(q)]) + 1
  <2>1. q \in Live /\ q.next \in 1..(Len(Interfaces[SubjectOf(q)]) + 1)
    BY <1>2 DEF WellFormed
  <2> QED BY <2>1, SubjectIsDevice, PortsAreListed
<1> QED BY <1>1, <1>2 DEF WellFormed

\* The parts of the invariant, after a step, are the invariant after the step.
LEMMA Assemble ==
  ASSUME LinkType(link'), DOMAIN request' = Requests,
         request' = [r \in Requests |-> request'[r]],
         \A r \in Requests : Sound(request'[r], link'),
         DOMAIN routes' = Devices,
         \A d \in Devices : routes'[d] \subseteq {i \in StaticRoutes[d] : link'[d][i]},
         \A c \in late' : CommandOK(c)
  PROVE  IInv'
<1>1. \A r \in Requests : WellFormed(request'[r])
  BY DEF Sound
<1>2. request' \in [Requests -> RequestType]
  BY <1>1, SoundIsTyped
<1>3. ASSUME NEW r \in Requests, request'[r] # Idle
      PROVE  /\ request'[r].dark \subseteq Ports(Subject(r)')
             /\ request'[r].next <= Len(Interfaces[Subject(r)']) + 1
  BY <1>1, <1>3, SoundIsTyped DEF Subject, SubjectOf
<1> QED BY <1>2, <1>3 DEF IInv, TypeOK, LinkType, CommandOK

\* A step that only moves request r on.
LEMMA MoveOn ==
  ASSUME IInv, NEW r \in Requests, NEW p, Sound(p, link),
         request' = [request EXCEPT ![r] = p], UNCHANGED <<link, routes>>,
         \A c \in late' : CommandOK(c)
  PROVE  IInv'
<1>1. /\ LinkType(link) /\ request \in [Requests -> RequestType] /\ DOMAIN routes = Devices
      /\ \A k \in Requests : Sound(request[k], link)
      /\ \A d \in Devices : routes[d] \subseteq {i \in StaticRoutes[d] : link[d][i]}
  BY DEF IInv, TypeOK, LinkType
<1>2. /\ DOMAIN request' = Requests /\ request' = [k \in Requests |-> request'[k]]
      /\ \A k \in Requests : Sound(request'[k], link')
  BY <1>1
<1> QED BY <1>1, <1>2, Assemble

\* A command on a link of device d, which every request notices but those that are sound
\* without: the one that sent it.
LEMMA ChangeLink ==
  ASSUME IInv, NEW d \in Devices, NEW i \in Ports(d), NEW up \in BOOLEAN,
         TakesLink(d, i, up), request' = [k \in Requests |-> request'[k]],
         \A k \in Requests : request'[k] = Noticed(request[k], d) \/ Sound(request'[k], link'),
         \A c \in late' : CommandOK(c)
  PROVE  IInv'
<1>1. /\ LinkType(link) /\ DOMAIN request = Requests /\ DOMAIN routes = Devices
      /\ \A k \in Requests : Sound(request[k], link)
      /\ \A e \in Devices : routes[e] \subseteq {x \in StaticRoutes[e] : link[e][x]}
  BY DEF IInv, TypeOK, LinkType
<1>2. /\ LinkType(link')
      /\ \A x \in Ports(d) : link'[d][x] = IF x = i THEN up ELSE link[d][x]
      /\ \A e \in Devices : e # d => link'[e] = link[e]
  BY <1>1 DEF LinkType, TakesLink
<1>3. /\ DOMAIN routes' = Devices
      /\ \A e \in Devices : routes'[e] \subseteq {x \in StaticRoutes[e] : link'[e][x]}
  <2>1. /\ DOMAIN routes' = Devices
        /\ \A e \in Devices : e # d => routes'[e] = routes[e]
        /\ routes'[d] = IF up THEN routes[d] ELSE routes[d] \ {i}
    BY <1>1 DEF TakesLink
  <2>2. \A x \in StaticRoutes[d] : x \in Ports(d)
    BY DeviceAssumption
  <2> QED BY <1>1, <1>2, <2>1, <2>2
<1>4. ASSUME NEW k \in Requests PROVE Sound(request'[k], link')
  <2>1. CASE request'[k] = Noticed(request[k], d) /\ request[k] = Idle
    BY <2>1, IdleSound DEF Noticed
  <2>2. CASE request'[k] = Noticed(request[k], d) /\ request[k] # Idle
    BY <1>1, <1>2, <2>2, NoticeSound
  <2> QED BY <2>1, <2>2
<1>5. DOMAIN request' = Requests
  OBVIOUS
<1> QED BY <1>2, <1>3, <1>4, <1>5, Assemble

LEMMA InvInit == Init => IInv
<1> SUFFICES ASSUME Init PROVE IInv
  OBVIOUS
<1>1. \A r \in Requests : request[r] = Idle
  BY DEF Init
<1>2. \A r \in Requests : Sound(request[r], link)
  BY <1>1, IdleSound
<1>3. request \in [Requests -> RequestType]
  BY DEF Init, RequestType
<1>4. DOMAIN link = Devices /\ \A d \in Devices : link[d] \in [Ports(d) -> BOOLEAN]
  BY DEF Init
<1>5. DOMAIN routes = Devices /\ \A d \in Devices : routes[d] \subseteq {i \in StaticRoutes[d] : link[d][i]}
  BY DeviceAssumption DEF Init
<1>6. late = {}
  BY DEF Init
<1> QED BY <1>1, <1>2, <1>3, <1>4, <1>5, <1>6 DEF IInv, TypeOK

LEMMA InvNext == IInv /\ [Next]_vars => IInv'
<1>1. ASSUME IInv, UNCHANGED vars PROVE IInv'
  BY <1>1 DEF vars, IInv, TypeOK, Subject, LinkType, Sound, SetSoFar, CoreSoFar
<1>2. ASSUME IInv, NEW c \in late, TakesEffectLate(c) PROVE IInv'
  <2>1. CommandOK(c) /\ \A e \in late' : CommandOK(e)
    BY <1>2 DEF IInv, TypeOK, TakesEffectLate, CommandOK
  <2>2. request' = [k \in Requests |-> request'[k]]
    BY <1>2 DEF TakesEffectLate
  <2>3. \A k \in Requests : request'[k] = Noticed(request[k], c.device)
    BY <1>2 DEF TakesEffectLate
  <2>4. TakesLink(c.device, c.port, c.up)
    BY <1>2 DEF TakesEffectLate
  <2> QED BY <1>2, <2>1, <2>2, <2>3, <2>4, ChangeLink DEF CommandOK
<1> SUFFICES ASSUME IInv, NEW r \in Requests, InfrastructureAction(r) PROVE IInv'
  BY <1>1, <1>2 DEF Next
<1> DEFINE q == request[r]
<1>3. /\ Sound(q, link) /\ LinkType(link) /\ WellFormed(q)
      /\ \A c \in late : CommandOK(c)
  BY DEF IInv, TypeOK, LinkType, Sound, CommandOK
<1>4. q # Idle => Subject(r) = SubjectOf(q) /\ q \in Live
  BY <1>3 DEF Subject, SubjectOf, WellFormed
<1>5. Idle.at = "idle"
  BY DEF Idle
<1>6. ASSUME NEW d \in Devices, NEW up \in BOOLEAN, Begin(r, d, up) PROVE IInv'
  BY <1>3, <1>6, BeginSound, MoveOn DEF Begin
<1>7. ASSUME NEW up \in BOOLEAN, ReadsInterface(r, up) PROVE IInv'
  <2>1. q # Idle /\ q.at \in {"check", "report"} /\ q.next <= Len(Interfaces[SubjectOf(q)])
    BY <1>4, <1>5, <1>7 DEF ReadsInterface, Reading
  <2> DEFINE p == Told(q, link, up)
  <2>2. Sound(p, link)
    BY <1>3, <2>1, ReadSound
  <2>3. request' = [request EXCEPT ![r] = p] /\ UNCHANGED <<link, routes, late>>
    BY <1>4, <1>7, <2>1 DEF ReadsInterface, Told
  <2> HIDE DEF p
  <2> QED BY <1>3, <2>2, <2>3, MoveOn
<1>8. CASE ReadFails(r)
  BY <1>3, <1>8, IdleSound, MoveOn DEF ReadFails
<1>9. CASE CoreChecked(r)
  <2>1. /\ q # Idle /\ q.at = "check" /\ SubjectOf(q) = Core
        /\ q.next > Len(Interfaces[Core])
        /\ SeenUp(r) <=> q.dark \cap Required(Core) = {}
    BY <1>4, <1>5, <1>9 DEF CoreChecked, HasRead, SeenUp, SubjectOf
  <2> DEFINE p == IF SeenUp(r) THEN [q EXCEPT !.at = "set", !.next = 1, !.dark = {}] ELSE Idle
  <2>2. Sound(p, link)
    BY <1>3, <2>1, CheckedSound, IdleSound
  <2>3. request' = [request EXCEPT ![r] = p] /\ UNCHANGED <<link, routes, late>>
    BY <1>9 DEF CoreChecked
  <2> HIDE DEF p
  <2> QED BY <1>3, <2>2, <2>3, MoveOn
<1>10. ASSUME q.at = "set"
      PROVE  /\ q # Idle /\ q.device \in Devices /\ q.up \in BOOLEAN
             /\ Interfaces[q.device][q.next] \in Ports(q.device)
  <2>1. /\ q # Idle /\ q.device \in Devices /\ q.up \in BOOLEAN
        /\ q.next \in 1..(Len(Interfaces[q.device]) + 1) /\ q.next <= Len(Interfaces[q.device])
    BY <1>3, <1>5, <1>10 DEF WellFormed, SubjectOf, Live
  <2> QED BY <2>1, PortsAreListed
<1>11. ASSUME NEW p, Notice(r, q.device, p)
       PROVE  /\ request' = [k \in Requests |-> request'[k]] /\ request'[r] = p
              /\ \A k \in Requests \ {r} : request'[k] = Noticed(request[k], q.device)
  BY <1>11 DEF Notice
<1>12. CASE SetsInterface(r)
  <2> DEFINE d == q.device
             i == Interfaces[d][q.next]
             p == IF q.next = Len(Interfaces[d]) THEN [q EXCEPT !.at = "report", !.next = 1]
                                                 ELSE [q EXCEPT !.next = @ + 1]
  <2>1. q.at = "set" /\ TakesLink(d, i, q.up) /\ Notice(r, d, p) /\ late' = late
    BY <1>12 DEF SetsInterface, ToSet
  <2>2. link' = [link EXCEPT ![d][i] = q.up]
    BY <2>1 DEF TakesLink
  <2>3. Sound(p, link')
    BY <1>3, <1>10, <2>1, <2>2, SetSound
  <2> HIDE DEF p
  <2>4. /\ request' = [k \in Requests |-> request'[k]]
        /\ \A k \in Requests : request'[k] = Noticed(request[k], d) \/ Sound(request'[k], link')
    BY <1>11, <2>1, <2>3
  <2> QED BY <1>3, <1>10, <2>1, <2>4, ChangeLink
<1>13. CASE SetFails(r)
  <2> DEFINE d == q.device
             i == Interfaces[d][q.next]
  <2>1. q.at = "set"
    BY <1>13 DEF SetFails
  <2>2. ASSUME late' \in {late} \cup {late \cup {[device |-> d, port |-> i, up |-> q.up]}},
               request' = [request EXCEPT ![r] = Idle], UNCHANGED <<link, routes>>
        PROVE  IInv'
    <3>1. CommandOK([device |-> d, port |-> i, up |-> q.up])
      BY <1>10, <2>1 DEF CommandOK
    <3>2. \A c \in late' : CommandOK(c)
      BY <1>3, <2>2, <3>1
    <3> QED BY <2>2, <3>2, IdleSound, MoveOn
  <2>3. ASSUME TakesLink(d, i, q.up), Notice(r, d, Idle), late' = late
        PROVE  IInv'
    <3>1. /\ request' = [k \in Requests |-> request'[k]]
          /\ \A k \in Requests : request'[k] = Noticed(request[k], d) \/ Sound(request'[k], link')
      BY <1>11, <2>3, IdleSound
    <3> QED BY <1>3, <1>10, <2>1, <2>3, <3>1, ChangeLink
  <2> QED BY <1>13, <2>2, <2>3 DEF SetFails, ToSet
<1>14. CASE Replies(r)
  BY <1>3, <1>14, IdleSound, MoveOn DEF Replies
<1> QED BY <1>6, <1>7, <1>8, <1>9, <1>12, <1>13, <1>14 DEF InfrastructureAction

LEMMA Invariant == Spec => []IInv
<1> QED BY InvInit, InvNext, PTL DEF Spec
-----------------------------------------------------------------------------
(* Theorems *)

\* Links and requests keep their types, a request holds readings of its subject only, and
\* no static route runs over an interface that is down.
THEOREM TypeCorrect == Spec => []TypeOK
<1>1. IInv => TypeOK
  BY DEF IInv
<1> QED BY <1>1, Invariant, PTL

\* infrastructure_action: an action that nothing else disturbed has set every interface of
\* its device when it reads them back; its reply may say otherwise of a restoration only if
\* an interface was read wrongly, and of a disabled device only if all were.
THEOREM UndisturbedAction == Spec => []UndisturbedActionTakesEffect
<1>1. IInv => UndisturbedActionTakesEffect
  <2> SUFFICES ASSUME IInv, NEW r \in Requests, request[r].at = "report", request[r].alone
               PROVE  /\ AllAre(request[r].device, request[r].up)
                      /\ HasRead(r) /\ request[r].up /\ ~SeenUp(r) => Misread(r) # {}
                      /\ HasRead(r) /\ ~request[r].up /\ SeenUp(r)
                           => Misread(r) = Required(request[r].device)
    BY DEF UndisturbedActionTakesEffect
  <2> DEFINE q == request[r]
             d == q.device
  <2>1. q # Idle /\ Sound(q, link) /\ WellFormed(q)
    BY DEF IInv, Sound, Idle
  <2>2. q \in Live /\ Subject(r) = d /\ d \in Devices /\ q.next \in 1..(Len(Interfaces[d]) + 1)
    BY <2>1 DEF WellFormed, Live, Subject, SubjectOf
  <2>3. /\ \A i \in Ports(d) : link[d][i] = q.up
        /\ \A i \in Passed(q, d) \cap Required(d) : (i \in q.dark) = ~q.up \/ ToldWrongly(q, d, i)
    BY <2>1 DEF Sound, SetSoFar
  <2>4. Misread(r) = {i \in Ports(d) : ToldWrongly(q, d, i)}
    BY DEF Misread, ToldWrongly
  <2>5. Required(d) \subseteq Ports(d) /\ \A i \in Misread(r) : i \in Required(d)
    BY <2>1, <2>2, <2>4 DEF Required, ToldWrongly, WellFormed, RequiredOnes
  <2>6. ASSUME HasRead(r)
        PROVE  \A i \in Required(d) : (i \in q.dark) = ~q.up \/ i \in Misread(r)
    <3>1. Passed(q, d) = Ports(d)
      <4>1. q.next = Len(Interfaces[d]) + 1
        BY <2>2, <2>6, PortsAreListed DEF HasRead
      <4> QED BY <2>2, <4>1, PassedAll
    <3> QED BY <2>3, <2>4, <2>5, <3>1
  <2>7. SeenUp(r) <=> q.dark \cap Required(d) = {}
    BY <2>2 DEF SeenUp
  <2>8. q.up \in BOOLEAN
    BY <2>2 DEF Live
  <2>9. ASSUME HasRead(r), q.up, ~SeenUp(r) PROVE Misread(r) # {}
    BY <2>6, <2>7, <2>9
  <2>10. ASSUME HasRead(r), ~q.up, SeenUp(r) PROVE Misread(r) = Required(d)
    BY <2>5, <2>6, <2>7, <2>8, <2>10
  <2> QED BY <2>3, <2>9, <2>10 DEF AllAre
<1> QED BY <1>1, Invariant, PTL

\* The order of recovery: while an access switch is being restored, and when the request
\* replies, every interface CORE01 depends on is up, unless CORE01 itself was changed since
\* the request began, or the state of the interface could not be told from the answer.
THEOREM RecoveryOrder == Spec => []RestoredUnderCore
<1>1. IInv => RestoredUnderCore
  <2> SUFFICES ASSUME IInv, NEW r \in Requests, request[r].at \in {"set", "report"},
                      request[r].up, request[r].device \in Switches, request[r].steady
               PROVE  \A i \in Required(Core) : link[Core][i] \/ <<Core, i>> \in request[r].misread
    BY DEF RestoredUnderCore
  <2>1. request[r] # Idle /\ Sound(request[r], link)
    BY DEF IInv, Idle
  <2> QED BY <2>1 DEF Sound, CoreSoFar, ToldWrongly
<1> QED BY <1>1, Invariant, PTL
=============================================================================
