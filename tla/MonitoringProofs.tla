--------------------------- MODULE MonitoringProofs ---------------------------
(***************************************************************************)
(* Theorems about Monitoring, for all devices, dependencies, issues and    *)
(* numbers of polls.  A poll judges the lab by reads of different moments. *)
(* What makes its verdict true is that an alert whose condition never went *)
(* away is confirmed by every mixture of old and new reads: by View, which *)
(* completes the reads made so far with what the other devices would       *)
(* report now.  A device whose reading is begun belongs to these others as *)
(* long as it does not change and answers rightly: its answers so far are  *)
(* those it would give now (ReadSoFar).                                    *)
(***************************************************************************)
EXTENDS Monitoring, FiniteSetTheorems, SequenceTheorems, TLAPS

Gathering(q) ==
  /\ q = [at |-> "gather", answered |-> q.answered, found |-> q.found, asked |-> q.asked,
          dark |-> q.dark, seen |-> q.seen, latest |-> q.latest, blurred |-> q.blurred]
  /\ q.answered \in BOOLEAN /\ q.latest \in BOOLEAN /\ q.found \subseteq Issues
  /\ q.dark \subseteq Devices /\ q.blurred \subseteq Devices
  /\ q.asked = [d \in Devices |-> q.asked[d]]
  /\ \A d \in Devices : q.asked[d] \in 0..Len(Links[d])
  /\ q.seen = [d \in DOMAIN q.seen |-> q.seen[d]]
  /\ DOMAIN q.seen \subseteq Devices
  /\ \A d \in DOMAIN q.seen : q.seen[d] \in Outcomes(d) /\ q.asked[d] = Len(Links[d])

\* What a poll was told of a device whose reading is not finished is still so, unless the
\* device changed since or answered wrongly.
ReadSoFar(q, dev) ==
  \A d \in Devices \ DOMAIN q.seen :
    /\ q.asked[d] \in {0, Len(Links[d])} => d \notin q.dark
    /\ d \notin q.blurred =>
         /\ d \in q.dark => dev[d].down # {}
         /\ d \notin q.dark => \A k \in 1..q.asked[d] : Links[d][k] \notin dev[d].down

LabOK ==
  /\ device = [d \in Devices |-> device[d]]
  /\ \A d \in Devices : device[d] \in States(d)
  /\ issues \subseteq Issues /\ directory \in BOOLEAN /\ changes \in 0..MaxChanges

PollsOK ==
  /\ poll = [p \in Polls |-> poll[p]]
  /\ \A p \in Polls : poll[p] = IdlePoll \/ (Gathering(poll[p]) /\ ReadSoFar(poll[p], device))

TrackerOK ==
  /\ nextId \in Nat \ {0}
  /\ DOMAIN alerts \subseteq 1..(nextId - 1)
  /\ \A id \in DOMAIN alerts : alerts[id] = [key |-> alerts[id].key, status |-> alerts[id].status]
                               /\ alerts[id].status \in {"active", "resolved"}
  /\ \A key \in DOMAIN active : key.kind \in Kinds /\ active[key] \in 1..(nextId - 1)
  /\ \A a, b \in DOMAIN active : active[a] = active[b] => a = b

\* The open conditions that have been there ever since their alerts were opened.
Lasting == {key \in DOMAIN active : active[key] \notin recovered}

\* What is read so far, completed with what the other devices would report now.
View(seen, dev) == [d \in Devices |-> IF d \in DOMAIN seen THEN seen[d] ELSE Status(dev[d])]

\* The poll will find the condition if the lab does not change any more.
Foresees(q, key, dev) == key \in ConditionsFromState(View(q.seen, dev), q.found, TRUE)

\* The reads that decide the condition are of one moment and right, as far as they go.
Clear(q, key) == Readings(key) \cap q.blurred = {}

Truthful ==
  \A p \in Polls : poll[p].at = "gather" /\ poll[p].latest /\ poll[p].answered
    => \A key \in Lasting : Clear(poll[p], key) => Foresees(poll[p], key, device)

IInv ==
  /\ LabOK /\ PollsOK /\ TrackerOK
  /\ ShownAlertsAreTracked
  /\ Lasting \subseteq Conditions
  /\ Truthful
-----------------------------------------------------------------------------
(* The conditions of one set of reads *)

\* What puts key among them, one kind after the other.
Condition(key, seen, found, answered) ==
  LET d == key.subject IN
  /\ key = Key(key.kind, d, key.detail)
  /\ \/ /\ key.kind = "availability" /\ d \in Devices /\ key.detail = ""
        /\ Down(seen[d].status)
     \/ /\ key.kind = "dependency" /\ d \in Devices /\ key.detail = ""
        /\ ~Down(seen[d].status) /\ Impacted(seen, d)
     \/ /\ key.kind = "attention" /\ d \in Devices /\ key.detail = ""
        /\ TypeOf[d] = "printer" /\ seen[d].status = "attention"
     \/ /\ key.kind = "service" /\ d \in Devices /\ key.detail \in seen[d].faults
        /\ TypeOf[d] = "file_server" /\ seen[d].status = "online"
     \/ key.kind = "directory" /\ d = "DC01" /\ key.detail = "" /\ ~answered
     \/ key.kind = "account" /\ \E issue \in found : issue[1] = d /\ issue[2] = key.detail

LEMMA KeyFields ==
  ASSUME NEW key, NEW kind, NEW subject, NEW detail
  PROVE  key = Key(kind, subject, detail)
           <=> /\ key = Key(key.kind, key.subject, key.detail)
               /\ key.kind = kind /\ key.subject = subject /\ key.detail = detail
BY DEF Key

\* conditions_from_state reports a condition exactly for one of these reasons.
LEMMA Reasons ==
  ASSUME NEW seen, NEW found, NEW answered, NEW key
  PROVE  key \in ConditionsFromState(seen, found, answered)
           <=> Condition(key, seen, found, answered)
<1> DEFINE downs == {d \in Devices : Down(seen[d].status)}
           A == {Key("availability", d, "") : d \in downs}
           B == {Key("dependency", d, "") : d \in {d \in Devices \ downs : Impacted(seen, d)}}
           C == {Key("attention", d, "") :
                   d \in {d \in Devices : TypeOf[d] = "printer" /\ seen[d].status = "attention"}}
           D == UNION {{Key("service", d, fault) : fault \in seen[d].faults} :
                   d \in {d \in Devices : TypeOf[d] = "file_server" /\ seen[d].status = "online"}}
           E == IF answered THEN {} ELSE {Key("directory", "DC01", "")}
           F == {Key("account", issue[1], issue[2]) : issue \in found}
           IsKey == key = Key(key.kind, key.subject, key.detail)
           d == key.subject
<1>0. \A kind, subject, detail :
        key = Key(kind, subject, detail)
          <=> IsKey /\ key.kind = kind /\ key.subject = subject /\ key.detail = detail
  BY KeyFields
<1>1. ConditionsFromState(seen, found, answered) = UNION {A, B, C, D, E, F}
  BY DEF ConditionsFromState
<1>2. key \in UNION {A, B, C, D, E, F}
        <=> key \in A \/ key \in B \/ key \in C \/ key \in D \/ key \in E \/ key \in F
  <2> HIDE DEF A, B, C, D, E, F
  <2> QED OBVIOUS
<1>3. key \in A <=> /\ IsKey /\ key.kind = "availability" /\ d \in Devices /\ key.detail = ""
                   /\ Down(seen[d].status)
  <2>1. key \in A <=> \E e \in Devices : key = Key("availability", e, "") /\ Down(seen[e].status)
    BY Zenon
  <2> HIDE DEF A, IsKey
  <2> QED BY <1>0, <2>1, Zenon
<1>4. key \in B <=> /\ IsKey /\ key.kind = "dependency" /\ d \in Devices /\ key.detail = ""
                   /\ ~Down(seen[d].status) /\ Impacted(seen, d)
  <2>1. key \in B <=> \E e \in Devices : key = Key("dependency", e, "") /\ ~Down(seen[e].status)
                                     /\ Impacted(seen, e)
    BY Zenon
  <2> HIDE DEF B, IsKey
  <2> QED BY <1>0, <2>1, Zenon
<1>5. key \in C <=> /\ IsKey /\ key.kind = "attention" /\ d \in Devices /\ key.detail = ""
                   /\ TypeOf[d] = "printer" /\ seen[d].status = "attention"
  <2>1. key \in C <=> \E e \in Devices : key = Key("attention", e, "") /\ TypeOf[e] = "printer"
                                     /\ seen[e].status = "attention"
    BY ZenonT(30)
  <2> HIDE DEF C, IsKey
  <2> QED BY <1>0, <2>1, Zenon
<1>6. key \in D <=> /\ IsKey /\ key.kind = "service" /\ d \in Devices
                   /\ key.detail \in seen[d].faults
                   /\ TypeOf[d] = "file_server" /\ seen[d].status = "online"
  <2>1. key \in D <=> \E e \in Devices : \E fault \in seen[e].faults :
                     key = Key("service", e, fault) /\ TypeOf[e] = "file_server"
                       /\ seen[e].status = "online"
    OBVIOUS
  <2> HIDE DEF D
  <2> QED BY <2>1, KeyFields
<1>7. key \in E <=> /\ IsKey /\ key.kind = "directory" /\ d = "DC01" /\ key.detail = ""
                   /\ ~answered
  <2>1. key \in E <=> key = Key("directory", "DC01", "") /\ ~answered
    OBVIOUS
  <2> HIDE DEF E, IsKey
  <2> QED BY <1>0, <2>1, Zenon
<1>8. key \in F <=> /\ IsKey /\ key.kind = "account" 
                   /\ \E issue \in found : issue[1] = d /\ issue[2] = key.detail
  <2>1. key \in F <=> \E issue \in found : key = Key("account", issue[1], issue[2])
    BY Zenon
  <2> HIDE DEF F
  <2> QED BY <2>1, KeyFields
<1> QED
  <2> HIDE DEF A, B, C, D, E, F, IsKey
  <2>1. Condition(key, seen, found, answered)
          <=> key \in A \/ key \in B \/ key \in C \/ key \in D \/ key \in E \/ key \in F
    BY <1>3, <1>4, <1>5, <1>6, <1>7, <1>8, Zenon DEF Condition, IsKey
  <2> QED BY <1>1, <1>2, <2>1

\* Only what was read of the devices that decide a condition counts.
LEMMA SameReads ==
  ASSUME NEW seen, NEW other, NEW found, NEW key,
         \A d \in Devices \cap Readings(key) : seen[d] = other[d]
  PROVE  key \in ConditionsFromState(seen, found, TRUE)
           <=> key \in ConditionsFromState(other, found, TRUE)
<1> DEFINE d == key.subject
<1> SUFFICES Condition(key, seen, found, TRUE) <=> Condition(key, other, found, TRUE)
  BY Reasons
<1>1. CASE key.kind \notin {"directory", "account"} /\ d \in Devices
  <2>1. seen[d] = other[d]
    BY <1>1 DEF Readings
  <2>2. key.kind = "dependency" => (Impacted(seen, d) <=> Impacted(other, d))
    BY <1>1, LabAssumption DEF Readings, Impacted
  <2> QED BY <1>1, <2>1, <2>2 DEF Condition
<1>2. CASE key.kind \in {"directory", "account"} \/ d \notin Devices
  BY <1>2 DEF Condition
<1> QED BY <1>1, <1>2

LEMMA KnownKinds ==
  ASSUME NEW seen, NEW found, NEW answered
  PROVE  \A key \in ConditionsFromState(seen, found, answered) : key.kind \in Kinds
<1> SUFFICES ASSUME NEW key \in ConditionsFromState(seen, found, answered)
             PROVE  key.kind \in Kinds
  OBVIOUS
<1>1. Condition(key, seen, found, answered)
  BY Reasons
<1>2. key.kind \in {"availability", "dependency", "attention", "service", "directory", "account"}
  BY <1>1 DEF Condition
<1> QED BY <1>2 DEF Kinds

LEMMA ImageIsFinite ==
  ASSUME NEW S, IsFiniteSet(S), NEW f, f = [x \in S |-> f[x]]
  PROVE  IsFiniteSet(Range(f))
<1>1. f \in Surjection(S, Range(f))
  BY DEF Surjection, Range
<1> QED BY <1>1, FS_Surjection

\* What a snapshot reports is finite, because the lab is.
LEMMA FinitelyMany ==
  ASSUME NEW seen, NEW found, NEW answered, found \subseteq Issues,
         \A d \in Devices : seen[d] \in Outcomes(d)
  PROVE  IsFiniteSet(ConditionsFromState(seen, found, answered))
<1> DEFINE ofDevice(kind) == [d \in Devices |-> Key(kind, d, "")]
           services == [d \in Devices |->
                          Range([fault \in seen[d].faults |-> Key("service", d, fault)])]
           accounts == [issue \in found |-> Key("account", issue[1], issue[2])]
           All == UNION {Range(ofDevice("availability")), Range(ofDevice("dependency")),
                         Range(ofDevice("attention")), UNION Range(services),
                         {Key("directory", "DC01", "")}, Range(accounts)}
<1>1. IsFiniteSet(Devices) /\ IsFiniteSet(found)
  BY LabAssumption, FS_Subset
<1>2. \A kind : IsFiniteSet(Range(ofDevice(kind)))
  BY <1>1, ImageIsFinite
<1>3. IsFiniteSet(Range(accounts))
  BY <1>1, ImageIsFinite
<1>4. IsFiniteSet(UNION Range(services))
  <2>1. IsFiniteSet(Range(services))
    BY <1>1, ImageIsFinite
  <2>2. ASSUME NEW d \in Devices
        PROVE  IsFiniteSet(services[d])
    <3>1. IsFiniteSet(seen[d].faults)
      <4>1. seen[d] \in Reports[d] => IsFiniteSet(seen[d].faults)
        BY LabAssumption
      <4>2. seen[d] \in {Offline, Unavailable} => IsFiniteSet(seen[d].faults)
        BY FS_EmptySet DEF Offline, Unavailable
      <4> QED BY <4>1, <4>2 DEF Outcomes
    <3> QED BY <3>1, ImageIsFinite
  <2>3. \A T \in Range(services) : IsFiniteSet(T)
    <3> HIDE DEF services
    <3>1. DOMAIN services = Devices
      BY DEF services
    <3> QED BY <2>2, <3>1 DEF Range
  <2> HIDE DEF services
  <2> QED BY <2>1, <2>3, FS_UNION
<1>5. IsFiniteSet(All)
  <2> DEFINE P == {Range(ofDevice("availability")), Range(ofDevice("dependency")),
                   Range(ofDevice("attention")), UNION Range(services),
                   {Key("directory", "DC01", "")}, Range(accounts)}
  <2>1. \A a, b, c, d, e, f : IsFiniteSet({a, b, c, d, e, f})
    <3> TAKE a, b, c, d, e, f
    <3>1. IsFiniteSet({a}) /\ IsFiniteSet({b}) /\ IsFiniteSet({c})
          /\ IsFiniteSet({d}) /\ IsFiniteSet({e}) /\ IsFiniteSet({f})
      BY FS_Singleton, Zenon
    <3>2. IsFiniteSet({a} \cup {b}) /\ IsFiniteSet({c} \cup {d}) /\ IsFiniteSet({e} \cup {f})
      BY <3>1, FS_Union
    <3>3. IsFiniteSet(({a} \cup {b}) \cup ({c} \cup {d}))
      BY <3>2, FS_Union
    <3>4. IsFiniteSet((({a} \cup {b}) \cup ({c} \cup {d})) \cup ({e} \cup {f}))
      BY <3>2, <3>3, FS_Union
    <3>5. (({a} \cup {b}) \cup ({c} \cup {d})) \cup ({e} \cup {f}) = {a, b, c, d, e, f}
      OBVIOUS
    <3> QED BY <3>4, <3>5
  <2>2. IsFiniteSet({Key("directory", "DC01", "")})
    BY FS_Singleton, Zenon
  <2> HIDE DEF ofDevice, services, accounts
  <2>3. \A T \in P : IsFiniteSet(T)
    BY <1>2, <1>3, <1>4, <2>2
  <2>4. IsFiniteSet(P)
    BY <2>1
  <2>5. All = UNION P
    OBVIOUS
  <2> HIDE DEF P, All
  <2> QED BY <2>3, <2>4, <2>5, FS_UNION
<1>6. ASSUME NEW key \in ConditionsFromState(seen, found, answered)
      PROVE  key \in All
  <2> DEFINE d == key.subject
  <2>1. Condition(key, seen, found, answered)
    BY Reasons
  <2>2. ASSUME d \in Devices, NEW kind, key = Key(kind, d, "")
        PROVE  key \in Range(ofDevice(kind))
    BY <2>2 DEF Range
  <2>3. ASSUME d \in Devices, key.detail \in seen[d].faults, key = Key("service", d, key.detail)
        PROVE  key \in UNION Range(services)
    <3>1. key \in services[d]
      BY <2>3 DEF Range
    <3>2. services[d] \in Range(services)
      BY <2>3 DEF Range
    <3> QED BY <3>1, <3>2
  <2>4. ASSUME NEW issue \in found, key = Key("account", issue[1], issue[2])
        PROVE  key \in Range(accounts)
    BY <2>4 DEF Range
  <2> HIDE DEF ofDevice, services, accounts
  <2> QED BY <2>1, <2>2, <2>3, <2>4 DEF Condition
<1> HIDE DEF All
<1> QED BY <1>5, <1>6, FS_Subset
-----------------------------------------------------------------------------
(* One reconciliation *)

\* New conditions get different numbers, none given out before.
LEMMA NumbersAreNew ==
  ASSUME nextId \in Nat \ {0}, NEW new, IsFiniteSet(new)
  PROVE  /\ Cardinality(new) \in Nat
         /\ Numbering(new) \in [new -> nextId..(nextId + Cardinality(new) - 1)]
         /\ IsInjective(Numbering(new))
<1> DEFINE n == Cardinality(new)
           S == [new -> nextId..(nextId + n - 1)]
<1>1. n \in Nat /\ ExistsBijection(1..n, new)
  BY FS_CardinalityType
<1>2. PICK f \in Bijection(1..n, new) : TRUE
  BY <1>1 DEF ExistsBijection
<1>3. /\ f \in [1..n -> new]
      /\ \A key \in new : \E i \in 1..n : f[i] = key
  BY <1>2 DEF Bijection, Injection, Surjection
<1> DEFINE index(key) == CHOOSE i \in 1..n : f[i] = key
           number == [key \in new |-> nextId + index(key) - 1]
<1>4. \A key \in new : index(key) \in 1..n /\ f[index(key)] = key
  BY <1>3
<1> HIDE DEF n, index
<1>5. number \in S
  BY <1>1, <1>4
<1>6. IsInjective(number)
  <2> SUFFICES ASSUME NEW a \in new, NEW b \in new,
                      nextId + index(a) - 1 = nextId + index(b) - 1
               PROVE  a = b
    BY DEF IsInjective
  <2>1. index(a) = index(b)
    BY <1>1, <1>4
  <2> QED BY <1>4, <2>1
<1>7. \E choice \in S : IsInjective(choice)
  BY <1>5, <1>6
<1>8. Numbering(new) = CHOOSE choice \in S : IsInjective(choice)
  BY DEF Numbering, n
<1>9. Numbering(new) \in S /\ IsInjective(Numbering(new))
  <2> HIDE DEF S
  <2> QED BY <1>7, <1>8
<1> QED BY <1>1, <1>9 DEF n

\* A reconciliation leaves open exactly the conditions it is given; those that were open
\* keep their alerts.
LEMMA Reconciled ==
  ASSUME TrackerOK, ShownAlertsAreTracked,
         NEW conditions, IsFiniteSet(conditions), \A key \in conditions : key.kind \in Kinds,
         Reconcile(conditions)
  PROVE  /\ TrackerOK' /\ ShownAlertsAreTracked'
         /\ DOMAIN active' = conditions
         /\ \A key \in DOMAIN active \cap conditions : active'[key] = active[key]
<1> DEFINE new == New(conditions)
           number == Numbering(new)
           opened == [id \in Range(number) |->
                        [key |-> CHOOSE key \in new : number[key] = id, status |-> "active"]]
           resolved == Resolve(alerts, Gone(conditions))
           all == DOMAIN resolved \cup DOMAIN opened
<1>1. new = conditions \ DOMAIN active /\ IsFiniteSet(new)
  BY FS_Difference DEF New
<1>2. nextId \in Nat \ {0} /\ Cardinality(new) \in Nat
  BY <1>1, NumbersAreNew DEF TrackerOK
<1>3. /\ number \in [new -> nextId..(nextId + Cardinality(new) - 1)]
      /\ IsInjective(number)
  BY <1>1, NumbersAreNew DEF TrackerOK
<1>4. /\ active' = [key \in (DOMAIN active \ Gone(conditions)) \cup new |->
                      IF key \in new THEN number[key] ELSE active[key]]
      /\ alerts' = [id \in Retained(all) |->
                      IF id \in DOMAIN opened THEN opened[id] ELSE resolved[id]]
      /\ nextId' = nextId + Cardinality(new)
  BY DEF Reconcile
<1>5. Gone(conditions) = DOMAIN active \ conditions
  BY DEF Gone
<1> HIDE DEF new, number
<1>6. \A id \in DOMAIN opened : /\ opened[id].status = "active"
                              /\ opened[id].key \in new /\ number[opened[id].key] = id
                              /\ id \in nextId..(nextId + Cardinality(new) - 1)
                              /\ opened[id] = [key |-> opened[id].key, status |-> opened[id].status]
  <2>1. ASSUME NEW id \in Range(number)
        PROVE  \E key \in new : number[key] = id
    BY <1>3 DEF Range
  <2>2. ASSUME NEW id \in Range(number)
        PROVE  id \in nextId..(nextId + Cardinality(new) - 1)
    BY <1>3 DEF Range
  <2> QED BY <2>1, <2>2
<1>7. DOMAIN resolved = DOMAIN alerts
  BY DEF Resolve
<1>8. \A id \in DOMAIN alerts :
        /\ resolved[id].key = alerts[id].key
        /\ resolved[id] = [key |-> resolved[id].key, status |-> resolved[id].status]
        /\ resolved[id].status \in {"active", "resolved"}
        /\ resolved[id].status = "active"
             => alerts[id].status = "active"
                  /\ ~(alerts[id].key \in Gone(conditions) /\ active[alerts[id].key] = id)
  <2> SUFFICES ASSUME NEW id \in DOMAIN alerts
               PROVE  /\ resolved[id].key = alerts[id].key
                      /\ resolved[id] = [key |-> resolved[id].key, status |-> resolved[id].status]
                      /\ resolved[id].status \in {"active", "resolved"}
                      /\ resolved[id].status = "active"
                           => alerts[id].status = "active"
                                /\ ~(alerts[id].key \in Gone(conditions)
                                        /\ active[alerts[id].key] = id)
    OBVIOUS
  <2>1. /\ alerts[id] = [key |-> alerts[id].key, status |-> alerts[id].status]
        /\ alerts[id].status \in {"active", "resolved"}
    BY DEF TrackerOK
  <2>2. CASE alerts[id].key \in Gone(conditions) /\ active[alerts[id].key] = id
    <3>1. resolved[id] = [key |-> alerts[id].key, status |-> "resolved"]
      BY <2>1, <2>2 DEF Resolve
    <3> QED BY <3>1
  <2>3. CASE ~(alerts[id].key \in Gone(conditions) /\ active[alerts[id].key] = id)
    <3>1. resolved[id] = alerts[id]
      BY <2>3 DEF Resolve
    <3> QED BY <2>1, <2>3, <3>1
  <2> QED BY <2>2, <2>3
<1>9. DOMAIN alerts' \subseteq DOMAIN alerts \cup DOMAIN opened
  BY <1>4, <1>7 DEF Retained
<1>10. \A id \in DOMAIN alerts' :
         alerts'[id] = IF id \in DOMAIN opened THEN opened[id] ELSE resolved[id]
  BY <1>4
<1>11. DOMAIN active' = conditions
  BY <1>1, <1>4, <1>5
<1>12. \A key \in DOMAIN active \cap conditions : active'[key] = active[key]
  BY <1>1, <1>4, <1>5
<1>13. \A key \in new : active'[key] = number[key]
  BY <1>4
<1> HIDE DEF opened, resolved, all
<1>14. TrackerOK'
  <2>1. nextId' \in Nat \ {0}
    BY <1>2, <1>4
  <2>2. DOMAIN alerts' \subseteq 1..(nextId' - 1)
    <3>1. \A id \in DOMAIN alerts : id \in 1..(nextId' - 1)
      BY <1>2, <1>4 DEF TrackerOK
    <3>2. \A id \in DOMAIN opened : id \in 1..(nextId' - 1)
      BY <1>2, <1>4, <1>6
    <3> QED BY <1>9, <3>1, <3>2
  <2>3. ASSUME NEW id \in DOMAIN alerts'
        PROVE  /\ alerts'[id] = [key |-> alerts'[id].key, status |-> alerts'[id].status]
               /\ alerts'[id].status \in {"active", "resolved"}
    <3>1. CASE id \in DOMAIN opened
      <4>1. alerts'[id] = opened[id]
        BY <1>10, <3>1
      <4> QED BY <1>6, <3>1, <4>1
    <3>2. CASE id \notin DOMAIN opened
      <4>1. id \in DOMAIN alerts /\ alerts'[id] = resolved[id]
        BY <1>9, <1>10, <3>2
      <4> QED BY <1>8, <4>1
    <3> QED BY <3>1, <3>2
  <2>4. ASSUME NEW key \in DOMAIN active'
        PROVE  key.kind \in Kinds /\ active'[key] \in 1..(nextId' - 1)
    <3>1. CASE key \in new
      <4>1. number[key] \in nextId..(nextId + Cardinality(new) - 1)
        BY <1>3, <3>1
      <4> QED BY <1>2, <1>4, <1>11, <1>13, <3>1, <4>1
    <3>2. CASE key \notin new
      <4>1. active'[key] \in 1..(nextId - 1)
        BY <1>1, <1>11, <1>12, <3>2 DEF TrackerOK
      <4> QED BY <1>2, <1>4, <1>11, <4>1
    <3> QED BY <3>1, <3>2
  <2>5. ASSUME NEW a \in DOMAIN active', NEW b \in DOMAIN active', active'[a] = active'[b]
        PROVE  a = b
    <3>1. \A key \in new : active'[key] \in nextId..(nextId + Cardinality(new) - 1)
      BY <1>3, <1>13
    <3>2. \A key \in DOMAIN active' \ new : /\ key \in DOMAIN active /\ active'[key] = active[key]
                                         /\ active'[key] \in 1..(nextId - 1)
      BY <1>1, <1>11, <1>12 DEF TrackerOK
    <3>3. CASE a \in new /\ b \in new
      BY <1>3, <1>13, <2>5, <3>3 DEF IsInjective
    <3>4. CASE a \notin new /\ b \notin new
      BY <2>5, <3>2, <3>4 DEF TrackerOK
    <3>5. CASE (a \in new) # (b \in new)
      BY <1>2, <2>5, <3>1, <3>2, <3>5
    <3> QED BY <3>3, <3>4, <3>5
  <2> QED BY <2>1, <2>2, <2>3, <2>4, <2>5 DEF TrackerOK
<1>15. ShownAlertsAreTracked'
  <2> SUFFICES ASSUME NEW id \in DOMAIN alerts', alerts'[id].status = "active"
               PROVE  alerts'[id].key \in DOMAIN active' /\ active'[alerts'[id].key] = id
    BY DEF ShownAlertsAreTracked, ShownOpen
  <2>1. CASE id \in DOMAIN opened
    BY <1>1, <1>6, <1>10, <1>11, <1>13, <2>1
  <2>2. CASE id \notin DOMAIN opened
    <3>1. id \in DOMAIN alerts /\ alerts'[id] = resolved[id]
      BY <1>9, <1>10, <2>2
    <3>2. /\ alerts'[id].key = alerts[id].key /\ alerts[id].status = "active"
          /\ ~(alerts[id].key \in Gone(conditions) /\ active[alerts[id].key] = id)
      BY <1>8, <3>1
    <3>3. alerts[id].key \in DOMAIN active /\ active[alerts[id].key] = id
      BY <3>1, <3>2 DEF ShownAlertsAreTracked, ShownOpen
    <3> QED BY <1>5, <1>11, <1>12, <3>2, <3>3
  <2> QED BY <2>1, <2>2
<1> QED BY <1>11, <1>12, <1>14, <1>15
-----------------------------------------------------------------------------
(* The polls *)

\* The links of a device are the elements of its sequence, and there is one.
LEMMA LinksAreListed ==
  ASSUME NEW d \in Devices
  PROVE  /\ Len(Links[d]) \in Nat \ {0}
         /\ Range(Links[d]) = {Links[d][k] : k \in 1..Len(Links[d])}
<1>1. Links[d] \in Seq(Range(Links[d])) /\ Links[d] # <<>>
  BY LabAssumption
<1>2. Len(Links[d]) \in Nat /\ DOMAIN Links[d] = 1..Len(Links[d])
  BY <1>1, LenProperties
<1>3. Len(Links[d]) # 0
  BY <1>1, EmptySeq
<1> QED BY <1>2, <1>3 DEF Range

\* A device none of whose links is down has nothing down, and reports what it may.
LEMMA DownAreLinks ==
  ASSUME LabOK, NEW d \in Devices
  PROVE  /\ (\A k \in 1..Len(Links[d]) : Links[d][k] \notin device[d].down) => device[d].down = {}
         /\ device[d].report \in Reports[d]
<1>1. device[d].down \in Outages[d] /\ device[d].report \in Reports[d]
  BY DEF LabOK, States
<1>2. device[d].down \subseteq Range(Links[d])
  BY <1>1, LabAssumption
<1> QED BY <1>1, <1>2, LinksAreListed

\* A read that fails or errs leaves the lab and the tracker alone.
LEMMA ReadErrsCounts ==
  ASSUME LabOK, ReadErrs
  PROVE  /\ changes' \in 0..MaxChanges
         /\ UNCHANGED <<device, issues, directory, tracker, recovered>>
BY HistoryAssumption DEF LabOK, ReadErrs

\* A change of the lab that relieves no impact leaves foreseen what the lab still has and
\* what was foreseen before, whether the devices had been read or not.
LEMMA ForeseenAfterChange ==
  ASSUME NEW seen, NEW found, NEW key,
         key \in ConditionsFromState(View(seen, device), found, TRUE),
         key \in ConditionsFromState(Reported(device'), issues', directory'),
         ~Relieved(key)
  PROVE  key \in ConditionsFromState(View(seen, device'), found, TRUE)
<1> DEFINE before == View(seen, device)
           after  == View(seen, device')
           now    == Reported(device')
<1>1. Condition(key, before, found, TRUE) /\ Condition(key, now, issues', directory')
  BY Reasons
<1>2. \A d \in Devices : \/ after[d] = before[d]
                         \/ before[d] = Status(device[d]) /\ after[d] = now[d]
  BY DEF View, Reported
<1>3. \A d \in Devices : now[d] = Status(device'[d])
  BY DEF Reported
<1> HIDE DEF before, after, now
<1> SUFFICES Condition(key, after, found, TRUE)
  BY Reasons DEF after
<1>4. CASE key.kind = "dependency"
  <2> DEFINE d == key.subject
  <2>1. /\ d \in Devices /\ key.detail = "" /\ key = Key(key.kind, d, key.detail)
        /\ ~Down(before[d].status) /\ Impacted(before, d) /\ ~Down(now[d].status)
    BY <1>1, <1>4 DEF Condition
  <2>2. ~Down(after[d].status)
    BY <1>2, <2>1
  <2>3. PICK u \in Upstream[d] : before[u].status = "offline"
    BY <2>1 DEF Impacted
  <2>4. u \in Devices
    BY <2>1, LabAssumption
  <2>5. Status(device[u]).status = "offline" => now[u].status = "offline"
    BY <1>3, <1>4, <2>4 DEF Relieved
  <2>6. after[u].status = "offline"
    BY <1>2, <2>3, <2>4, <2>5
  <2>7. Impacted(after, d)
    BY <2>6 DEF Impacted
  <2> QED BY <1>4, <2>1, <2>2, <2>7 DEF Condition
<1>5. CASE key.kind = "account"
  BY <1>1, <1>5 DEF Condition
<1>6. CASE key.kind \notin {"dependency", "account"}
  BY <1>1, <1>2, <1>6 DEF Condition
<1> QED BY <1>4, <1>5, <1>6

\* What a reader of a poll in its gather needs of its record.
LEMMA GatheringPoll ==
  ASSUME PollsOK, NEW p \in Polls, poll[p].at = "gather"
  PROVE  Gathering(poll[p]) /\ ReadSoFar(poll[p], device)
BY DEF PollsOK, IdlePoll

\* The fields of a poll that a read overwrites.
LEMMA Written ==
  ASSUME NEW q, Gathering(q), NEW k, NEW r, NEW b
  PROVE  /\ [q EXCEPT !.blurred = b]
              = [at |-> "gather", answered |-> q.answered, found |-> q.found, asked |-> q.asked,
                 dark |-> q.dark, seen |-> q.seen, latest |-> q.latest, blurred |-> b]
         /\ [q EXCEPT !.asked = k, !.dark = r]
              = [at |-> "gather", answered |-> q.answered, found |-> q.found, asked |-> k,
                 dark |-> r, seen |-> q.seen, latest |-> q.latest, blurred |-> q.blurred]
<1> DEFINE R(x, y, z) == [at : {"gather"}, answered : {q.answered}, found : {q.found}, asked : {x},
                          dark : {y}, seen : {q.seen}, latest : {q.latest}, blurred : {z}]
<1>1. q \in R(q.asked, q.dark, q.blurred)
  BY DEF Gathering
<1>2. \A x, y, z : \A o \in R(x, y, z) :
        o = [at |-> "gather", answered |-> q.answered, found |-> q.found, asked |-> x,
             dark |-> y, seen |-> q.seen, latest |-> q.latest, blurred |-> z]
  OBVIOUS
<1>3. [q EXCEPT !.blurred = b] \in R(q.asked, q.dark, b)
  BY <1>1
<1>4. [q EXCEPT !.asked = k, !.dark = r] \in R(k, r, q.blurred)
  BY <1>1
<1> HIDE DEF R
<1> QED BY <1>2, <1>3, <1>4

LEMMA Blurred ==
  ASSUME NEW q, Gathering(q), NEW d \in Devices
  PROVE  LET b == Blurs(q, d) IN
         /\ Gathering(b) /\ b.blurred = q.blurred \cup {d}
         /\ b.at = "gather" /\ b.answered = q.answered /\ b.found = q.found /\ b.latest = q.latest
         /\ b.asked = q.asked /\ b.dark = q.dark /\ b.seen = q.seen
<1> DEFINE more == q.blurred \cup {d}
           b == [at |-> "gather", answered |-> q.answered, found |-> q.found,
                 asked |-> q.asked, dark |-> q.dark, seen |-> q.seen,
                 latest |-> q.latest, blurred |-> more]
<1>1. more \subseteq Devices
  BY DEF Gathering
<1>2. Blurs(q, d) = [q EXCEPT !.blurred = more]
  BY DEF Blurs
<1> HIDE DEF more
<1>4. Blurs(q, d) = b
  BY <1>2, Written
<1>5. Gathering(b)
  BY <1>1 DEF Gathering
<1> QED BY <1>4, <1>5 DEF more

\* The lab changes, in whatever way, and polls take notice of it at most.
LEMMA LabChangeKeeps ==
  ASSUME IInv, LabChanges, LabOK', PollsOK',
         \A p \in Polls :
           \/ poll'[p] = poll[p]
           \/ /\ poll'[p].at = poll[p].at /\ poll'[p].answered = poll[p].answered
              /\ poll'[p].found = poll[p].found /\ poll'[p].latest = poll[p].latest
              /\ poll'[p].seen = poll[p].seen /\ poll[p].blurred \subseteq poll'[p].blurred
  PROVE  IInv'
<1> USE DEF IInv
<1>1. TrackerOK' /\ ShownAlertsAreTracked' /\ active' = active
  BY DEF LabChanges, tracker, TrackerOK, ShownAlertsAreTracked, ShownOpen
<1>2. ASSUME NEW key \in Lasting'
      PROVE  /\ key \in Lasting /\ ~Relieved(key)
             /\ key \in ConditionsFromState(Reported(device'), issues', directory')
  <2>1. key \in DOMAIN active /\ active[key] \notin recovered'
    BY <1>1 DEF Lasting
  <2> QED BY <2>1 DEF LabChanges, Lasting
<1>3. (Lasting \subseteq Conditions)'
  BY <1>2 DEF Conditions
<1>4. Truthful'
  <2> SUFFICES ASSUME NEW p \in Polls, poll'[p].at = "gather", poll'[p].latest, poll'[p].answered,
                      NEW key \in Lasting', Clear(poll'[p], key)
               PROVE  Foresees(poll'[p], key, device')
    BY DEF Truthful
  <2>1. /\ poll[p].at = "gather" /\ poll[p].latest /\ poll[p].answered
        /\ poll'[p].found = poll[p].found /\ poll'[p].seen = poll[p].seen
        /\ poll[p].blurred \subseteq poll'[p].blurred
    OBVIOUS
  <2>2. Clear(poll[p], key)
    BY <2>1 DEF Clear
  <2>3. Foresees(poll[p], key, device)
    BY <1>2, <2>1, <2>2 DEF Truthful
  <2>4. key \in ConditionsFromState(View(poll[p].seen, device'), poll[p].found, TRUE)
    BY <1>2, <2>3, ForeseenAfterChange DEF Foresees
  <2> QED BY <2>1, <2>4 DEF Foresees
<1> QED BY <1>1, <1>3, <1>4

\* A device changes: the readings of it that are under way no longer count.
LEMMA DeviceChangesKeeps ==
  ASSUME IInv, NEW d \in Devices, DeviceChanges(d)
  PROVE  IInv'
<1>1. LabChanges /\ changes' \in 0..MaxChanges
  BY HistoryAssumption DEF DeviceChanges, LabChanges, IInv, LabOK
<1>2. PICK state \in States(d) : device' = [device EXCEPT ![d] = state]
  BY DEF DeviceChanges
<1>3. LabOK'
  BY <1>1, <1>2 DEF DeviceChanges, IInv, LabOK
<1>4. \A e \in Devices \ {d} : device'[e] = device[e]
  BY <1>2 DEF IInv, LabOK
<1>5. ASSUME NEW p \in Polls
      PROVE  /\ poll'[p] = IdlePoll \/ (Gathering(poll'[p]) /\ ReadSoFar(poll'[p], device'))
             /\ \/ poll'[p] = poll[p]
                \/ /\ poll'[p].at = poll[p].at /\ poll'[p].answered = poll[p].answered
                   /\ poll'[p].found = poll[p].found /\ poll'[p].latest = poll[p].latest
                   /\ poll'[p].seen = poll[p].seen /\ poll[p].blurred \subseteq poll'[p].blurred
  <2> DEFINE q == poll[p]
  <2>1. poll'[p] = IF Midway(q, d) THEN Blurs(q, d) ELSE q
    BY DEF DeviceChanges
  <2>2. CASE q = IdlePoll
    BY <2>1, <2>2 DEF Midway, IdlePoll
  <2>3. CASE Gathering(q) /\ ReadSoFar(q, device)
    <3>1. q.at = "gather"
      BY <2>3 DEF Gathering
    <3>2. CASE Midway(q, d)
      <4> DEFINE b == Blurs(q, d)
      <4>1. /\ Gathering(b) /\ b.blurred = q.blurred \cup {d}
            /\ b.at = "gather" /\ b.answered = q.answered /\ b.found = q.found
            /\ b.latest = q.latest /\ b.asked = q.asked /\ b.dark = q.dark /\ b.seen = q.seen
        BY <2>3, Blurred
      <4> HIDE DEF b
      <4>2. ReadSoFar(b, device')
        BY <1>4, <2>3, <4>1 DEF ReadSoFar
      <4>3. poll'[p] = b
        BY <2>1, <3>2 DEF b
      <4> QED BY <3>1, <4>1, <4>2, <4>3
    <3>3. CASE ~Midway(q, d)
      <4>1. d \in DOMAIN q.seen \/ (q.asked[d] = 0 /\ 1..q.asked[d] = {})
        <5>1. ~(q.asked[d] > 0) => q.asked[d] = 0
          BY <2>3, LabAssumption, LenProperties DEF Gathering
        <5> QED BY <3>1, <3>3, <5>1 DEF Midway
      <4>2. ReadSoFar(q, device')
        BY <1>4, <2>3, <4>1 DEF ReadSoFar
      <4> QED BY <2>1, <2>3, <3>3, <4>2
    <3> QED BY <3>2, <3>3
  <2> QED BY <2>2, <2>3 DEF IInv, PollsOK
<1>6. PollsOK'
  BY <1>5 DEF DeviceChanges, PollsOK
<1> QED BY <1>1, <1>3, <1>5, <1>6, LabChangeKeeps

LEMMA ReadAccountsKeeps ==
  ASSUME IInv, NEW p \in Polls, ReadAccounts(p)
  PROVE  IInv'
<1> USE DEF IInv
<1> DEFINE none == <<>>
           zero == [d \in Devices |-> 0]
           begun == [at |-> "gather", answered |-> directory,
                     found |-> IF directory THEN issues ELSE {}, asked |-> zero, dark |-> {},
                     seen |-> none, latest |-> TRUE, blurred |-> {}]
<1>1. /\ LabOK' /\ TrackerOK' /\ ShownAlertsAreTracked'
      /\ (Lasting \subseteq Conditions)' /\ Lasting' = Lasting
      /\ device' = device /\ issues' = issues /\ directory' = directory
  BY DEF ReadAccounts, lab, tracker, LabOK, TrackerOK, ShownAlertsAreTracked, ShownOpen,
         Lasting, Conditions
<1>2. poll' = [poll EXCEPT ![p] = begun]
  BY DEF ReadAccounts
<1>3. DOMAIN none = {} /\ none = [d \in DOMAIN none |-> none[d]]
  OBVIOUS
<1>4. zero = [d \in Devices |-> zero[d]] /\ \A d \in Devices : zero[d] = 0 /\ zero[d] \in 0..Len(Links[d])
  BY LinksAreListed
<1> HIDE DEF none, zero
<1>5. Gathering(begun) /\ ReadSoFar(begun, device)
  <2>1. Gathering(begun)
    BY <1>3, <1>4 DEF Gathering, LabOK
  <2>2. ReadSoFar(begun, device)
    BY <1>4 DEF ReadSoFar
  <2> QED BY <2>1, <2>2
<1>6. PollsOK'
  BY <1>1, <1>2, <1>5 DEF PollsOK
<1>7. Truthful'
  <2> SUFFICES ASSUME NEW q \in Polls, poll'[q].at = "gather", poll'[q].latest, poll'[q].answered,
                      NEW key \in Lasting, Clear(poll'[q], key)
               PROVE  Foresees(poll'[q], key, device)
    BY <1>1 DEF Truthful
  <2>1. CASE q = p
    <3>1. poll'[q] = begun
      BY <1>2, <2>1 DEF PollsOK
    <3>2. directory = TRUE
      BY <3>1 DEF LabOK
    <3>3. \A d \in Devices : View(none, device)[d] = Reported(device)[d]
      BY <1>3 DEF View, Reported
    <3>4. key \in ConditionsFromState(Reported(device), issues, TRUE)
      BY <3>2, Zenon DEF Conditions
    <3>5. key \in ConditionsFromState(View(none, device), issues, TRUE)
      BY <3>3, <3>4, SameReads
    <3>6. poll'[q].seen = none /\ poll'[q].found = issues
      BY <3>1, <3>2
    <3> QED BY <3>5, <3>6 DEF Foresees
  <2>2. CASE q # p
    <3>1. poll'[q] = poll[q]
      BY <1>2, <2>2 DEF PollsOK
    <3> QED BY <3>1 DEF Truthful
  <2> QED BY <2>1, <2>2
<1> QED BY <1>1, <1>6, <1>7

\* A read of whatever kind: what the poll sees of a device that is not blurred is what the
\* device would report now.
LEMMA ReadKeeps ==
  ASSUME IInv, NEW p \in Polls, NEW n,
         poll' = [poll EXCEPT ![p] = n], Gathering(n), ReadSoFar(n, device),
         poll[p].at = "gather", n.answered = poll[p].answered, n.found = poll[p].found,
         n.latest = poll[p].latest, poll[p].blurred \subseteq n.blurred,
         \A d \in Devices \ n.blurred : View(n.seen, device)[d] = View(poll[p].seen, device)[d],
         changes' \in 0..MaxChanges, UNCHANGED <<device, issues, directory, tracker, recovered>>
  PROVE  IInv'
<1> USE DEF IInv
<1>1. /\ LabOK' /\ TrackerOK' /\ ShownAlertsAreTracked'
      /\ (Lasting \subseteq Conditions)' /\ Lasting' = Lasting /\ device' = device
  BY DEF tracker, LabOK, TrackerOK, ShownAlertsAreTracked, ShownOpen, Lasting, Conditions
<1>2. poll'[p] = n /\ \A r \in Polls \ {p} : poll'[r] = poll[r]
  BY DEF PollsOK
<1>3. PollsOK'
  <2>1. poll' = [r \in Polls |-> poll'[r]]
    BY DEF PollsOK
  <2> QED BY <1>1, <1>2, <2>1 DEF PollsOK
<1>4. Truthful'
  <2> SUFFICES ASSUME NEW r \in Polls, poll'[r].at = "gather", poll'[r].latest, poll'[r].answered,
                      NEW key \in Lasting, Clear(poll'[r], key)
               PROVE  Foresees(poll'[r], key, device)
    BY <1>1 DEF Truthful
  <2>1. CASE r = p
    <3>1. Clear(poll[p], key) /\ Readings(key) \cap n.blurred = {}
      BY <1>2, <2>1 DEF Clear
    <3>2. Foresees(poll[p], key, device)
      BY <1>2, <2>1, <3>1 DEF Truthful
    <3>3. \A d \in Devices \cap Readings(key) :
            View(poll[p].seen, device)[d] = View(n.seen, device)[d]
      BY <3>1
    <3>4. key \in ConditionsFromState(View(n.seen, device), poll[p].found, TRUE)
      <4>1. key \in ConditionsFromState(View(poll[p].seen, device), poll[p].found, TRUE)
        BY <3>2 DEF Foresees
      <4> DEFINE before == View(poll[p].seen, device)
                 after == View(n.seen, device)
      <4>2. \A d \in Devices \cap Readings(key) : before[d] = after[d]
        BY <3>3
      <4> HIDE DEF before, after
      <4>3. key \in ConditionsFromState(after, poll[p].found, TRUE)
        BY <4>1, <4>2, SameReads DEF before
      <4> QED BY <4>3 DEF after
    <3> QED BY <1>2, <2>1, <3>4 DEF Foresees
  <2>2. CASE r # p
    BY <1>2, <2>2 DEF Truthful
  <2> QED BY <2>1, <2>2
<1> QED BY <1>1, <1>3, <1>4

\* The status of one more device is known; nothing else changes.
LEMMA SeesOne ==
  ASSUME NEW q, Gathering(q), NEW d \in Devices, d \notin DOMAIN q.seen,
         q.asked[d] = Len(Links[d]), NEW status \in Outcomes(d)
  PROVE  LET s == Sees(q, d, status) IN
         /\ Gathering(s) /\ DOMAIN s.seen = DOMAIN q.seen \cup {d} /\ s.seen[d] = status
         /\ \A e \in DOMAIN q.seen : s.seen[e] = q.seen[e]
         /\ s.answered = q.answered /\ s.found = q.found /\ s.latest = q.latest
         /\ s.asked = q.asked /\ s.dark = q.dark /\ s.blurred = q.blurred
<1> DEFINE seen == [e \in DOMAIN q.seen \cup {d} |-> IF e = d THEN status ELSE q.seen[e]]
           s == [at |-> "gather", answered |-> q.answered, found |-> q.found,
                 asked |-> q.asked, dark |-> q.dark, seen |-> seen,
                 latest |-> q.latest, blurred |-> q.blurred]
<1>1. /\ DOMAIN seen = DOMAIN q.seen \cup {d} /\ seen[d] = status
      /\ \A e \in DOMAIN q.seen : seen[e] = q.seen[e]
      /\ seen = [e \in DOMAIN seen |-> seen[e]]
      /\ DOMAIN seen \subseteq Devices
      /\ \A e \in DOMAIN seen : seen[e] \in Outcomes(e) /\ q.asked[e] = Len(Links[e])
  BY DEF Gathering
<1>2. Sees(q, d, status) = [q EXCEPT !.seen = seen]
  BY DEF Sees
<1> HIDE DEF seen
<1>3. Sees(q, d, status) = s
  BY <1>2 DEF Gathering
<1>4. Gathering(s)
  BY <1>1 DEF Gathering
<1> QED BY <1>1, <1>3, <1>4

\* Two polls know the same of every device but d.
SameElsewhere(q, h, d) ==
  \A e \in Devices \ {d} :
    /\ h.asked[e] = q.asked[e] /\ (e \in h.dark <=> e \in q.dark)
    /\ e \in DOMAIN h.seen <=> e \in DOMAIN q.seen
    /\ e \in DOMAIN q.seen => h.seen[e] = q.seen[e]

\* What one more answer about d changes.
HeardOf(q, h, d, up) ==
  /\ Gathering(h)
  /\ h.answered = q.answered /\ h.found = q.found /\ h.latest = q.latest /\ h.blurred = q.blurred
  /\ h.asked[d] = q.asked[d] + 1 /\ (d \in h.dark <=> d \in q.dark \/ ~up)
  /\ SameElsewhere(q, h, d)
  /\ d \notin DOMAIN h.seen => (h.asked[d] = Len(Links[d]) => d \notin h.dark)
  /\ d \in DOMAIN h.seen =>
       /\ h.asked[d] = Len(Links[d])
       /\ \/ d \in h.dark /\ h.seen[d] = Offline
          \/ d \notin h.dark /\ h.seen[d] = Online /\ ~Endpoint(d)

LEMMA Hears ==
  ASSUME NEW q, Gathering(q), NEW d \in Devices, q.asked[d] < Len(Links[d]), NEW up \in BOOLEAN
  PROVE  d \notin DOMAIN q.seen /\ HeardOf(q, Heard(q, d, up), d, up)
<1> DEFINE asked == [q.asked EXCEPT ![d] = q.asked[d] + 1]
           dark == IF up THEN q.dark ELSE q.dark \cup {d}
           h == [at |-> "gather", answered |-> q.answered, found |-> q.found, asked |-> asked,
                 dark |-> dark, seen |-> q.seen, latest |-> q.latest, blurred |-> q.blurred]
<1>1. q.asked[d] \in 0..Len(Links[d]) /\ Len(Links[d]) \in Nat
  BY LinksAreListed DEF Gathering
<1>2. d \notin DOMAIN q.seen
  BY <1>1 DEF Gathering
<1>3. /\ asked = [e \in Devices |-> asked[e]] /\ asked[d] = q.asked[d] + 1
      /\ \A e \in Devices \ {d} : asked[e] = q.asked[e]
  BY DEF Gathering
<1>4. \A e \in Devices : asked[e] \in 0..Len(Links[e])
  <2> HIDE DEF asked
  <2>1. \A e \in Devices \ {d} : asked[e] \in 0..Len(Links[e])
    BY <1>3 DEF Gathering
  <2>2. asked[d] \in 0..Len(Links[d])
    BY <1>1, <1>3
  <2> QED BY <2>1, <2>2
<1>5. /\ dark \subseteq Devices /\ (d \in dark <=> d \in q.dark \/ ~up)
      /\ \A e \in Devices \ {d} : e \in dark <=> e \in q.dark
  BY DEF Gathering
<1>6. [q EXCEPT !.asked[d] = @ + 1, !.dark = IF up THEN @ ELSE @ \cup {d}]
        = [q EXCEPT !.asked = asked, !.dark = dark]
  BY DEF Gathering
<1> HIDE DEF asked, dark
<1>7. [q EXCEPT !.asked = asked, !.dark = dark] = h
  BY Written
<1>8. Gathering(h)
  BY <1>2, <1>3, <1>4, <1>5 DEF Gathering
<1>9. Heard(q, d, up) = IF asked[d] < Len(Links[d]) \/ (Endpoint(d) /\ d \notin dark) THEN h
                        ELSE Sees(h, d, IF d \in dark THEN Offline ELSE Online)
  BY <1>6, <1>7 DEF Heard
<1>10. CASE asked[d] < Len(Links[d]) \/ (Endpoint(d) /\ d \notin dark)
  <2>1. Heard(q, d, up) = h
    BY <1>9, <1>10
  <2>2. asked[d] = Len(Links[d]) => d \notin dark
    BY <1>1, <1>10
  <2> QED BY <1>2, <1>3, <1>5, <1>8, <2>1, <2>2 DEF HeardOf, SameElsewhere
<1>11. CASE ~(asked[d] < Len(Links[d]) \/ (Endpoint(d) /\ d \notin dark))
  <2> DEFINE status == IF d \in dark THEN Offline ELSE Online
             s == Sees(h, d, status)
  <2>1. asked[d] = Len(Links[d])
    BY <1>1, <1>3, <1>11
  <2>2. status \in Outcomes(d)
    BY LabAssumption DEF Outcomes
  <2>3. h.asked = asked /\ h.dark = dark /\ h.seen = q.seen /\ h.answered = q.answered
        /\ h.found = q.found /\ h.latest = q.latest /\ h.blurred = q.blurred
    OBVIOUS
  <2>4. Heard(q, d, up) = s
    BY <1>9, <1>11
  <2> HIDE DEF h, status
  <2>5. /\ Gathering(s) /\ DOMAIN s.seen = DOMAIN q.seen \cup {d} /\ s.seen[d] = status
        /\ \A e \in DOMAIN q.seen : s.seen[e] = q.seen[e]
        /\ s.answered = q.answered /\ s.found = q.found /\ s.latest = q.latest
        /\ s.asked = asked /\ s.dark = dark /\ s.blurred = q.blurred
    BY <1>2, <1>8, <2>1, <2>2, <2>3, SeesOne
  <2> HIDE DEF s
  <2> QED BY <1>2, <1>3, <1>5, <1>11, <2>1, <2>4, <2>5 DEF HeardOf, SameElsewhere, status
<1> QED BY <1>10, <1>11

LEMMA ReadsLinkKeeps ==
  ASSUME IInv, NEW p \in Polls, NEW d \in Devices, ReadsLink(p, d)
  PROVE  IInv'
<1> DEFINE q == poll[p]
           i == NextLink(q, d)
           h == Heard(q, d, IsUp(d, i))
<1>1. q.at = "gather" /\ q.asked[d] < Len(Links[d]) /\ poll' = [poll EXCEPT ![p] = h]
  BY DEF ReadsLink, Asking
<1>2. Gathering(q) /\ ReadSoFar(q, device)
  BY <1>1, GatheringPoll DEF IInv
<1>3. d \notin DOMAIN q.seen /\ HeardOf(q, h, d, IsUp(d, i))
  BY <1>1, <1>2, Hears DEF IsUp
<1>4. /\ i = Links[d][q.asked[d] + 1] /\ q.asked[d] \in Nat
      /\ IsUp(d, i) => i \notin device[d].down
      /\ ~IsUp(d, i) => device[d].down # {}
  BY <1>2, LinksAreListed DEF NextLink, IsUp, Gathering
<1> HIDE DEF h, i
<1>5. ASSUME d \notin h.blurred
      PROVE  /\ d \in h.dark => device[d].down # {}
             /\ d \notin h.dark => \A k \in 1..h.asked[d] : Links[d][k] \notin device[d].down
  <2>1. /\ d \in q.dark => device[d].down # {}
        /\ d \notin q.dark => \A k \in 1..q.asked[d] : Links[d][k] \notin device[d].down
    BY <1>2, <1>3, <1>5 DEF ReadSoFar, HeardOf, SameElsewhere
  <2>2. \A k \in 1..h.asked[d] : k \in 1..q.asked[d] \/ k = q.asked[d] + 1
    BY <1>3, <1>4 DEF HeardOf, SameElsewhere
  <2> QED BY <1>3, <1>4, <2>1, <2>2 DEF HeardOf, SameElsewhere
<1>6. ReadSoFar(h, device)
  <2>1. h.asked[d] # 0 /\ (d \notin DOMAIN h.seen => (h.asked[d] = Len(Links[d]) => d \notin h.dark))
    BY <1>3, <1>4 DEF HeardOf, SameElsewhere
  <2> QED BY <1>2, <1>3, <1>5, <2>1 DEF ReadSoFar, HeardOf, SameElsewhere
<1>7. ASSUME NEW e \in Devices \ h.blurred
      PROVE  View(h.seen, device)[e] = View(q.seen, device)[e]
  <2>1. CASE e # d
    BY <1>3, <2>1 DEF HeardOf, SameElsewhere, View
  <2>2. CASE e = d /\ d \notin DOMAIN h.seen
    BY <1>3, <2>2 DEF View
  <2>3. CASE e = d /\ d \in DOMAIN h.seen
    <3>1. h.seen[d] = Status(device[d])
      <4>1. CASE d \in h.dark
        BY <1>3, <1>5, <1>7, <2>3, <4>1 DEF HeardOf, Status
      <4>2. CASE d \notin h.dark
        <5>1. \A k \in 1..Len(Links[d]) : Links[d][k] \notin device[d].down
          BY <1>3, <1>5, <1>7, <2>3, <4>2 DEF HeardOf, SameElsewhere
        <5>2. device[d].down = {} /\ device[d].report \in Reports[d]
          BY <5>1, DownAreLinks DEF IInv
        <5> QED BY <1>3, <2>3, <4>2, <5>2, LabAssumption DEF HeardOf, Status
      <4> QED BY <4>1, <4>2
    <3> QED BY <1>3, <2>3, <3>1 DEF View
  <2> QED BY <2>1, <2>2, <2>3
<1>8. /\ changes' \in 0..MaxChanges
      /\ UNCHANGED <<device, issues, directory, tracker, recovered>>
  BY DEF ReadsLink, lab, IInv, LabOK
<1>9. Gathering(h) /\ h.answered = q.answered /\ h.found = q.found /\ h.latest = q.latest
      /\ h.blurred = q.blurred
  BY <1>3 DEF HeardOf, SameElsewhere
<1> QED BY <1>1, <1>6, <1>7, <1>8, <1>9, ReadKeeps

\* The answers of a device that is blurred do not count.
LEMMA BlurredSoFar ==
  ASSUME NEW q, NEW b, NEW d \in Devices, ReadSoFar(q, device), Gathering(q), Gathering(b),
         d \in b.blurred, q.blurred \subseteq b.blurred, b.asked[d] # 0,
         d \notin DOMAIN b.seen => (b.asked[d] = Len(Links[d]) => d \notin b.dark),
         SameElsewhere(q, b, d)
  PROVE  /\ ReadSoFar(b, device)
         /\ \A e \in Devices \ b.blurred : View(b.seen, device)[e] = View(q.seen, device)[e]
<1>1. ReadSoFar(b, device)
  BY DEF ReadSoFar, SameElsewhere
<1>2. \A e \in Devices \ b.blurred : View(b.seen, device)[e] = View(q.seen, device)[e]
  BY DEF View, SameElsewhere
<1> QED BY <1>1, <1>2

LEMMA MisreadsLinkKeeps ==
  ASSUME IInv, NEW p \in Polls, NEW d \in Devices, MisreadsLink(p, d)
  PROVE  IInv'
<1> DEFINE q == poll[p]
           up == ~IsUp(d, NextLink(q, d))
           h == Heard(q, d, up)
           b == Blurs(h, d)
<1>1. /\ q.at = "gather" /\ q.asked[d] < Len(Links[d]) /\ poll' = [poll EXCEPT ![p] = b]
      /\ ReadErrs
  BY DEF MisreadsLink, Asking
<1>2. Gathering(q) /\ ReadSoFar(q, device)
  BY <1>1, GatheringPoll DEF IInv
<1>9. q.asked[d] \in Nat
  BY <1>2, LinksAreListed DEF Gathering
<1>3. HeardOf(q, h, d, up)
  BY <1>1, <1>2, Hears
<1> HIDE DEF h, up
<1>4. Gathering(h)
  BY <1>3 DEF HeardOf, SameElsewhere
<1>5. /\ Gathering(b) /\ b.blurred = h.blurred \cup {d}
      /\ b.answered = h.answered /\ b.found = h.found /\ b.latest = h.latest
      /\ b.asked = h.asked /\ b.dark = h.dark /\ b.seen = h.seen
  BY <1>4, Blurred
<1> HIDE DEF b
<1>6. /\ q.blurred \subseteq b.blurred /\ d \in b.blurred /\ b.asked[d] # 0
      /\ b.answered = q.answered /\ b.found = q.found /\ b.latest = q.latest
      /\ d \notin DOMAIN b.seen => (b.asked[d] = Len(Links[d]) => d \notin b.dark)
  BY <1>3, <1>5, <1>9 DEF HeardOf, SameElsewhere
<1>7. SameElsewhere(q, b, d)
  BY <1>3, <1>5 DEF HeardOf, SameElsewhere
<1>8. /\ ReadSoFar(b, device)
      /\ \A e \in Devices \ b.blurred : View(b.seen, device)[e] = View(q.seen, device)[e]
  BY <1>2, <1>5, <1>6, <1>7, BlurredSoFar
<1> QED BY <1>1, <1>5, <1>6, <1>8, ReadErrsCounts, ReadKeeps DEF IInv

LEMMA ReadsServiceKeeps ==
  ASSUME IInv, NEW p \in Polls, NEW d \in Devices, ReadsService(p, d)
  PROVE  IInv'
<1> DEFINE q == poll[p]
           status == IF device[d].down = {} THEN device[d].report ELSE Unavailable
           s == Sees(q, d, status)
<1>1. /\ q.at = "gather" /\ Endpoint(d) /\ q.asked[d] = Len(Links[d]) /\ d \notin DOMAIN q.seen
      /\ poll' = [poll EXCEPT ![p] = s]
  BY DEF ReadsService, AskingService
<1>2. Gathering(q) /\ ReadSoFar(q, device)
  BY <1>1, GatheringPoll DEF IInv
<1>3. status \in Outcomes(d)
  BY DownAreLinks DEF IInv, Outcomes
<1>4. /\ Gathering(s) /\ DOMAIN s.seen = DOMAIN q.seen \cup {d} /\ s.seen[d] = status
      /\ \A e \in DOMAIN q.seen : s.seen[e] = q.seen[e]
      /\ s.answered = q.answered /\ s.found = q.found /\ s.latest = q.latest
      /\ s.asked = q.asked /\ s.dark = q.dark /\ s.blurred = q.blurred
  BY <1>1, <1>2, <1>3, SeesOne
<1>5. Status(device[d]) \in {status, Offline} /\ (device[d].down = {} => Status(device[d]) = status)
  BY DEF Status
<1> HIDE DEF s, status
<1>6. ReadSoFar(s, device)
  BY <1>2, <1>4 DEF ReadSoFar
<1>7. ASSUME NEW e \in Devices \ s.blurred
      PROVE  View(s.seen, device)[e] = View(q.seen, device)[e]
  <2>1. CASE e # d
    BY <1>4, <2>1 DEF View
  <2>2. CASE e = d
    <3>1. CASE d \notin q.dark
      <4>1. \A k \in 1..Len(Links[d]) : Links[d][k] \notin device[d].down
        BY <1>1, <1>2, <1>4, <1>7, <2>2, <3>1 DEF ReadSoFar
      <4>2. device[d].down = {}
        BY <4>1, DownAreLinks DEF IInv
      <4> QED BY <1>1, <1>4, <1>5, <2>2, <4>2 DEF View
    <3>2. CASE d \in q.dark
      BY <1>1, <1>2, <3>2 DEF ReadSoFar
    <3> QED BY <3>1, <3>2
  <2> QED BY <2>1, <2>2
<1>8. /\ changes' \in 0..MaxChanges
      /\ UNCHANGED <<device, issues, directory, tracker, recovered>>
  BY DEF ReadsService, lab, IInv, LabOK
<1> QED BY <1>1, <1>4, <1>6, <1>7, <1>8, ReadKeeps

LEMMA ServiceFailsKeeps ==
  ASSUME IInv, NEW p \in Polls, NEW d \in Devices, ServiceFails(p, d)
  PROVE  IInv'
<1> DEFINE q == poll[p]
           s == Sees(q, d, Unavailable)
           b == Blurs(s, d)
<1>1. /\ q.at = "gather" /\ q.asked[d] = Len(Links[d]) /\ d \notin DOMAIN q.seen
      /\ poll' = [poll EXCEPT ![p] = b] /\ ReadErrs
  BY DEF ServiceFails, AskingService
<1>2. Gathering(q) /\ ReadSoFar(q, device) /\ Len(Links[d]) # 0
  BY <1>1, GatheringPoll, LinksAreListed DEF IInv
<1>3. /\ Gathering(s) /\ DOMAIN s.seen = DOMAIN q.seen \cup {d}
      /\ \A e \in DOMAIN q.seen : s.seen[e] = q.seen[e]
      /\ s.answered = q.answered /\ s.found = q.found /\ s.latest = q.latest
      /\ s.asked = q.asked /\ s.dark = q.dark /\ s.blurred = q.blurred
  BY <1>1, <1>2, SeesOne DEF Outcomes
<1> HIDE DEF s
<1>4. /\ Gathering(b) /\ b.blurred = s.blurred \cup {d}
      /\ b.answered = s.answered /\ b.found = s.found /\ b.latest = s.latest
      /\ b.asked = s.asked /\ b.dark = s.dark /\ b.seen = s.seen
  BY <1>3, Blurred
<1> HIDE DEF b
<1>6. SameElsewhere(q, b, d) /\ d \in DOMAIN b.seen /\ d \in b.blurred /\ q.blurred \subseteq b.blurred
      /\ b.asked[d] # 0
  BY <1>1, <1>2, <1>3, <1>4 DEF SameElsewhere
<1>5. /\ ReadSoFar(b, device)
      /\ \A e \in Devices \ b.blurred : View(b.seen, device)[e] = View(q.seen, device)[e]
  BY <1>2, <1>4, <1>6, BlurredSoFar
<1> QED BY <1>1, <1>3, <1>4, <1>5, ReadErrsCounts, ReadKeeps DEF IInv

\* What a poll found that nobody overtook and that the directory answered: every
\* condition that has lasted and whose reads are clear.
LEMMA LastingIsFound ==
  ASSUME IInv, NEW p \in Polls, poll[p].at = "gather", poll[p].latest, poll[p].answered,
         DOMAIN poll[p].seen = Devices, NEW key \in Lasting, Clear(poll[p], key)
  PROVE  key \in ConditionsFromState(poll[p].seen, poll[p].found, poll[p].answered)
<1> DEFINE q == poll[p]
<1>1. Gathering(q)
  BY GatheringPoll DEF IInv
<1>2. q.answered = TRUE
  BY <1>1 DEF Gathering
<1>3. key \in ConditionsFromState(View(q.seen, device), q.found, TRUE)
  BY DEF IInv, Truthful, Foresees
<1>4. \A d \in Devices : View(q.seen, device)[d] = q.seen[d]
  BY DEF View
<1>5. \A d \in Devices \cap Readings(key) : View(q.seen, device)[d] = q.seen[d]
  BY <1>4
<1> HIDE DEF q
<1>6. key \in ConditionsFromState(q.seen, q.found, TRUE)
  BY <1>3, <1>5, SameReads
<1> QED BY <1>2, <1>6 DEF q

LEMMA OverviewKeeps ==
  ASSUME IInv, NEW p \in Polls, Overview(p)
  PROVE  IInv'
<1> DEFINE q == poll[p]
           found == ConditionsFromState(q.seen, q.found, q.answered)
<1>1. q.at = "gather" /\ DOMAIN q.seen = Devices
  BY DEF Overview
<1>2. Gathering(q)
  BY <1>1, GatheringPoll DEF IInv
<1>3. Reconcile(found)
  BY DEF Overview
<1>4. IsFiniteSet(found) /\ \A key \in found : key.kind \in Kinds
  BY <1>1, <1>2, FinitelyMany, KnownKinds DEF Gathering
<1>5. TrackerOK' /\ ShownAlertsAreTracked'
  <2> HIDE DEF found
  <2> QED BY <1>3, <1>4, Reconciled DEF IInv
<1>6. /\ LabOK' /\ Conditions' = Conditions /\ device' = device
  BY DEF IInv, Overview, lab, LabOK, Conditions
<1>7. ASSUME NEW r \in Polls
      PROVE  /\ poll'[r] = IdlePoll \/ (Gathering(poll'[r]) /\ ReadSoFar(poll'[r], device))
             /\ poll'[r].at = "gather" => ~poll'[r].latest
  <2>1. poll[r] = IdlePoll \/ (Gathering(poll[r]) /\ ReadSoFar(poll[r], device))
    BY DEF IInv, PollsOK
  <2>2. CASE r = p
    BY <2>2 DEF Overview, IdlePoll
  <2>3. CASE r # p /\ poll[r] = IdlePoll
    <3>1. poll'[r] = IdlePoll
      BY <2>3 DEF Overview, IdlePoll
    <3> QED BY <3>1 DEF IdlePoll
  <2>4. CASE r # p /\ Gathering(poll[r]) /\ ReadSoFar(poll[r], device)
    <3> DEFINE no == FALSE
               o == [at |-> "gather", answered |-> poll[r].answered, found |-> poll[r].found,
                     asked |-> poll[r].asked, dark |-> poll[r].dark, seen |-> poll[r].seen,
                     latest |-> no, blurred |-> poll[r].blurred]
    <3>1. poll[r].at = "gather"
      BY <2>4 DEF Gathering
    <3>2. poll'[r] = [poll[r] EXCEPT !.latest = no]
      BY <2>4, <3>1 DEF Overview
    <3>3. no \in BOOLEAN /\ ~no
      OBVIOUS
    <3> HIDE DEF no
    <3>4. poll'[r] = o
      BY <2>4, <3>2 DEF Gathering
    <3>5. Gathering(o)
      BY <2>4, <3>3 DEF Gathering
    <3>6. ReadSoFar(o, device)
      BY <2>4 DEF ReadSoFar
    <3> QED BY <3>3, <3>4, <3>5, <3>6
  <2> QED BY <2>1, <2>2, <2>3, <2>4
<1>8. PollsOK'
  BY <1>6, <1>7 DEF Overview, PollsOK
<1>9. (Lasting \subseteq Conditions)'
  <2> SUFFICES ASSUME NEW key \in DOMAIN active', active'[key] \notin recovered'
               PROVE  key \in Conditions
    BY <1>6 DEF Lasting
  <2> QED BY DEF Overview
<1>10. Truthful'
  BY <1>7 DEF Truthful
<1> QED BY <1>5, <1>6, <1>8, <1>9, <1>10 DEF IInv

LEMMA PollFailsKeeps ==
  ASSUME IInv, NEW p \in Polls, PollFails(p)
  PROVE  IInv'
<1> USE DEF IInv
<1>1. changes' \in 0..MaxChanges /\ UNCHANGED <<device, issues, directory, tracker, recovered>>
  BY ReadErrsCounts DEF PollFails
<1>2. /\ LabOK' /\ TrackerOK' /\ ShownAlertsAreTracked'
      /\ (Lasting \subseteq Conditions)' /\ Lasting' = Lasting /\ device' = device
  BY <1>1 DEF tracker, LabOK, TrackerOK, ShownAlertsAreTracked, ShownOpen,
              Lasting, Conditions
<1>3. \A q \in Polls : poll'[q] = IdlePoll \/ poll'[q] = poll[q]
  BY DEF PollFails, PollsOK
<1>4. PollsOK'
  BY <1>2, <1>3 DEF PollFails, PollsOK
<1>5. Truthful'
  BY <1>2, <1>3 DEF Truthful, IdlePoll
<1> QED BY <1>2, <1>4, <1>5
-----------------------------------------------------------------------------
(* The invariant *)

LEMMA InvInit ==
  ASSUME Init
  PROVE  IInv
<1>1. device = [d \in Devices |-> device[d]]
  BY DEF Init
<1>2. LabOK
  <2>1. ASSUME NEW d \in Devices PROVE device[d] \in States(d)
    <3>1. {} \in Outages[d] /\ Online \in Reports[d]
      BY LabAssumption
    <3>2. device[d] = [down |-> {}, report |-> Online]
      BY DEF Init
    <3> HIDE DEF Online
    <3> QED BY <3>1, <3>2 DEF States
  <2>2. issues \subseteq Issues /\ directory \in BOOLEAN /\ changes \in 0..MaxChanges
    BY HistoryAssumption DEF Init
  <2> QED BY <1>1, <2>1, <2>2 DEF LabOK
<1>3. PollsOK
  BY DEF Init, PollsOK
<1>4. DOMAIN alerts = {} /\ DOMAIN active = {}
  BY DEF Init
<1>5. TrackerOK /\ ShownAlertsAreTracked /\ Lasting \subseteq Conditions
  BY <1>4 DEF Init, TrackerOK, ShownAlertsAreTracked, ShownOpen, Lasting
<1>6. Truthful
  BY DEF Init, Truthful, IdlePoll
<1> QED BY <1>2, <1>3, <1>5, <1>6 DEF IInv

LEMMA InvNext ==
  ASSUME IInv, [Next]_vars
  PROVE  IInv'
<1>1. ASSUME LabChanges PROVE changes' \in 0..MaxChanges
  BY <1>1, HistoryAssumption DEF LabChanges, IInv, LabOK
<1>2. ASSUME NEW issue \in Issues, AccountChanges(issue)
      PROVE  IInv'
  <2>1. LabOK' /\ PollsOK'
    BY <1>1, <1>2 DEF AccountChanges, IInv, LabOK, PollsOK
  <2> QED BY <1>2, <2>1, LabChangeKeeps DEF AccountChanges
<1>3. CASE DirectoryChanges
  <2>1. LabOK' /\ PollsOK'
    BY <1>1, <1>3 DEF DirectoryChanges, IInv, LabOK, PollsOK
  <2> QED BY <1>3, <2>1, LabChangeKeeps DEF DirectoryChanges
<1>4. ASSUME NEW p \in Polls, PollStep(p) \/ PollErrs(p)
      PROVE  IInv'
  BY <1>4, ReadAccountsKeeps, ReadsLinkKeeps, ReadsServiceKeeps, OverviewKeeps, PollFailsKeeps,
     MisreadsLinkKeeps, ServiceFailsKeeps DEF PollStep, PollErrs
<1>5. CASE UNCHANGED vars
  BY <1>5 DEF vars, lab, tracker, IInv, LabOK, PollsOK, TrackerOK, ShownAlertsAreTracked, ShownOpen,
              Lasting, Conditions, Truthful
<1> QED BY <1>2, <1>3, <1>4, <1>5, DeviceChangesKeeps DEF Next

LEMMA Invariant == Spec => []IInv
<1>1. Init => IInv
  BY InvInit
<1>2. IInv /\ [Next]_vars => IInv'
  BY InvNext
<1> QED BY <1>1, <1>2, PTL DEF Spec

\* Reads stay partial views of the devices, and AlertTracker hands out every number once:
\* no two open conditions carry the same, and none carries one that is still to be given out.
THEOREM TypeCorrect == Spec => []TypeOK
<1>1. IInv => TypeOK
  <2> SUFFICES ASSUME IInv PROVE TypeOK
    OBVIOUS
  <2>1. \A p \in Polls : poll[p].at = "gather" =>
          /\ DOMAIN poll[p].seen \subseteq Devices
          /\ \A d \in DOMAIN poll[p].seen : poll[p].seen[d] \in Outcomes(d)
          /\ \A d \in Devices : poll[p].asked[d] \in 0..Len(Links[d])
          /\ poll[p].dark \subseteq Devices /\ poll[p].blurred \subseteq Devices
    BY GatheringPoll DEF IInv, Gathering
  <2>2. IsInjective(active)
    BY DEF IInv, TrackerOK, IsInjective
  <2> QED BY <2>1, <2>2 DEF IInv, TypeOK, LabOK, TrackerOK
<1> QED BY <1>1, Invariant, PTL

\* However many polls overlap, no condition is shown twice, and every record shown as
\* active is the one that AlertTracker resolves when its condition goes away.
THEOREM AlertsTracked == Spec => []ShownAlertsAreTracked
<1>1. IInv => ShownAlertsAreTracked
  BY DEF IInv
<1> QED BY <1>1, Invariant, PTL

\* A request that no other overtook and that the directory answered resolves an alert only
\* if its condition was absent, or its impact relieved, since the alert was opened, however
\* the lab changed between the reads of its devices; or if a device that decides the
\* condition changed in the middle of its own reading, or one of its commands answered wrongly.
THEOREM LatestPollTruthful == Spec => LatestPollResolvesTruthfully
<1> DEFINE Truth == \A p \in Polls :
             poll[p].at = "gather" /\ poll'[p].at = "idle" /\ poll[p].latest /\ poll[p].answered
               => \A key \in DOMAIN active : Resolves(active[key])
                    => active[key] \in recovered \/ Readings(key) \cap poll[p].blurred # {}
<1>1. IInv /\ [Next]_vars => Truth
  <2> SUFFICES ASSUME IInv, [Next]_vars, NEW p \in Polls,
                      poll[p].at = "gather", poll'[p].at = "idle",
                      poll[p].latest, poll[p].answered,
                      NEW key \in DOMAIN active, Resolves(active[key]), Clear(poll[p], key)
               PROVE  active[key] \in recovered
    BY DEF Clear
  <2>1. active' # active
    BY DEF Resolves
  <2>2. PICK q \in Polls : Overview(q)
    BY <2>1 DEF Next, PollStep, PollErrs, DeviceChanges, AccountChanges, DirectoryChanges, LabChanges,
                ReadAccounts, ReadsLink, ReadsService, MisreadsLink, ServiceFails, PollFails, ReadErrs,
                vars, tracker
  <2>3. p = q
    <3>1. Gathering(poll[p])
      BY GatheringPoll DEF IInv
    <3>2. CASE p # q
      <4>1. poll'[p] = [poll[p] EXCEPT !.latest = FALSE]
        BY <2>2, <3>2 DEF Overview
      <4>2. poll'[p].at = "gather"
        BY <3>1, <4>1 DEF Gathering
      <4> QED BY <4>2
    <3> QED BY <3>2
  <2> DEFINE found == ConditionsFromState(poll[p].seen, poll[p].found, poll[p].answered)
  <2>4. DOMAIN poll[p].seen = Devices /\ Reconcile(found)
    BY <2>2, <2>3 DEF Overview
  <2>5. key \in Lasting => key \in found
    BY <2>4, LastingIsFound
  <2>6. IsFiniteSet(found) /\ \A k \in found : k.kind \in Kinds
    BY <2>4, GatheringPoll, FinitelyMany, KnownKinds DEF IInv, Gathering
  <2> HIDE DEF found
  <2>7. /\ DOMAIN active' = found
        /\ \A k \in DOMAIN active \cap found : active'[k] = active[k]
    BY <2>4, <2>6, Reconciled DEF IInv
  <2>8. key \notin found
    BY <2>7 DEF Resolves, Range
  <2> QED BY <2>5, <2>8 DEF Lasting
<1>2. IInv /\ [Next]_vars => [Truth]_vars
  BY <1>1
<1>3. Spec => [][Truth]_vars
  BY <1>2, Invariant, PTL DEF Spec
<1> QED BY <1>3 DEF LatestPollResolvesTruthfully
===============================================================================
